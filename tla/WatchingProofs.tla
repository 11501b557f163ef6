--------------------------- MODULE WatchingProofs ---------------------------
(***************************************************************************)
(* Proofs about Watching, for any wallets, births, outputs, budget and     *)
(* bounds.                                                                 *)
(*                                                                         *)
(* IInv says of every watcher alive, on the screen or worked on by a       *)
(* refresh only, what its walks leave behind (WellWatched), and of a walk  *)
(* under way what it has read so far (WalkedSoFar).  It is kept because a  *)
(* refresh keeps the watchers it started with (InPassKept), whatever is    *)
(* done to the accounts meanwhile.                                         *)
(***************************************************************************)
EXTENDS Watching, TLAPS

(* The blocks from a position's birth to its height are among cov[a]. *)
Covers(cov, a, birth, height) ==
  birth \in Nat \ {0} /\ birth <= height /\ birth .. (height - 1) \subseteq cov[a]

(* The key of an account resumes where its wallet was walked since launch. *)
KeyFits(cov, own, k) ==
  IF own = None THEN k = None
  ELSE /\ k # None /\ k.addr = own.addr /\ k.birth = own.birth
       /\ k.addr = None => k.from.birth = 0 /\ k.from.height = 0
       /\ k.addr # None => /\ Covers(cov, k.addr, k.from.birth, k.from.height)
                           /\ k.from.birth <= own.birth

AccountsAgree ==
  \A id \in Id : /\ KeyFits(covered, owned[id], keys[id])
                 /\ (owned[id] # None /\ owned[id].addr # None) => owned[id].birth > 0
                 /\ (current[id] = None) <=> (owned[id] = None)
                 /\ current[id] # None => current[id].addr = owned[id].addr

PositionsAreWalked ==
  \A a \in Addr : session[a] # None => Covers(covered, a, session[a].birth, session[a].height)

WellWatched(cov, w) ==
  /\ w.status => w.addr # None
  /\ w.addr # None => Covers(cov, w.addr, w.from.birth, w.height) /\ w.from.birth <= w.birth
  /\ w.from.birth <= w.from.height /\ w.from.height <= w.height
  /\ Whole(w, w.addr)
  /\ w.settled \subseteq w.images /\ w.images \subseteq w.found
  /\ w.height <= tip + 1 \/ w.found = {}
  /\ \A o \in w.settled : (spentAt[o] # 0 /\ spentAt[o] < w.height) => o \in w.spent

WatchersAreWell == \A id \in Id : /\ current[id] # None => WellWatched(covered, current[id])
                                  /\ detached[id] # None => WellWatched(covered, detached[id])

PassHoldsItsWatchers ==
  /\ \A id \in Id : detached[id] # None => pass # None /\ id \in pass.ids
  /\ pass # None => \A id \in pass.ids : /\ pass.keys[id] # None
                                         /\ pass.keys[id].addr = InPass(id).addr

(* A walk before its last answer: what it has read of the chain. *)
Reading(w) ==
  /\ walk.last <= tip /\ walk.last < w.height + Budget
  /\ walk.height <= walk.last + 1 \/ walk.height = w.height
  /\ walk.inBlock # {} => walk.height <= walk.last
  /\ walk.inBlock \subseteq Block(walk.height)
  /\ w.settled \subseteq walk.watch
  /\ walk.received = Pays(w.addr, w.height, walk.height)
  /\ \A o \in walk.watch :
       (w.height <= spentAt[o] /\ spentAt[o] < walk.height) => o \in walk.spent

WalkedSoFar ==
  walk # None => /\ InPass(walk.id).addr # None /\ InPass(walk.id).height <= walk.height
                 /\ walk.asking => walk.ask \subseteq InPass(walk.id).images
                 /\ ~ walk.asking => Reading(InPass(walk.id))

IInv == /\ TypeOK /\ AccountsAgree /\ PositionsAreWalked /\ WatchersAreWell
        /\ PassHoldsItsWatchers /\ WalkedSoFar

-----------------------------------------------------------------------------
(* The memo of account keys: a key resumes only at a height its own wallet *)
(* was walked to since launch.                                             *)
LEMMA KeyedFits ==
  ASSUME WatchingAssumption,
         NEW own \in [Id -> Account \cup {None}],
         NEW st \in [Id -> Position \cup {None}], NEW se \in [Addr -> Position \cup {None}],
         NEW cov \in [Addr -> SUBSET Nat],
         \A id \in Id : (own[id] # None /\ own[id].addr # None) => own[id].birth > 0,
         \A a \in Addr : se[a] # None => Covers(cov, a, se[a].birth, se[a].height)
  PROVE  /\ Keyed(own, st, se) \in [Id -> Key \cup {None}]
         /\ \A id \in Id : KeyFits(cov, own[id], Keyed(own, st, se)[id])
<1> SUFFICES ASSUME NEW id \in Id
             PROVE  /\ Keyed(own, st, se)[id] \in Key \cup {None}
                    /\ KeyFits(cov, own[id], Keyed(own, st, se)[id])
  BY DEF Keyed
<1> DEFINE k == Keyed(own, st, se)[id]
<1>1. CASE own[id] = None
  BY <1>1 DEF Keyed, KeyFits
<1>2. CASE own[id] # None /\ own[id].addr = None
  <2>1. k = [addr |-> None, btc |-> own[id].btc, birth |-> own[id].birth, from |-> At(0, 0)]
    BY <1>2 DEF Keyed
  <2>2. own[id] \in Account /\ own[id].btc \in BOOLEAN /\ own[id].birth \in Nat
    BY <1>2 DEF Account
  <2>3. k \in Key
    BY <2>1, <2>2 DEF Key, At
  <2> QED
    BY <1>2, <2>1, <2>3 DEF KeyFits, At
<1>3. CASE own[id] # None /\ own[id].addr # None
  <2> DEFINE a == own[id].addr  from == ResumeFrom(own[id].birth, st[id], se[a])
  <2>1. own[id] \in Account /\ a \in Addr /\ own[id].birth \in Nat \ {0}
    BY <1>3 DEF Account
  <2>2. k = [addr |-> a, btc |-> own[id].btc, birth |-> own[id].birth, from |-> from]
    BY <1>3 DEF Keyed
  <2>3. /\ from \in [birth : Nat, height : Nat] /\ from.birth <= own[id].birth
        /\ Covers(cov, a, from.birth, from.height)
    <3>1. CASE se[a] # None /\ st[id] # None /\ st[id] = se[a] /\ st[id].birth <= own[id].birth
      BY <2>1, <3>1 DEF ResumeFrom, At, Position
    <3>2. CASE ~ (se[a] # None /\ st[id] # None /\ st[id] = se[a] /\ st[id].birth <= own[id].birth)
      <4>1. from = At(own[id].birth, own[id].birth)
        BY <3>2 DEF ResumeFrom
      <4> QED
        BY <2>1, <4>1 DEF At, Covers
    <3> QED BY <3>1, <3>2
  <2> QED
    BY <1>3, <2>1, <2>2, <2>3 DEF KeyFits, Key, Account
<1> QED
  BY <1>1, <1>2, <1>3

(* A new watcher has walked nothing, and that is all it says. *)
LEMMA FreshIsWell ==
  ASSUME WatchingAssumption, tip \in Nat, spentAt \in [Output -> Nat],
         NEW cov, NEW own \in Account, NEW k \in Key, KeyFits(cov, own, k)
  PROVE  NodeWatcher(k) \in Watcher /\ WellWatched(cov, NodeWatcher(k))
<1> DEFINE w == NodeWatcher(k)
<1>1. w \in Watcher
  BY DEF NodeWatcher, Watcher, Key
<1>2. k.from.birth \in Nat /\ k.from.height \in Nat /\ k.from.birth <= k.from.height
  BY DEF KeyFits, Covers, Key, WatchingAssumption, Account
<1>3. Whole(w, w.addr)
  BY <1>2 DEF Whole, Pays, NodeWatcher, WatchingAssumption
<1>4. w.addr # None => Covers(cov, w.addr, w.from.birth, w.height) /\ w.from.birth <= w.birth
  BY DEF KeyFits, NodeWatcher, WatchingAssumption, Account
<1> QED
  BY <1>1, <1>2, <1>3, <1>4 DEF WellWatched, NodeWatcher

(* What is done to the accounts and the node leaves a refresh its watchers.*)
LEMMA InPassKept ==
  ASSUME TypeOK, PassHoldsItsWatchers, pass # None, NEW ks, NEW carry, Watchers(ks, carry),
         NEW id \in pass.ids
  PROVE  InPass(id)' = InPass(id)
<1>1. id \in Id /\ InPass(id) # None
  BY DEF TypeOK, Pass
<1>2. CASE detached[id] # None
  BY <1>1, <1>2 DEF InPass, Watchers
<1>3. CASE detached[id] = None /\ ks[id] # None /\ carry /\ Carries(id, ks[id])
  BY <1>1, <1>3 DEF InPass, Watchers
<1>4. CASE detached[id] = None /\ ~ (ks[id] # None /\ carry /\ Carries(id, ks[id]))
  BY <1>1, <1>4 DEF InPass, Watchers
<1> QED
  BY <1>2, <1>3, <1>4

(* The accounts or the node change: the watchers are the kept ones and new *)
(* ones, and a refresh under way goes on with its own.                     *)
LEMMA Rewatched ==
  ASSUME IInv, NEW carry \in BOOLEAN, Watchers(keys', carry),
         owned' \in [Id -> Account \cup {None}], keys' \in [Id -> Key \cup {None}],
         starts' \in [Id -> Position \cup {None}], session' \in [Addr -> Position \cup {None}],
         \A id \in Id : /\ KeyFits(covered, owned'[id], keys'[id])
                        /\ (owned'[id] # None /\ owned'[id].addr # None) => owned'[id].birth > 0,
         \A a \in Addr : session'[a] # None => Covers(covered, a, session'[a].birth, session'[a].height),
         UNCHANGED <<chain, pass, walk, covered>>
  PROVE  IInv'
<1> USE WatchingAssumption
<1>1. /\ tip' = tip /\ spentAt' = spentAt /\ pass' = pass /\ walk' = walk /\ covered' = covered
      /\ tip \in Nat /\ spentAt \in [Output -> Nat]
  BY DEF chain, IInv, TypeOK
<1>2. ASSUME NEW id \in Id
      PROVE  /\ current'[id] \in Watcher \cup {None}
             /\ (current'[id] = None) <=> (owned'[id] = None)
             /\ current'[id] # None => /\ current'[id].addr = owned'[id].addr
                                      /\ WellWatched(covered, current'[id])
  <2>0. KeyFits(covered, owned'[id], keys'[id])
    OBVIOUS
  <2>1. CASE keys'[id] = None
    <3>1. current'[id] = None
      BY <2>1 DEF Watchers
    <3>2. owned'[id] = None
      BY <2>0, <2>1 DEF KeyFits
    <3> QED BY <3>1, <3>2
  <2>2. CASE keys'[id] # None /\ carry /\ Carries(id, keys'[id])
    <3>1. current'[id] = current[id] /\ current[id] # None /\ current[id].addr = keys'[id].addr
      BY <2>2 DEF Watchers, Carries
    <3>2. current[id] \in Watcher /\ WellWatched(covered, current[id])
      BY <3>1 DEF IInv, TypeOK, WatchersAreWell
    <3>3. owned'[id] # None /\ keys'[id].addr = owned'[id].addr
      BY <2>0, <2>2 DEF KeyFits
    <3> QED BY <3>1, <3>2, <3>3
  <2>3. CASE keys'[id] # None /\ ~ (carry /\ Carries(id, keys'[id]))
    <3>1. current'[id] = NodeWatcher(keys'[id])
      BY <2>3 DEF Watchers
    <3>2. owned'[id] # None /\ keys'[id].addr = owned'[id].addr
      BY <2>0, <2>3 DEF KeyFits
    <3>3. owned'[id] \in Account /\ keys'[id] \in Key
      BY <2>3, <3>2
    <3>4. NodeWatcher(keys'[id]) \in Watcher /\ WellWatched(covered, NodeWatcher(keys'[id]))
      BY <1>1, <2>0, <3>3, FreshIsWell
    <3>5. NodeWatcher(keys'[id]).addr = keys'[id].addr
      BY DEF NodeWatcher
    <3> QED BY <3>1, <3>2, <3>4, <3>5
  <2> QED BY <2>1, <2>2, <2>3
<1>3. ASSUME NEW id \in Id
      PROVE  /\ detached'[id] \in Watcher \cup {None}
             /\ detached'[id] # None => /\ pass # None /\ id \in pass.ids
                                       /\ WellWatched(covered, detached'[id])
  <2>1. \/ detached'[id] = detached[id]
        \/ /\ pass # None /\ id \in pass.ids /\ detached'[id] = current[id]
    BY DEF Watchers
  <2> QED
    BY <2>1 DEF IInv, TypeOK, WatchersAreWell, PassHoldsItsWatchers
<1>4. ASSUME pass # None, NEW id \in pass.ids PROVE InPass(id)' = InPass(id)
  BY <1>4, InPassKept DEF IInv
<1>5. current' \in [Id -> Watcher \cup {None}] /\ detached' \in [Id -> Watcher \cup {None}]
  <2>1. /\ current' = [id \in Id |-> current'[id]] /\ detached' = [id \in Id |-> detached'[id]]
    BY DEF Watchers
  <2> QED BY <1>2, <1>3, <2>1
<1>6. TypeOK'
  BY <1>1, <1>4, <1>5 DEF IInv, TypeOK
<1>7. AccountsAgree' /\ PositionsAreWalked'
  BY <1>1, <1>2 DEF AccountsAgree, PositionsAreWalked
<1>8. WatchersAreWell'
  BY <1>1, <1>2, <1>3 DEF WatchersAreWell, WellWatched
<1>9. PassHoldsItsWatchers'
  <2>1. \A id \in Id : detached'[id] # None => pass' # None /\ id \in pass'.ids
    BY <1>1, <1>3
  <2>2. ASSUME pass' # None, NEW id \in pass'.ids
        PROVE  pass'.keys[id] # None /\ pass'.keys[id].addr = InPass(id)'.addr
    BY <1>1, <1>4, <2>2 DEF IInv, PassHoldsItsWatchers
  <2> QED BY <2>1, <2>2 DEF PassHoldsItsWatchers
<1>10. WalkedSoFar'
  <2> SUFFICES ASSUME walk # None
               PROVE  WalkedSoFar'
    BY <1>1 DEF WalkedSoFar
  <2>1. pass # None /\ walk.id \in pass.ids
    BY DEF IInv, TypeOK
  <2>2. InPass(walk.id)' = InPass(walk.id)
    BY <1>1, <1>4, <2>1 DEF InPass
  <2> QED
    BY <1>1, <2>2 DEF IInv, WalkedSoFar, Reading, Block, Pays
<1> QED
  BY <1>6, <1>7, <1>8, <1>9, <1>10 DEF IInv

(* The watcher a walk works on is put back, wherever it is held. *)
LEMMA PutBack ==
  ASSUME IInv, walk # None, NEW id \in Id, id = walk.id, NEW w \in Watcher, Put(id, w),
         w.addr = InPass(id).addr, WellWatched(covered, w)',
         covered' \in [Addr -> SUBSET Nat], \A a \in Addr : covered[a] \subseteq covered'[a],
         UNCHANGED <<chain, owned, keys, positions>>,
         pass' # None, pass'.ids = pass.ids, pass'.keys = pass.keys
  PROVE  /\ current' \in [Id -> Watcher \cup {None}] /\ detached' \in [Id -> Watcher \cup {None}]
         /\ AccountsAgree' /\ PositionsAreWalked' /\ WatchersAreWell' /\ PassHoldsItsWatchers'
         /\ InPass(id)' = w /\ \A i \in pass.ids : InPass(i)' # None
<1> USE WatchingAssumption
<1>1. pass # None /\ id \in pass.ids /\ pass.ids \subseteq Id /\ w # None
  BY DEF IInv, TypeOK, Pass
<1>2. w.addr # None
  BY DEF IInv, WalkedSoFar
<1>3. \A a \in Addr : \A b, h : Covers(covered, a, b, h) => Covers(covered', a, b, h)
  BY DEF Covers
<1>4. ASSUME NEW i \in Id
      PROVE  /\ current'[i] = current[i] \/ (i = id /\ current'[i] = w /\ current[i] = InPass(i))
             /\ detached'[i] = detached[i] \/ (i = id /\ detached'[i] = w /\ detached[i] # None)
             /\ (current'[i] = None) <=> (current[i] = None)
             /\ (detached'[i] = None) <=> (detached[i] = None)
             /\ InPass(i)' = IF i = id THEN w ELSE InPass(i)
  BY <1>1 DEF Put, InPass, IInv, TypeOK
<1>5. current' \in [Id -> Watcher \cup {None}] /\ detached' \in [Id -> Watcher \cup {None}]
  BY DEF Put, IInv, TypeOK
<1>6. AccountsAgree'
  <2>1. ASSUME NEW i \in Id
        PROVE  KeyFits(covered', owned[i], keys[i])
    BY <1>3 DEF IInv, AccountsAgree, KeyFits, TypeOK, Key
  <2>2. \A i \in Id : current'[i] # None => current'[i].addr = owned[i].addr
    BY <1>4 DEF IInv, AccountsAgree
  <2> QED
    BY <1>4, <2>1, <2>2 DEF IInv, AccountsAgree
<1>7. PositionsAreWalked'
  BY <1>3 DEF IInv, PositionsAreWalked, positions
<1>8. ASSUME NEW v \in Watcher, WellWatched(covered, v)
      PROVE  WellWatched(covered, v)'
  BY <1>3, <1>8 DEF WellWatched, chain, Whole, Pays, Watcher
<1>9. WatchersAreWell'
  <2>1. ASSUME NEW i \in Id, current'[i] # None
        PROVE  WellWatched(covered, current[i])'
    BY <1>4, <1>8, <2>1 DEF IInv, WatchersAreWell, TypeOK
  <2>2. ASSUME NEW i \in Id, detached'[i] # None
        PROVE  WellWatched(covered, detached[i])'
    BY <1>4, <1>8, <2>2 DEF IInv, WatchersAreWell, TypeOK
  <2> QED BY <2>1, <2>2 DEF WatchersAreWell
<1>10. PassHoldsItsWatchers'
  BY <1>1, <1>2, <1>4 DEF IInv, PassHoldsItsWatchers
<1> QED
  BY <1>1, <1>4, <1>5, <1>6, <1>7, <1>9, <1>10 DEF IInv, TypeOK

-----------------------------------------------------------------------------
LEMMA Start == WatchingAssumption /\ Init => IInv
<1> SUFFICES ASSUME WatchingAssumption, Init PROVE IInv
  OBVIOUS
<1>1. TypeOK
  BY DEF Init, TypeOK, Id
<1>2. AccountsAgree /\ PositionsAreWalked /\ WatchersAreWell /\ PassHoldsItsWatchers /\ WalkedSoFar
  BY DEF Init, AccountsAgree, KeyFits, PositionsAreWalked, WatchersAreWell, PassHoldsItsWatchers,
         WalkedSoFar
<1> QED BY <1>1, <1>2 DEF IInv

(* A block is mined; it lies above every block a walk has asked for. *)
LEMMA Mined == ASSUME IInv, NEW S \in SUBSET Unspent, Mine(S) PROVE IInv'
<1> USE WatchingAssumption
<1>1. tip \in Nat /\ tip' = tip + 1 /\ spentAt' \in [Output -> Nat] /\ spentAt \in [Output -> Nat]
  BY DEF Mine, IInv, TypeOK
<1>2. \A o \in Output : spentAt'[o] = spentAt[o] \/ (spentAt[o] = 0 /\ spentAt'[o] = tip + 1)
  BY DEF Mine, Unspent
<1>3. UNCHANGED <<watching, positions, pass, walk, covered>>
  BY DEF Mine
<1>4. TypeOK'
  BY <1>1, <1>3 DEF IInv, TypeOK, watching, positions, InPass
<1>5. ASSUME NEW w \in Watcher, WellWatched(covered, w)
      PROVE  WellWatched(covered, w)'
  BY <1>1, <1>2, <1>3, <1>5 DEF WellWatched, Whole, Pays, Watcher, Covers
<1>6. WatchersAreWell'
  <2>1. current' = current /\ detached' = detached
    BY <1>3 DEF watching
  <2> QED BY <1>5, <2>1 DEF IInv, WatchersAreWell, TypeOK
<1>7. ASSUME walk # None PROVE WalkedSoFar'
  <2> DEFINE w == InPass(walk.id)
  <2>1. walk' = walk /\ InPass(walk.id)' = w /\ w \in Watcher /\ walk \in Walk
    BY <1>3, <1>7 DEF watching, InPass, IInv, TypeOK, Pass
  <2>2. w.addr # None /\ w.from.birth > 0 /\ w.height > 0 /\ w.height <= walk.height
    BY <1>7, <2>1 DEF IInv, WalkedSoFar, WatchersAreWell, WellWatched, Covers, InPass, Walk, Watcher
  <2>3. ASSUME ~ walk.asking, NEW x \in walk.inBlock PROVE x \in Block(walk.height)'
    <3>1. x \in Block(walk.height) /\ walk.height <= tip /\ walk.height > 0
      BY <1>1, <1>7, <2>1, <2>2, <2>3 DEF IInv, WalkedSoFar, Reading, Walk, Watcher
    <3>2. \A o \in Output : spentAt[o] = walk.height => spentAt'[o] = walk.height
      BY <1>1, <1>2, <2>1, <3>1 DEF Walk
    <3> QED BY <2>1, <3>1, <3>2 DEF Block
  <2>4. ASSUME ~ walk.asking, NEW o \in walk.watch,
               w.height <= spentAt'[o], spentAt'[o] < walk.height
        PROVE  o \in walk.spent
    <3>1. o \in Output /\ walk.last <= tip /\ (walk.height <= walk.last + 1 \/ walk.height = w.height)
      BY <1>7, <2>1, <2>4 DEF IInv, WalkedSoFar, Reading, Walk
    <3>2. spentAt'[o] = spentAt[o]
      BY <1>1, <1>2, <2>1, <2>4, <3>1 DEF Walk, Watcher
    <3> QED BY <1>7, <2>1, <2>4, <3>2 DEF IInv, WalkedSoFar, Reading
  <2> QED
    BY <1>1, <1>7, <2>1, <2>3, <2>4 DEF IInv, WalkedSoFar, Reading, Pays, Walk
<1> QED
  BY <1>3, <1>4, <1>6, <1>7 DEF IInv, AccountsAgree, PositionsAreWalked, PassHoldsItsWatchers,
     InPass, WalkedSoFar, watching, positions

(* The accounts and the node. *)
LEMMA AccountsKeep ==
  ASSUME IInv,
         \/ \E a \in Wallets["vault"] : \E b \in Births[a] : AcceptMonero(a, b)
         \/ AcceptBitcoin \/ (\E a \in Accounts("hot") : KeepHot(a)) \/ \E id \in Id : Forget(id)
         \/ SetNode \/ ForgetStored
  PROVE  IInv'
<1> USE WatchingAssumption
<1> DEFINE Born(own) == \A id \in Id : (own[id] # None /\ own[id].addr # None) => own[id].birth > 0
<1>0. /\ owned \in [Id -> Account \cup {None}] /\ starts \in [Id -> Position \cup {None}]
      /\ session \in [Addr -> Position \cup {None}] /\ covered \in [Addr -> SUBSET Nat]
      /\ keys \in [Id -> Key \cup {None}]
      /\ Born(owned) /\ \A a \in Addr : session[a] # None =>
                            Covers(covered, a, session[a].birth, session[a].height)
  BY DEF IInv, TypeOK, AccountsAgree, PositionsAreWalked
<1>1. ASSUME NEW id \in Id, NEW a \in Account, a.addr # None => a.birth > 0, Hold(id, a)
      PROVE  IInv'
  <2>1. owned' \in [Id -> Account \cup {None}] /\ Born(owned')
    BY <1>0, <1>1 DEF Hold
  <2>2. keys' = Keyed(owned', starts, session) /\ Watchers(keys', TRUE)
    BY <1>1 DEF Hold, Watchers
  <2>3. /\ keys' \in [Id -> Key \cup {None}]
        /\ \A i \in Id : KeyFits(covered, owned'[i], keys'[i])
    BY <1>0, <2>1, <2>2, KeyedFits
  <2>4. UNCHANGED <<chain, pass, walk, covered>> /\ starts' = starts /\ session' = session
    BY <1>1 DEF Hold, positions
  <2> QED BY <1>0, <2>1, <2>2, <2>3, <2>4, Rewatched
<1>2. ASSUME NEW a \in Wallets["vault"], NEW b \in Births[a], AcceptMonero(a, b) PROVE IInv'
  <2>1. a \in Addr /\ b \in Nat \ {0} /\ "vault" \in Id
    BY DEF Id
  <2> DEFINE k == [addr |-> a, btc |-> owned["vault"] # None /\ owned["vault"].btc, birth |-> b]
  <2>2. Hold("vault", k)
    BY <1>2 DEF AcceptMonero
  <2>3. k \in Account
    <3> DEFINE btc == owned["vault"] # None /\ owned["vault"].btc
    <3>1. btc \in BOOLEAN
      OBVIOUS
    <3> HIDE DEF btc
    <3>2. [addr |-> a, btc |-> btc, birth |-> b] \in Account
      BY <2>1, <3>1 DEF Account
    <3> QED BY <3>2 DEF btc
  <2> QED BY <1>1, <2>1, <2>2, <2>3
<1>3. ASSUME AcceptBitcoin PROVE IInv'
  <2>1. BitcoinOnly \in Account /\ BitcoinOnly.addr = None /\ "vault" \in Id
    BY DEF BitcoinOnly, Account, Id
  <2>2. CASE owned["vault"] = None
    BY <1>1, <1>3, <2>1, <2>2 DEF AcceptBitcoin
  <2>3. CASE owned["vault"] # None
    <3> DEFINE k == [owned["vault"] EXCEPT !.btc = TRUE]
    <3>1. owned["vault"] \in Account
      BY <1>0, <2>1, <2>3
    <3>2. k \in Account /\ (k.addr # None => k.birth > 0)
      BY <1>0, <2>1, <2>3, <3>1 DEF Account
    <3>3. Hold("vault", k)
      BY <1>3, <2>3 DEF AcceptBitcoin
    <3> QED BY <1>1, <2>1, <3>2, <3>3
  <2> QED BY <2>2, <2>3
<1>4. ASSUME NEW a \in Accounts("hot"), KeepHot(a) PROVE IInv'
  <2>1. a \in Account /\ (a.addr # None => a.birth > 0) /\ "hot" \in Id
    <3>1. "hot" \in Id
      BY DEF Id
    <3>2. CASE a = BitcoinOnly
      BY <3>1, <3>2 DEF BitcoinOnly, Account
    <3>3. CASE a # BitcoinOnly
      <4>1. PICK x \in Wallets["hot"] : a \in [addr : {x}, btc : BOOLEAN, birth : Births[x]]
        BY <3>3 DEF Accounts
      <4>2. x \in Addr /\ Births[x] \subseteq Nat \ {0}
        BY <3>1
      <4> QED BY <3>1, <4>1, <4>2 DEF Account
    <3> QED BY <3>2, <3>3
  <2> QED BY <1>1, <1>4, <2>1 DEF KeepHot
<1>5. ASSUME NEW id \in Id, Forget(id) PROVE IInv'
  <2>1. owned' \in [Id -> Account \cup {None}] /\ Born(owned')
    BY <1>0, <1>5 DEF Forget
  <2>2. /\ starts' \in [Id -> Position \cup {None}] /\ session' \in [Addr -> Position \cup {None}]
        /\ \A a \in Addr : session'[a] # None =>
              Covers(covered, a, session'[a].birth, session'[a].height)
    BY <1>0, <1>5 DEF Forget
  <2>3. keys' = Keyed(owned', starts', session') /\ Watchers(keys', TRUE)
    BY <1>5 DEF Forget, Watchers
  <2>4. /\ keys' \in [Id -> Key \cup {None}]
        /\ \A i \in Id : KeyFits(covered, owned'[i], keys'[i])
    BY <1>0, <2>1, <2>2, <2>3, KeyedFits
  <2>5. UNCHANGED <<chain, pass, walk, covered>>
    BY <1>5 DEF Forget
  <2> QED BY <2>1, <2>2, <2>3, <2>4, <2>5, Rewatched
<1>6. ASSUME SetNode PROVE IInv'
  <2>1. keys' = keys /\ Watchers(keys', FALSE)
    BY <1>6 DEF SetNode, Watchers
  <2>2. UNCHANGED <<chain, pass, walk, covered>> /\ starts' = starts /\ session' = session /\ owned' = owned
    BY <1>6 DEF SetNode, positions
  <2>3. \A i \in Id : KeyFits(covered, owned[i], keys[i])
    BY DEF IInv, AccountsAgree
  <2> QED BY <1>0, <2>1, <2>2, <2>3, Rewatched
<1>7. ASSUME ForgetStored PROVE IInv'
  <2>1. /\ starts' \in [Id -> Position \cup {None}] /\ session' \in [Addr -> Position \cup {None}]
        /\ \A a \in Addr : session'[a] = None
    BY <1>7 DEF ForgetStored
  <2>2. keys' = Keyed(owned, starts', session') /\ Watchers(keys', FALSE)
    BY <1>7 DEF ForgetStored, Watchers
  <2>3. /\ keys' \in [Id -> Key \cup {None}]
        /\ \A i \in Id : KeyFits(covered, owned[i], keys'[i])
    BY <1>0, <2>1, <2>2, KeyedFits
  <2>4. UNCHANGED <<chain, pass, walk, covered>> /\ owned' = owned
    BY <1>7 DEF ForgetStored
  <2> QED BY <1>0, <2>1, <2>2, <2>3, <2>4, Rewatched
<1> QED BY <1>2, <1>3, <1>4, <1>5, <1>6, <1>7

(* A launch starts every walk from its birth. *)
LEMMA Relaunched == ASSUME IInv, Relaunch PROVE IInv'
<1> USE WatchingAssumption
<1>0. /\ owned' = owned /\ owned \in [Id -> Account \cup {None}] /\ pass' = None /\ walk' = None
      /\ covered' \in [Addr -> SUBSET Nat] /\ UNCHANGED chain
      /\ tip \in Nat /\ spentAt \in [Output -> Nat] /\ keys' = Keyed(owned, starts', session')
      /\ \A id \in Id : detached'[id] = None
  BY DEF Relaunch, IInv, TypeOK
<1>1. starts' \in [Id -> Position \cup {None}] /\ session' \in [Addr -> Position \cup {None}]
  BY DEF Relaunch, IInv, TypeOK, Position
<1>2. \A a \in Addr : session'[a] = None
  BY DEF Relaunch
<1>3. /\ keys' \in [Id -> Key \cup {None}]
      /\ \A id \in Id : KeyFits(covered', owned[id], keys'[id])
  BY <1>0, <1>1, <1>2, KeyedFits DEF IInv, AccountsAgree
<1>4. ASSUME NEW id \in Id
      PROVE  /\ current'[id] \in Watcher \cup {None}
             /\ (current'[id] = None) <=> (owned[id] = None)
             /\ current'[id] # None => /\ current'[id].addr = owned[id].addr
                                      /\ WellWatched(covered', current'[id])
  <2>1. CASE keys'[id] = None
    BY <1>3, <2>1 DEF Relaunch, KeyFits
  <2>2. CASE keys'[id] # None
    <3>1. current'[id] = NodeWatcher(keys'[id]) /\ owned[id] # None
      BY <1>3, <2>2 DEF Relaunch, KeyFits
    <3>2. NodeWatcher(keys'[id]) \in Watcher /\ WellWatched(covered', NodeWatcher(keys'[id]))
      BY <1>0, <1>3, <2>2, <3>1, FreshIsWell
    <3>3. NodeWatcher(keys'[id]).addr = owned[id].addr
      BY <1>3, <3>1 DEF NodeWatcher, KeyFits
    <3> QED BY <3>1, <3>2, <3>3
  <2> QED BY <2>1, <2>2
<1>5. current' \in [Id -> Watcher \cup {None}] /\ detached' \in [Id -> Watcher \cup {None}]
  <2>1. current' = [id \in Id |-> current'[id]]
    BY DEF Relaunch
  <2> QED BY <1>4, <2>1 DEF Relaunch
<1>6. TypeOK'
  BY <1>0, <1>1, <1>3, <1>5 DEF TypeOK, chain
<1>7. AccountsAgree' /\ PositionsAreWalked' /\ PassHoldsItsWatchers' /\ WalkedSoFar'
  BY <1>0, <1>2, <1>3, <1>4 DEF IInv, AccountsAgree, PositionsAreWalked, PassHoldsItsWatchers, WalkedSoFar
<1>8. WatchersAreWell'
  BY <1>0, <1>4 DEF WatchersAreWell, WellWatched, chain
<1> QED BY <1>6, <1>7, <1>8 DEF IInv

(* Key images are accepted for outputs the watcher has found. *)
LEMMA Imported == ASSUME IInv, NEW S \in SUBSET Output, ImportKeyImages(S) PROVE IInv'
<1> USE WatchingAssumption
<1>1. /\ UNCHANGED <<chain, owned, keys, detached, positions, pass, walk, covered>>
      /\ current["vault"] # None /\ S \subseteq current["vault"].found /\ "vault" \in Id
      /\ current["vault"] \in Watcher /\ current \in [Id -> Watcher \cup {None}]
      /\ current' = [current EXCEPT !["vault"].images = @ \cup S]
  BY DEF ImportKeyImages, IInv, TypeOK, Id
<1> DEFINE w == [current["vault"] EXCEPT !.images = @ \cup S]
<1>2. w \in Watcher /\ w # None /\ \A i \in Id : current'[i] = IF i = "vault" THEN w ELSE current[i]
  BY <1>1 DEF Watcher
<1>3. /\ w.addr = current["vault"].addr /\ w.height = current["vault"].height
      /\ w.settled = current["vault"].settled /\ w.status = current["vault"].status
      /\ w.birth = current["vault"].birth /\ w.from = current["vault"].from /\ w.found = current["vault"].found
      /\ w.spent = current["vault"].spent /\ current["vault"].images \subseteq w.images
      /\ w.images = current["vault"].images \cup S
  BY <1>1 DEF Watcher
<1> HIDE DEF w
<1>4. current' \in [Id -> Watcher \cup {None}]
  BY <1>1, <1>2
<1>5. \A i \in Id : InPass(i)' = InPass(i) \/ (InPass(i) = current["vault"] /\ InPass(i)' = w)
  BY <1>1, <1>2 DEF InPass
<1>6. TypeOK'
  <2>1. pass # None => \A i \in pass.ids : i \in Id /\ InPass(i)' # None
    BY <1>2, <1>5 DEF IInv, TypeOK, Pass
  <2> QED BY <1>1, <1>4, <2>1 DEF IInv, TypeOK, chain, positions
<1>7. AccountsAgree' /\ PositionsAreWalked'
  BY <1>1, <1>2, <1>3 DEF IInv, AccountsAgree, PositionsAreWalked, positions
<1>8. WellWatched(covered, w)
  BY <1>1, <1>3 DEF IInv, WatchersAreWell, WellWatched, Whole
<1>9. WatchersAreWell'
  BY <1>1, <1>2, <1>8 DEF IInv, WatchersAreWell, WellWatched, chain
<1>10. PassHoldsItsWatchers'
  <2>1. pass # None => pass.ids \subseteq Id
    BY DEF IInv, TypeOK, Pass
  <2> QED BY <1>1, <1>3, <1>5, <2>1 DEF IInv, PassHoldsItsWatchers
<1>11. WalkedSoFar'
  <2> SUFFICES ASSUME walk # None PROVE WalkedSoFar'
    BY <1>1 DEF WalkedSoFar
  <2>1. walk.id \in Id /\ walk' = walk
    BY <1>1 DEF IInv, TypeOK, Walk
  <2>2. /\ InPass(walk.id)'.addr = InPass(walk.id).addr
        /\ InPass(walk.id)'.height = InPass(walk.id).height
        /\ InPass(walk.id)'.settled = InPass(walk.id).settled
        /\ InPass(walk.id).images \subseteq InPass(walk.id)'.images
    BY <1>1, <1>2, <1>3, <2>1 DEF InPass
  <2> QED BY <1>1, <2>1, <2>2 DEF IInv, WalkedSoFar, Reading, Block, Pays, chain
<1> QED BY <1>6, <1>7, <1>9, <1>10, <1>11 DEF IInv

(* Steps that change neither a watcher nor what the walk rests on. *)
LEMMA WatchersStand ==
  ASSUME IInv, UNCHANGED <<chain, watching, positions, covered>>,
         pass' \in Pass, walk' \in Walk \cup {None},
         pass'.todo \subseteq pass'.ids, \A id \in pass'.ids : InPass(id) # None,
         walk' # None => walk'.id \in pass'.todo,
         \A id \in Id : detached[id] # None => id \in pass'.ids,
         \A id \in pass'.ids : pass'.keys[id] # None /\ pass'.keys[id].addr = InPass(id).addr,
         WalkedSoFar'
  PROVE  IInv'
<1> USE WatchingAssumption
<1>1. /\ tip' = tip /\ spentAt' = spentAt /\ owned' = owned /\ keys' = keys /\ current' = current
      /\ detached' = detached /\ starts' = starts /\ session' = session /\ covered' = covered
  BY DEF chain, watching, positions
<1>2. pass' # None
  OBVIOUS
<1>3. \A id : InPass(id)' = InPass(id)
  BY <1>1 DEF InPass
<1>4. TypeOK'
  BY <1>1, <1>2, <1>3 DEF IInv, TypeOK
<1>5. AccountsAgree' /\ PositionsAreWalked' /\ WatchersAreWell'
  BY <1>1 DEF IInv, AccountsAgree, PositionsAreWalked, WatchersAreWell, WellWatched
<1>6. PassHoldsItsWatchers'
  BY <1>1, <1>2, <1>3 DEF PassHoldsItsWatchers
<1> QED BY <1>4, <1>5, <1>6 DEF IInv

LEMMA PassBegun == ASSUME IInv, BeginRefresh PROVE IInv'
<1> USE WatchingAssumption
<1> DEFINE ids == {id \in Id : current[id] # None}
<1>1. /\ UNCHANGED <<chain, watching, positions, covered>> /\ walk' = walk /\ pass = None
      /\ pass' = [ids |-> ids, todo |-> ids, keys |-> keys]
  BY DEF BeginRefresh
<1>2. walk = None /\ pass' \in Pass /\ \A id \in Id : detached[id] = None /\ InPass(id) = current[id]
  BY <1>1 DEF IInv, TypeOK, Pass, PassHoldsItsWatchers, InPass
<1>3. ASSUME NEW id \in ids
      PROVE  keys[id] # None /\ keys[id].addr = current[id].addr
  BY DEF IInv, AccountsAgree, KeyFits
<1> QED
  BY <1>1, <1>2, <1>3, WatchersStand DEF WalkedSoFar

LEMMA WalkBegun ==
  ASSUME IInv, NEW id \in Id, Unanswered(id) \/ StartWalk(id)
  PROVE  IInv' /\ (StartWalk(id) => walk' # None)
<1> USE WatchingAssumption
<1>1. pass # None /\ walk = None /\ id \in pass.todo /\ pass \in Pass
  BY DEF Unanswered, StartWalk, Turn, IInv, TypeOK
<1>2. CASE Unanswered(id)
  <2>1. /\ UNCHANGED <<chain, watching, positions, covered>> /\ walk' = walk
        /\ pass' = [pass EXCEPT !.todo = @ \ {id}]
    BY <1>2 DEF Unanswered, Served
  <2>2. pass' \in Pass /\ pass'.ids = pass.ids /\ pass'.keys = pass.keys
    BY <1>1, <2>1 DEF Pass
  <2>3. IInv'
    BY <1>1, <2>1, <2>2, WatchersStand DEF IInv, TypeOK, PassHoldsItsWatchers, WalkedSoFar
  <2>4. pass'.todo # pass.todo
    BY <1>1, <2>1 DEF Pass
  <2>5. ~ StartWalk(id)
    BY <2>4 DEF StartWalk
  <2> QED BY <2>3, <2>5
<1>3. CASE StartWalk(id)
  <2> DEFINE w == InPass(id)
             last == IF tip < w.height + Budget THEN tip ELSE w.height + Budget - 1
  <2>1. /\ UNCHANGED <<chain, watching, positions, covered>> /\ pass' = pass /\ w.addr # None
        /\ walk' = [id |-> id, height |-> w.height, last |-> last, watch |-> w.images,
                    inBlock |-> {}, received |-> {}, spent |-> {}, asking |-> FALSE, ask |-> {}]
    BY <1>3 DEF StartWalk
  <2>2. id \in pass.ids /\ w \in Watcher /\ WellWatched(covered, w)
    <3>1. id \in pass.ids
      BY <1>1 DEF IInv, TypeOK, Pass, Turn, StartWalk
    <3>2. w # None /\ (w = current[id] \/ w = detached[id])
      BY <1>1, <3>1 DEF IInv, TypeOK, InPass
    <3> QED BY <3>1, <3>2 DEF IInv, TypeOK, WatchersAreWell
  <2>3. w.height \in Nat /\ w.images \subseteq Output /\ tip \in Nat
    BY <2>2 DEF Watcher, IInv, TypeOK
  <2>4. last \in Nat /\ last <= tip /\ last < w.height + Budget
    BY <2>3
  <2> HIDE DEF last
  <2>5. walk' \in Walk /\ walk' # None /\ walk'.id = id
    <3> HIDE DEF w
    <3>1. walk' \in Walk
      BY <2>1, <2>3, <2>4 DEF Walk
    <3> QED BY <2>1, <3>1
  <2>6. InPass(walk.id)' = w
    BY <2>1, <2>5 DEF InPass, watching
  <2>7. Pays(w.addr, w.height, w.height) = {} /\ w.settled \subseteq w.images
    BY <2>2, <2>3 DEF Pays, WellWatched
  <2>7a. \A o \in w.images : ~ (w.height <= spentAt[o] /\ spentAt[o] < w.height)
    BY <2>3 DEF IInv, TypeOK
  <2>8. WalkedSoFar'
    <3>1. /\ tip' = tip /\ spentAt' = spentAt /\ walk'.height = w.height /\ walk'.last = last
          /\ walk'.watch = w.images /\ walk'.inBlock = {} /\ walk'.received = {} /\ ~ walk'.asking
      BY <2>1 DEF chain
    <3>2. Pays(w.addr, w.height, w.height)' = {}
      BY <2>1, <2>6, <2>7 DEF Pays, InPass, watching
    <3> QED
      BY <2>1, <2>3, <2>4, <2>5, <2>6, <2>7, <2>7a, <3>1 DEF WalkedSoFar, Reading, Pays
  <2>9. \A i \in pass.ids : /\ InPass(i) # None /\ pass.keys[i] # None
                            /\ pass.keys[i].addr = InPass(i).addr
    BY <1>1 DEF IInv, TypeOK, PassHoldsItsWatchers
  <2>10. pass.todo \subseteq pass.ids /\ \A i \in Id : detached[i] # None => i \in pass.ids
    BY <1>1, <2>2 DEF IInv, TypeOK, PassHoldsItsWatchers, StartWalk, Turn
  <2> QED
    BY <1>1, <2>1, <2>5, <2>8, <2>9, <2>10, WatchersStand
<1> QED BY <1>2, <1>3

(* Within a block, and at its end. *)
LEMMA BlockRead ==
  ASSUME IInv, CloseBlock \/ \E S \in SUBSET Block(walk.height) : ReadBatch(S)
  PROVE  IInv' /\ walk' \in Walk
<1> USE WatchingAssumption
<1> DEFINE w == InPass(walk.id)
<1>1. /\ walk \in Walk /\ walk # None /\ ~ walk.asking /\ walk.height <= walk.last
      /\ UNCHANGED <<chain, watching, positions, pass, covered>> /\ pass \in Pass
      /\ walk.id \in pass.todo /\ pass.todo \subseteq pass.ids /\ walk.id \in Id
  BY DEF CloseBlock, ReadBatch, Walking, IInv, TypeOK, Walk, Pass
<1>2. w \in Watcher /\ w.addr # None /\ w.addr \in Addr /\ w.height <= walk.height /\ Reading(w)
  <2>1. w \in Watcher
    BY <1>1 DEF IInv, TypeOK, InPass
  <2>2. w.addr # None /\ w.height <= walk.height /\ Reading(w)
    BY <1>1 DEF IInv, WalkedSoFar
  <2> QED BY <2>1, <2>2 DEF Watcher
<1>3. tip' = tip /\ spentAt' = spentAt /\ spentAt \in [Output -> Nat] /\ tip \in Nat
  BY <1>1 DEF chain, IInv, TypeOK
<1>4. SUFFICES walk' \in Walk /\ walk'.id = walk.id /\ WalkedSoFar'
  BY <1>1, WatchersStand DEF IInv, TypeOK, PassHoldsItsWatchers
<1>5. ASSUME NEW S \in SUBSET Block(walk.height), ReadBatch(S)
      PROVE  walk' \in Walk /\ walk'.id = walk.id /\ WalkedSoFar'
  <2>1. walk' = [walk EXCEPT !.inBlock = @ \cup S]
    BY <1>5 DEF ReadBatch
  <2>2. S \subseteq Tx
    BY DEF Block, Tx
  <2>3. walk' \in Walk
    BY <1>1, <2>1, <2>2 DEF Walk
  <2>4. InPass(walk.id)' = w /\ walk'.id = walk.id
    BY <1>1, <2>1 DEF InPass, watching, Walk
  <2>5. /\ walk'.last = walk.last /\ walk'.height = walk.height /\ walk'.watch = walk.watch
        /\ walk'.received = walk.received /\ walk'.spent = walk.spent /\ walk'.asking = walk.asking
        /\ walk'.inBlock = walk.inBlock \cup S
    BY <1>1, <2>1 DEF Walk
  <2> QED
    BY <1>1, <1>2, <1>3, <2>3, <2>4, <2>5 DEF WalkedSoFar, Reading, Block, Pays
<1>6. ASSUME CloseBlock
      PROVE  walk' \in Walk /\ walk'.id = walk.id /\ WalkedSoFar'
  <2> DEFINE paid == {o \in Output : /\ Owner[o] = w.addr
                                     /\ [kind |-> "pay", out |-> o] \in walk.inBlock}
             spends == {o \in walk.watch : [kind |-> "spend", out |-> o] \in walk.inBlock}
  <2>1. /\ walk' = [walk EXCEPT !.inBlock = {}, !.height = @ + 1, !.received = @ \cup paid,
                                !.spent = @ \cup spends]
        /\ walk.inBlock = Block(walk.height)
    BY <1>6 DEF CloseBlock
  <2>2. /\ paid = {o \in Output : Owner[o] = w.addr /\ Paid[o] = walk.height}
        /\ spends = {o \in walk.watch : spentAt[o] = walk.height}
    BY <1>1, <2>1 DEF Block, Walk
  <2> HIDE DEF paid, spends
  <2>2a. paid \subseteq Output /\ spends \subseteq Output
    BY <1>1, <2>2 DEF Walk
  <2>3. walk' \in Walk
    <3>1. /\ walk.height + 1 \in Nat /\ walk.received \cup paid \in SUBSET Output
          /\ walk.spent \cup spends \in SUBSET Output /\ {} \in SUBSET Tx
      BY <1>1, <2>2a DEF Walk
    <3>2. walk' = [id |-> walk.id, height |-> walk.height + 1, last |-> walk.last,
                   watch |-> walk.watch, inBlock |-> {}, received |-> walk.received \cup paid,
                   spent |-> walk.spent \cup spends, asking |-> walk.asking, ask |-> walk.ask]
      BY <1>1, <2>1 DEF Walk
    <3> QED BY <1>1, <3>1, <3>2 DEF Walk
  <2>4. InPass(walk.id)' = w /\ walk'.id = walk.id
    BY <1>1, <2>1 DEF InPass, watching, Walk
  <2>5. /\ walk'.last = walk.last /\ walk'.height = walk.height + 1 /\ walk'.watch = walk.watch
        /\ walk'.received = walk.received \cup paid /\ walk'.spent = walk.spent \cup spends
        /\ walk'.asking = walk.asking /\ walk'.inBlock = {}
    BY <1>1, <2>1 DEF Walk
  <2>6. walk.height \in Nat /\ w.height \in Nat /\ walk.last \in Nat /\ walk.watch \subseteq Output
    BY <1>1, <1>2 DEF Walk, Watcher
  <2>7. walk'.received = Pays(w.addr, w.height, walk.height + 1)
    BY <1>2, <2>2, <2>5, <2>6 DEF Reading, Pays
  <2>8. \A o \in walk'.watch :
          (w.height <= spentAt[o] /\ spentAt[o] < walk'.height) => o \in walk'.spent
    BY <1>2, <1>3, <2>2, <2>5, <2>6 DEF Reading
  <2>9. /\ walk'.last <= tip /\ walk'.height <= walk'.last + 1 /\ w.settled \subseteq walk'.watch
        /\ w.height <= walk'.height
    BY <1>1, <1>2, <2>5, <2>6 DEF Reading
  <2> QED
    BY <1>1, <1>2, <1>3, <2>3, <2>4, <2>5, <2>7, <2>8, <2>9 DEF WalkedSoFar, Reading, Pays
<1> QED BY <1>5, <1>6

(* The scan returns: its findings belong to the blocks it closed, and the  *)
(* images it never asked about are asked about next.                       *)
LEMMA WalkReturned == ASSUME IInv, EndWalk PROVE IInv'
<1> USE WatchingAssumption
<1>a. PICK id : id = walk.id
  OBVIOUS
<1>b. PICK was : was = InPass(id)
  OBVIOUS
<1>c. PICK w : w = [was EXCEPT !.found = @ \cup walk.received, !.spent = @ \cup walk.spent,
                               !.height = walk.height]
  OBVIOUS
<1>d. PICK done : done = [w EXCEPT !.status = TRUE]
  OBVIOUS
<1> DEFINE unsettled == w.images \ w.settled
<1>1. /\ walk \in Walk /\ walk # None /\ ~ walk.asking /\ id \in Id /\ pass # None /\ pass \in Pass
      /\ id \in pass.todo /\ pass.todo \subseteq pass.ids /\ id \in pass.ids
      /\ UNCHANGED <<chain, owned, keys, positions>> /\ tip' = tip /\ spentAt' = spentAt
      /\ tip \in Nat /\ spentAt \in [Output -> Nat] /\ covered \in [Addr -> SUBSET Nat]
  BY <1>a DEF EndWalk, Walking, IInv, TypeOK, Walk, chain
<1>2. /\ covered' = [covered EXCEPT ![w.addr] = @ \cup was.height .. (walk.height - 1)]
      /\ \/ unsettled = {} /\ Put(id, done) /\ Served(id) /\ walk' = None
         \/ /\ unsettled # {} /\ Put(id, w) /\ pass' = pass
            /\ walk' = [walk EXCEPT !.asking = TRUE, !.ask = unsettled, !.inBlock = {}]
  BY <1>a, <1>b, <1>c, <1>d DEF EndWalk
<1>3. was \in Watcher /\ WellWatched(covered, was)
  <2>1. was # None /\ (was = current[id] \/ was = detached[id])
    BY <1>1, <1>b DEF IInv, TypeOK, InPass
  <2> QED BY <1>1, <2>1 DEF IInv, TypeOK, WatchersAreWell
<1>4. was.addr # None /\ was.addr \in Addr /\ was.height <= walk.height /\ Reading(was)
  BY <1>a, <1>b, <1>1, <1>3 DEF IInv, WalkedSoFar, Watcher
<1>5. /\ walk.height \in Nat /\ walk.received \subseteq Output /\ walk.spent \subseteq Output
      /\ walk.last \in Nat
  BY <1>1 DEF Walk
<1>6. /\ w \in Watcher /\ w.addr = was.addr /\ w.birth = was.birth /\ w.from = was.from
      /\ w.height = walk.height
      /\ w.found = was.found \cup walk.received /\ w.images = was.images
      /\ w.settled = was.settled /\ w.spent = was.spent \cup walk.spent /\ w.status = was.status
  BY <1>c, <1>3, <1>5 DEF Watcher
<1>7. /\ done \in Watcher /\ done.addr = was.addr /\ done.birth = was.birth
      /\ done.from = was.from /\ done.height = walk.height
      /\ done.found = w.found /\ done.images = w.images /\ done.settled = w.settled
      /\ done.spent = w.spent
  BY <1>d, <1>6 DEF Watcher
<1>8. /\ covered' \in [Addr -> SUBSET Nat] /\ \A a \in Addr : covered[a] \subseteq covered'[a]
      /\ was.height .. (walk.height - 1) \subseteq covered'[was.addr]
  BY <1>1, <1>2, <1>3, <1>4, <1>5, <1>6 DEF Watcher
<1>9. ASSUME NEW v \in Watcher, v.addr = was.addr, v.birth = was.birth, v.from = was.from,
             v.height = walk.height,
             v.found = w.found, v.images = w.images, v.settled = w.settled, v.spent = w.spent
      PROVE  WellWatched(covered, v)'
  <2>1. /\ was.from.birth \in Nat /\ was.from.height \in Nat /\ was.height \in Nat
        /\ was.found \subseteq Output /\ was.settled \subseteq was.images /\ was.images \subseteq was.found
    BY <1>3 DEF Watcher, WellWatched
  <2>2. Covers(covered', v.addr, v.from.birth, v.height)
    <3>1. Covers(covered, was.addr, was.from.birth, was.height)
      BY <1>3, <1>4 DEF WellWatched
    <3>2. ASSUME NEW n \in v.from.birth .. (v.height - 1) PROVE n \in covered'[v.addr]
      <4>1. n \in was.from.birth .. (was.height - 1) \/ n \in was.height .. (walk.height - 1)
        BY <1>5, <1>9, <2>1
      <4> QED BY <1>4, <1>8, <1>9, <3>1, <4>1 DEF Covers
    <3> QED BY <1>4, <1>5, <1>9, <2>1, <3>1, <3>2 DEF Covers
  <2>3. /\ was.from.birth <= was.from.height /\ was.from.height <= was.height
        /\ v.from.birth <= v.birth
    BY <1>3, <1>4, <1>9 DEF WellWatched
  <2>4. v.found = Pays(v.addr, v.from.height, v.height)
    <3>1. was.found = Pays(was.addr, was.from.height, was.height)
      BY <1>3 DEF WellWatched, Whole
    <3>2. walk.received = Pays(was.addr, was.height, walk.height)
      BY <1>4 DEF Reading
    <3> QED BY <1>4, <1>5, <1>6, <1>9, <2>1, <2>3, <3>1, <3>2 DEF Pays
  <2>5. v.height <= tip + 1 \/ v.found = {}
    <3>1. CASE walk.height = was.height
      <4>1. walk.received = {}
        BY <1>4, <2>1, <3>1 DEF Reading, Pays
      <4> QED BY <1>3, <1>6, <1>9, <3>1, <4>1 DEF WellWatched
    <3>2. CASE walk.height # was.height
      BY <1>1, <1>4, <1>5, <1>9, <3>2 DEF Reading
    <3> QED BY <3>1, <3>2
  <2>6. ASSUME NEW o \in v.settled, spentAt[o] # 0, spentAt[o] < v.height PROVE o \in v.spent
    <3>1. o \in was.settled /\ o \in walk.watch /\ o \in Output
      BY <1>4, <1>6, <1>9, <2>1, <2>6 DEF Reading
    <3>2. CASE spentAt[o] < was.height
      BY <1>3, <1>6, <1>9, <2>6, <3>1, <3>2 DEF WellWatched
    <3>3. CASE was.height <= spentAt[o]
      BY <1>4, <1>6, <1>9, <2>6, <3>1, <3>3 DEF Reading
    <3> QED BY <1>1, <2>1, <3>1, <3>2, <3>3
  <2>7. v.addr # None /\ v.settled \subseteq v.images /\ v.images \subseteq v.found
    BY <1>4, <1>6, <1>9, <2>1
  <2>8. Whole(v, v.addr)'
    BY <2>4 DEF Whole, Pays
  <2> QED BY <1>1, <1>4, <1>5, <1>9, <2>1, <2>2, <2>3, <2>5, <2>6, <2>7, <2>8 DEF WellWatched
<1>10. WellWatched(covered, w)' /\ WellWatched(covered, done)'
  BY <1>6, <1>7, <1>9
<1>11. id = walk.id /\ was = InPass(id)
  BY <1>a, <1>b
<1>12. CASE unsettled = {} /\ Put(id, done) /\ Served(id) /\ walk' = None
  <2>1. pass' = [pass EXCEPT !.todo = @ \ {id}]
    BY <1>12 DEF Served
  <2>2. pass' \in Pass /\ pass' # None /\ pass'.ids = pass.ids /\ pass'.keys = pass.keys
        /\ pass'.todo \subseteq pass'.ids
    BY <1>1, <2>1 DEF Pass
  <2>3. /\ current' \in [Id -> Watcher \cup {None}] /\ detached' \in [Id -> Watcher \cup {None}]
        /\ AccountsAgree' /\ PositionsAreWalked' /\ WatchersAreWell' /\ PassHoldsItsWatchers'
        /\ \A i \in pass.ids : InPass(i)' # None
    BY <1>1, <1>7, <1>8, <1>10, <1>11, <1>12, <2>2, PutBack
  <2>4. TypeOK'
    BY <1>1, <1>8, <1>12, <2>2, <2>3 DEF IInv, TypeOK, chain, positions
  <2> QED BY <1>12, <2>3, <2>4 DEF IInv, WalkedSoFar
<1>13. CASE /\ unsettled # {} /\ Put(id, w) /\ pass' = pass
            /\ walk' = [walk EXCEPT !.asking = TRUE, !.ask = unsettled, !.inBlock = {}]
  <2>1. /\ current' \in [Id -> Watcher \cup {None}] /\ detached' \in [Id -> Watcher \cup {None}]
        /\ AccountsAgree' /\ PositionsAreWalked' /\ WatchersAreWell' /\ PassHoldsItsWatchers'
        /\ InPass(id)' = w /\ \A i \in pass.ids : InPass(i)' # None
    BY <1>1, <1>6, <1>8, <1>10, <1>11, <1>13, PutBack
  <2>2. w.images \subseteq Output
    BY <1>6 DEF Watcher
  <2>3. /\ walk' \in Walk /\ walk'.id = id /\ walk'.asking /\ walk'.ask = unsettled
        /\ walk'.height = walk.height
    BY <1>1, <1>11, <1>13, <2>2 DEF Walk
  <2>4. TypeOK'
    BY <1>1, <1>8, <1>13, <2>1, <2>3 DEF IInv, TypeOK, chain, positions
  <2>5. InPass(walk.id)' = w
    BY <2>1, <2>3, <1>11 DEF InPass
  <2>6. WalkedSoFar'
    BY <1>4, <1>5, <1>6, <2>3, <2>5 DEF WalkedSoFar
  <2> QED BY <2>1, <2>4, <2>6 DEF IInv
<1> QED BY <1>2, <1>12, <1>13

(* The backward look settles what was asked, and nothing read meanwhile. *)
LEMMA Settled == ASSUME IInv, NEW answered \in BOOLEAN, Settle(answered) PROVE IInv'
<1> USE WatchingAssumption
<1>a. PICK id : id = walk.id
  OBVIOUS
<1>b. PICK was : was = InPass(id)
  OBVIOUS
<1>c. PICK w : w = IF answered
                   THEN [was EXCEPT !.spent = @ \cup {o \in walk.ask : spentAt[o] # 0},
                                    !.settled = @ \cup walk.ask, !.status = TRUE]
                   ELSE [was EXCEPT !.status = TRUE]
  OBVIOUS
<1>1. /\ walk \in Walk /\ walk # None /\ walk.asking /\ id \in Id /\ pass # None /\ pass \in Pass
      /\ id \in pass.todo /\ pass.todo \subseteq pass.ids /\ id \in pass.ids
      /\ UNCHANGED <<chain, owned, keys, positions>> /\ tip' = tip /\ spentAt' = spentAt
      /\ tip \in Nat /\ spentAt \in [Output -> Nat] /\ covered' = covered
      /\ covered \in [Addr -> SUBSET Nat]
  BY <1>a DEF Settle, IInv, TypeOK, Walk, chain
<1>2. Put(id, w) /\ walk' = None /\ pass' = [pass EXCEPT !.todo = @ \ {id}]
  BY <1>a, <1>b, <1>c DEF Settle, Served
<1>3. was \in Watcher /\ WellWatched(covered, was)
  <2>1. was # None /\ (was = current[id] \/ was = detached[id])
    BY <1>1, <1>b DEF IInv, TypeOK, InPass
  <2> QED BY <1>1, <2>1 DEF IInv, TypeOK, WatchersAreWell
<1>4. was.addr # None /\ walk.ask \subseteq was.images /\ walk.ask \subseteq Output
  BY <1>a, <1>b, <1>1 DEF IInv, WalkedSoFar, Walk
<1>6. /\ w \in Watcher /\ w.addr = was.addr /\ w.birth = was.birth /\ w.from = was.from
      /\ w.height = was.height
      /\ w.found = was.found /\ w.images = was.images
      /\ w.settled \subseteq was.settled \cup walk.ask /\ was.spent \subseteq w.spent
      /\ \A o \in w.settled : o \in was.settled \/ (o \in walk.ask /\ (spentAt[o] # 0 => o \in w.spent))
  <2>1. CASE answered
    <3>1. w = [was EXCEPT !.spent = @ \cup {o \in walk.ask : spentAt[o] # 0},
                          !.settled = @ \cup walk.ask, !.status = TRUE]
      BY <1>c, <2>1
    <3> QED BY <1>3, <1>4, <3>1 DEF Watcher
  <2>2. CASE ~ answered
    <3>1. w = [was EXCEPT !.status = TRUE]
      BY <1>c, <2>2
    <3> QED BY <1>3, <1>4, <3>1 DEF Watcher
  <2> QED BY <2>1, <2>2
<1>7. WellWatched(covered, w)'
  BY <1>1, <1>3, <1>4, <1>6 DEF WellWatched, Whole, Pays
<1>8. pass' \in Pass /\ pass' # None /\ pass'.ids = pass.ids /\ pass'.keys = pass.keys
      /\ pass'.todo \subseteq pass'.ids
  BY <1>1, <1>2 DEF Pass
<1>9. /\ current' \in [Id -> Watcher \cup {None}] /\ detached' \in [Id -> Watcher \cup {None}]
      /\ AccountsAgree' /\ PositionsAreWalked' /\ WatchersAreWell' /\ PassHoldsItsWatchers'
      /\ \A i \in pass.ids : InPass(i)' # None
  BY <1>a, <1>b, <1>1, <1>2, <1>6, <1>7, <1>8, PutBack
<1>10. TypeOK'
  BY <1>1, <1>2, <1>8, <1>9 DEF IInv, TypeOK, chain, positions
<1> QED BY <1>2, <1>9, <1>10 DEF IInv, WalkedSoFar

(* The pass ends: what its own watchers reached is what is written down.   *)
LEMMA PassEnded == ASSUME IInv, EndRefresh PROVE IInv'
<1> USE WatchingAssumption
<1>1. /\ pass # None /\ pass \in Pass /\ walk' = None /\ pass' = None
      /\ owned' = owned /\ keys' = keys /\ covered' = covered /\ tip' = tip /\ spentAt' = spentAt
      /\ tip \in Nat /\ spentAt \in [Output -> Nat] /\ covered \in [Addr -> SUBSET Nat]
      /\ \A id \in Id : detached'[id] = None
  BY DEF EndRefresh, IInv, TypeOK, chain
<1>2. ASSUME NEW id \in Id, Progress(id)
      PROVE  /\ Reached(id) \in Position /\ Reached(id) # None /\ pass.keys[id].addr \in Addr
             /\ Covers(covered, pass.keys[id].addr, Reached(id).birth, Reached(id).height)
  <2>1. id \in pass.ids /\ InPass(id).status /\ InPass(id) # None
    BY <1>1, <1>2 DEF Progress, IInv, TypeOK
  <2>2. InPass(id) \in Watcher /\ WellWatched(covered, InPass(id))
    <3>1. InPass(id) = current[id] \/ InPass(id) = detached[id]
      BY DEF InPass
    <3> QED BY <2>1, <3>1 DEF IInv, TypeOK, WatchersAreWell
  <2>3. pass.keys[id].addr = InPass(id).addr
    BY <1>1, <2>1 DEF IInv, PassHoldsItsWatchers
  <2>4. InPass(id).addr \in Addr
    BY <2>1, <2>2 DEF WellWatched, Watcher
  <2>5. Reached(id) \in Position
    BY <2>2, <2>3, <2>4 DEF Reached, Position, Watcher
  <2> QED
    BY <2>2, <2>3, <2>4, <2>5 DEF Reached, WellWatched, Watcher, Covers
<1>3. starts' \in [Id -> Position \cup {None}]
  BY <1>2 DEF EndRefresh, IInv, TypeOK
<1>4. ASSUME NEW a \in Addr
      PROVE  /\ session'[a] \in Position \cup {None}
             /\ session'[a] # None => Covers(covered, a, session'[a].birth, session'[a].height)
  <2>1. session'[a] = IF Progress("hot") /\ pass.keys["hot"].addr = a THEN Reached("hot")
                      ELSE IF Progress("vault") /\ pass.keys["vault"].addr = a THEN Reached("vault")
                      ELSE session[a]
    BY DEF EndRefresh
  <2>2. "hot" \in Id /\ "vault" \in Id
    BY DEF Id
  <2>3. CASE session'[a] = session[a]
    BY <2>3 DEF IInv, TypeOK, PositionsAreWalked
  <2>4. CASE Progress("hot") /\ pass.keys["hot"].addr = a
    BY <1>2, <2>1, <2>2, <2>4
  <2>5. CASE /\ ~ (Progress("hot") /\ pass.keys["hot"].addr = a)
             /\ Progress("vault") /\ pass.keys["vault"].addr = a
    BY <1>2, <2>1, <2>2, <2>5
  <2> QED BY <2>1, <2>3, <2>4, <2>5
<1>5. session' \in [Addr -> Position \cup {None}] /\ PositionsAreWalked'
  <2>1. session' = [a \in Addr |-> session'[a]]
    BY DEF EndRefresh
  <2> QED BY <1>1, <1>4, <2>1 DEF PositionsAreWalked
<1>6. ASSUME NEW id \in Id
      PROVE  /\ current'[id] \in Watcher \cup {None}
             /\ (current'[id] = None) <=> (current[id] = None)
             /\ current'[id] # None => /\ current'[id].addr = current[id].addr
                                      /\ WellWatched(covered, current'[id])
  <2>0. current[id] \in Watcher \cup {None} /\ (current[id] # None => WellWatched(covered, current[id]))
    BY DEF IInv, TypeOK, WatchersAreWell
  <2>1. CASE current'[id] = current[id]
    BY <2>0, <2>1
  <2>2. CASE current'[id] # current[id]
    <3>1. /\ id = "hot" /\ "hot" \in pass.ids /\ detached["hot"] = None
          /\ current' = [current EXCEPT !["hot"].images = @ \cup current["hot"].found]
      BY <2>2 DEF EndRefresh
    <3>2. current[id] # None
      BY <1>1, <3>1 DEF IInv, TypeOK, InPass
    <3>3. current'[id] = [current[id] EXCEPT !.images = @ \cup current[id].found]
      BY <3>1 DEF IInv, TypeOK
    <3>4. current[id] \in Watcher
      BY <2>0, <3>2
    <3> DEFINE was == current[id]
    <3>5. \E w \in Watcher : /\ current'[id] = w
                             /\ w.addr = was.addr /\ w.height = was.height /\ w.settled = was.settled
                             /\ w.status = was.status /\ w.birth = was.birth
                             /\ w.from = was.from /\ w.found = was.found
                             /\ w.spent = was.spent /\ w.images = was.images \cup was.found
      BY <3>3, <3>4 DEF Watcher
    <3> QED BY <2>0, <3>2, <3>5 DEF WellWatched, Whole
  <2> QED BY <2>1, <2>2
<1>7. current' \in [Id -> Watcher \cup {None}] /\ detached' \in [Id -> Watcher \cup {None}]
  <2>1. current' = [id \in Id |-> current'[id]]
    BY DEF EndRefresh, IInv, TypeOK
  <2>2. detached' = [id \in Id |-> None]
    BY DEF EndRefresh
  <2> QED BY <1>6, <2>1, <2>2
<1>8. TypeOK'
  BY <1>1, <1>3, <1>5, <1>7 DEF IInv, TypeOK
<1>9. AccountsAgree' /\ PassHoldsItsWatchers' /\ WalkedSoFar'
  BY <1>1, <1>6 DEF IInv, AccountsAgree, PassHoldsItsWatchers, WalkedSoFar
<1>10. WatchersAreWell'
  BY <1>1, <1>6 DEF WatchersAreWell, WellWatched
<1> QED BY <1>5, <1>8, <1>9, <1>10 DEF IInv

-----------------------------------------------------------------------------
LEMMA Stutter == ASSUME IInv, UNCHANGED vars PROVE IInv'
<1>1. UNCHANGED <<tip, spentAt, owned, keys, current, detached, starts, session, pass, walk, covered>>
  BY DEF vars, chain, watching, positions
<1>2. \A id : InPass(id)' = InPass(id)
  BY <1>1 DEF InPass
<1>3. TypeOK' /\ AccountsAgree' /\ PositionsAreWalked' /\ WatchersAreWell' /\ PassHoldsItsWatchers'
  BY <1>1, <1>2 DEF IInv, TypeOK, AccountsAgree, PositionsAreWalked, WatchersAreWell, WellWatched,
     PassHoldsItsWatchers
<1>4. WalkedSoFar'
  <2> SUFFICES ASSUME walk # None PROVE WalkedSoFar'
    BY <1>1 DEF WalkedSoFar
  <2>1. InPass(walk.id)' = InPass(walk.id)
    BY <1>1 DEF InPass
  <2> QED BY <1>1, <2>1 DEF IInv, WalkedSoFar, Reading, Block, Pays
<1> QED BY <1>3, <1>4 DEF IInv

LEMMA Preserved == WatchingAssumption /\ IInv /\ [Next]_vars => IInv'
<1> SUFFICES ASSUME WatchingAssumption, IInv, [Next]_vars PROVE IInv'
  OBVIOUS
<1>1. CASE \E S \in SUBSET Unspent : Mine(S)
  BY <1>1, Mined
<1>2. CASE \/ \E a \in Wallets["vault"] : \E b \in Births[a] : AcceptMonero(a, b)
           \/ AcceptBitcoin \/ (\E a \in Accounts("hot") : KeepHot(a)) \/ \E id \in Id : Forget(id)
           \/ SetNode \/ ForgetStored
  BY <1>2, AccountsKeep
<1>3. CASE Relaunch
  BY <1>3, Relaunched
<1>4. CASE \E S \in SUBSET Output : ImportKeyImages(S)
  BY <1>4, Imported
<1>5. CASE BeginRefresh
  BY <1>5, PassBegun
<1>6. CASE \E id \in Id : Unanswered(id) \/ StartWalk(id)
  BY <1>6, WalkBegun
<1>7. CASE CloseBlock \/ \E S \in SUBSET Block(IF walk = None THEN 0 ELSE walk.height) : ReadBatch(S)
  <2>1. walk # None
    BY <1>7 DEF CloseBlock, ReadBatch, Walking
  <2> QED BY <1>7, <2>1, BlockRead
<1>8. CASE EndWalk
  BY <1>8, WalkReturned
<1>9. CASE \E answered \in BOOLEAN : Settle(answered)
  BY <1>9, Settled
<1>10. CASE EndRefresh
  BY <1>10, PassEnded
<1>11. CASE UNCHANGED vars
  BY <1>11, Stutter
<1> QED
  BY <1>1, <1>2, <1>3, <1>4, <1>5, <1>6, <1>7, <1>8, <1>9, <1>10, <1>11 DEF Next, Refreshing

(* What every refresh may rely on (watchers.ts, moneroscan.ts, store.tsx). *)
THEOREM Invariance == Spec => []IInv
<1>1. Init => IInv
  BY WatchingAssumption, Start
<1>2. IInv /\ [Next]_vars => IInv'
  BY WatchingAssumption, Preserved
<1> QED BY <1>1, <1>2, PTL DEF Spec

(* The accounts, the watchers and a refresh under way keep their shape,    *)
(* and a refresh never loses a watcher it works on, whatever is done to    *)
(* the accounts and the node meanwhile (watchers.ts: refreshAll).          *)
THEOREM TypeCorrect == Spec => []TypeOK
<1>1. IInv => TypeOK
  BY DEF IInv
<1> QED BY Invariance, <1>1, PTL

(* No walk, however often it is cut short and resumed, skips or repeats an *)
(* output of the blocks it passed (moneroscan.ts: scan).                   *)
THEOREM NoOutputIsSkipped == Spec => []WalkedWhole
<1>1. IInv => WalkedWhole
  BY DEF IInv, AccountsAgree, WatchersAreWell, WellWatched, WalkedWhole
<1> QED BY Invariance, <1>1, PTL

(* No watcher alive, however it came to be carried over or detached, was   *)
(* started above the birth it was built for but where its own wallet was   *)
(* walked since launch (watchers.ts: resumeFrom; store.tsx: scanStarts).   *)
THEOREM NothingIsResumedUnwalked == Spec => []ResumedWhereWalked
<1>1. IInv => ResumedWhereWalked
  <2> SUFFICES ASSUME IInv, NEW w \in Alive, w.addr # None
               PROVE  w.birth .. (w.from.height - 1) \subseteq covered[w.addr]
    BY DEF ResumedWhereWalked
  <2>1. w \in Watcher /\ WellWatched(covered, w)
    BY DEF Alive, IInv, TypeOK, WatchersAreWell
  <2> QED BY <2>1 DEF WellWatched, Covers, Watcher
<1> QED BY Invariance, <1>1, PTL

(* Once a key image counts as settled, the book knows of every spend in    *)
(* the blocks walked (watcher.ts: refreshMonero, keyimages.ts).            *)
THEOREM SettledSpendsKnown == Spec => []SettledSpendsAreKnown
<1>1. IInv => SettledSpendsAreKnown
  BY DEF IInv, WatchersAreWell, WellWatched, SettledSpendsAreKnown, Alive
<1> QED BY Invariance, <1>1, PTL
(* The steps that are not the node's answers leave a refresh alone.        *)
LEMMA OthersStandBack ==
  ASSUME Next, ~ Refreshing, ~ Relaunch, ~ BeginRefresh
  PROVE  pass' = pass /\ walk' = walk
<1>1. ASSUME NEW id, NEW a, Hold(id, a) PROVE pass' = pass /\ walk' = walk
  BY <1>1 DEF Hold
<1>2. CASE \/ \E a \in Wallets["vault"] : \E b \in Births[a] : AcceptMonero(a, b)
           \/ AcceptBitcoin \/ \E a \in Accounts("hot") : KeepHot(a)
  BY <1>1, <1>2 DEF AcceptMonero, AcceptBitcoin, KeepHot
<1>3. CASE \E S \in SUBSET Unspent : Mine(S)
  BY <1>3 DEF Mine
<1>4. CASE (\E id \in Id : Forget(id)) \/ SetNode \/ ForgetStored
  BY <1>4 DEF Forget, SetNode, ForgetStored
<1>5. CASE \E S \in SUBSET Output : ImportKeyImages(S)
  BY <1>5 DEF ImportKeyImages
<1> QED BY <1>2, <1>3, <1>4, <1>5 DEF Next

(* Every answer of the node, and every one that fails, takes a refresh on. *)
LEMMA AnswersAdvance ==
  ASSUME IInv, Refreshing, <<pass', walk'>> # <<pass, walk>>
  PROVE  (pass' = None /\ walk' = None) \/ Serves \/ Walks
<1>1. pass # None /\ pass \in Pass /\ (walk # None => walk \in Walk /\ walk.id \in pass.todo)
  <2>1. pass # None
    BY DEF Refreshing, Unanswered, StartWalk, Turn, CloseBlock, ReadBatch, EndWalk, Walking, Settle,
       EndRefresh, IInv, TypeOK
  <2> QED BY <2>1 DEF IInv, TypeOK
<1>2. ASSUME NEW id \in pass.todo, Served(id), walk' = None PROVE Serves
  <2>1. /\ pass'.ids = pass.ids /\ pass'.keys = pass.keys /\ pass'.todo = pass.todo \ {id}
    BY <1>1, <1>2 DEF Served, Pass
  <2> QED BY <1>2, <2>1 DEF Serves
<1>3. ASSUME NEW id \in Id, Unanswered(id) PROVE Serves
  BY <1>2, <1>3 DEF Unanswered, Turn
<1>4. ASSUME NEW id \in Id, StartWalk(id) PROVE Walks
  <2>1. walk = None /\ pass' = pass /\ walk' # None
    BY <1>4, WalkBegun DEF StartWalk, Turn
  <2> QED BY <2>1 DEF Walks
<1>5. ASSUME Walking, NEW w, walk' = w, w # None, pass' = pass, w.id = walk.id,
             \/ w.asking
             \/ walk.height <= walk.last /\ w.last = walk.last /\ w.height = walk.height + 1
             \/ /\ w.last = walk.last /\ w.height = walk.height
                /\ walk.inBlock \subseteq w.inBlock /\ walk.inBlock # w.inBlock
                /\ w.inBlock \subseteq Block(walk.height)
      PROVE  Walks
  BY <1>5 DEF Walks, Walking
<1>6. CASE CloseBlock
  <2>1. /\ Walking /\ walk # None /\ walk.height <= walk.last /\ pass' = pass
    BY <1>6 DEF CloseBlock, Walking
  <2>2. walk' # None /\ walk'.id = walk.id /\ walk'.last = walk.last /\ walk'.height = walk.height + 1
    <3>1. walk' \in Walk
      BY <1>6, BlockRead
    <3>2. walk'.id = walk.id /\ walk'.last = walk.last /\ walk'.height = walk.height + 1
      BY <1>1, <1>6, <2>1 DEF CloseBlock, Walk
    <3> QED BY <3>1, <3>2, WatchingAssumption
  <2> QED BY <1>5, <2>1, <2>2
<1>7. ASSUME NEW S \in SUBSET Block(IF walk = None THEN 0 ELSE walk.height), ReadBatch(S)
      PROVE  Walks
  <2>1. /\ Walking /\ walk # None /\ walk.height <= walk.last /\ pass' = pass
        /\ S # {} /\ S \subseteq Block(walk.height) \ walk.inBlock
        /\ walk' = [walk EXCEPT !.inBlock = @ \cup S]
    BY <1>7 DEF ReadBatch, Walking
  <2>2. walk' # None
    <3>1. walk' \in Walk
      BY <1>7, <2>1, BlockRead
    <3> QED BY <3>1, WatchingAssumption
  <2>3. /\ walk'.id = walk.id /\ walk'.last = walk.last /\ walk'.height = walk.height
        /\ walk'.inBlock = walk.inBlock \cup S
    BY <1>1, <2>1 DEF Walk
  <2>4. walk.inBlock \subseteq Block(walk.height)
    BY <2>1 DEF IInv, WalkedSoFar, Reading, Walking
  <2> QED BY <1>5, <2>1, <2>2, <2>3, <2>4
<1>8. CASE EndWalk
  <2>1. walk # None /\ Walking /\ walk.id \in pass.todo
    BY <1>1, <1>8 DEF EndWalk, Walking
  <2>2. CASE Served(walk.id) /\ walk' = None
    BY <1>2, <2>1, <2>2
  <2>3. ASSUME NEW S \in SUBSET Output, pass' = pass,
               walk' = [walk EXCEPT !.asking = TRUE, !.ask = S, !.inBlock = {}]
        PROVE  Walks
    <3>1. walk' \in Walk /\ walk'.id = walk.id /\ walk'.asking
      BY <1>1, <2>1, <2>3 DEF Walk
    <3> QED BY <1>5, <2>1, <2>3, <3>1, WatchingAssumption
  <2>4. InPass(walk.id) \in Watcher
    <3>1. walk.id \in Id /\ InPass(walk.id) # None
      BY <1>1, <2>1 DEF IInv, TypeOK, Walk
    <3> QED BY <3>1 DEF IInv, TypeOK, InPass
  <2>5. \/ Served(walk.id) /\ walk' = None
        \/ \E S \in SUBSET Output :
             pass' = pass /\ walk' = [walk EXCEPT !.asking = TRUE, !.ask = S, !.inBlock = {}]
    <3> DEFINE w == [InPass(walk.id) EXCEPT !.found = @ \cup walk.received,
                                            !.spent = @ \cup walk.spent, !.height = walk.height]
    <3>1. w.images \ w.settled \in SUBSET Output
      BY <2>4 DEF Watcher
    <3> HIDE DEF w
    <3>2. \/ Served(walk.id) /\ walk' = None
          \/ /\ pass' = pass
             /\ walk' = [walk EXCEPT !.asking = TRUE, !.ask = w.images \ w.settled, !.inBlock = {}]
      BY <1>8 DEF EndWalk, w
    <3> QED BY <3>1, <3>2
  <2> QED BY <2>2, <2>3, <2>5 DEF Serves
<1>9. ASSUME NEW answered \in BOOLEAN, Settle(answered) PROVE Serves
  BY <1>1, <1>2, <1>9 DEF Settle
<1>10. CASE EndRefresh
  BY <1>10 DEF EndRefresh
<1> QED BY <1>3, <1>4, <1>6, <1>7, <1>8, <1>9, <1>10 DEF Refreshing

(* A refresh under way never goes back, whatever is done to the accounts   *)
(* and the node meanwhile (watchers.ts: refreshAll; moneroscan.ts: scan)...*)
THEOREM RefreshOnlyAdvances == Spec => RefreshAdvances
<1>1. IInv /\ [Next]_vars =>
        [pass # None /\ <<pass', walk'>> # <<pass, walk>> =>
           (pass' = None /\ walk' = None) \/ Serves \/ Walks]_vars
  <2> SUFFICES ASSUME IInv, Next, pass # None, <<pass', walk'>> # <<pass, walk>>
               PROVE  (pass' = None /\ walk' = None) \/ Serves \/ Walks
    OBVIOUS
  <2>1. CASE Refreshing
    BY <2>1, AnswersAdvance
  <2>2. CASE Relaunch
    BY <2>2 DEF Relaunch
  <2>3. ~ BeginRefresh
    BY DEF BeginRefresh
  <2> QED BY <2>1, <2>2, <2>3, OthersStandBack
<1> QED BY Invariance, <1>1, PTL DEF Spec, RefreshAdvances

(* ...passes no more blocks of an account than the budget...               *)
THEOREM WalksAreBudgeted == Spec => []BudgetIsKept
<1>1. IInv => BudgetIsKept
  BY DEF IInv, WalkedSoFar, Reading, BudgetIsKept
<1> QED BY Invariance, <1>1, PTL

(* ...and reads of each block what every other walk reads of it.           *)
THEOREM WalkedBlocksStand == Spec => BlocksStand
<1>1. ASSUME IInv, Next, walk # None, ~ walk.asking, NEW h \in 1 .. walk.last
      PROVE  Block(h)' = Block(h)
  <2>1. walk.last <= tip /\ tip \in Nat /\ walk.last \in Nat /\ spentAt \in [Output -> Nat]
    BY <1>1 DEF IInv, WalkedSoFar, Reading, TypeOK, Walk
  <2>2. h # 0 /\ h # tip + 1
    BY <2>1
  <2>3. CASE \E S \in SUBSET Unspent : Mine(S)
    BY <2>1, <2>2, <2>3 DEF Mine, Block, Unspent
  <2>4. CASE spentAt' = spentAt
    BY <2>4 DEF Block
  <2>5. (\E S \in SUBSET Unspent : Mine(S)) \/ spentAt' = spentAt
    <3>1. ASSUME NEW id, NEW a, Hold(id, a) PROVE spentAt' = spentAt
      BY <3>1 DEF Hold, chain
    <3>2. CASE \/ \E a \in Wallets["vault"] : \E b \in Births[a] : AcceptMonero(a, b)
               \/ AcceptBitcoin \/ \E a \in Accounts("hot") : KeepHot(a)
      BY <3>1, <3>2 DEF AcceptMonero, AcceptBitcoin, KeepHot
    <3>3. CASE (\E id \in Id : Forget(id)) \/ SetNode \/ ForgetStored \/ Relaunch
      BY <3>3 DEF Forget, SetNode, ForgetStored, Relaunch, chain
    <3>4. CASE (\E S \in SUBSET Output : ImportKeyImages(S)) \/ BeginRefresh
      BY <3>4 DEF ImportKeyImages, BeginRefresh, chain
    <3>5. CASE Refreshing
      BY <3>5 DEF Refreshing, Unanswered, StartWalk, CloseBlock, ReadBatch, EndWalk, Settle,
         EndRefresh, chain
    <3> QED BY <1>1, <3>2, <3>3, <3>4, <3>5 DEF Next
  <2> QED BY <2>3, <2>4, <2>5
<1>2. IInv /\ [Next]_vars =>
        [walk # None /\ ~ walk.asking => \A h \in 1 .. walk.last : Block(h)' = Block(h)]_vars
  BY <1>1
<1> QED BY Invariance, <1>2, PTL DEF Spec, BlocksStand
=============================================================================
