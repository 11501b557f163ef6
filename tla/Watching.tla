------------------------------ MODULE Watching ------------------------------
(***************************************************************************)
(* What the wallet knows of its Monero accounts: which account holds which *)
(* keys (store.tsx), one watcher per account, kept or built anew when the  *)
(* accounts or the node change (watchers.ts), the bounded walk of the      *)
(* chain that each refresh continues (moneroscan.ts), the outputs and key  *)
(* images in memory (watcher.ts, keyimages.ts), and where each walk got    *)
(* to, in memory and in the file (persist.ts).                             *)
(*                                                                         *)
(* A refresh is one step per answer of the node, so that accounts are      *)
(* made, paired, forgotten, the node changed and key images scanned while  *)
(* one is under way.  An output and its key image are one model value; of  *)
(* a block only the transactions that pay or spend one are listed.         *)
(***************************************************************************)
EXTENDS Naturals

CONSTANTS Addr,      \* Monero addresses, one for each wallet
          Wallets,   \* the addresses that may stand under each account id
          Births,    \* the birth heights that may be stated for each wallet
          Output,    \* outputs that pay one of the wallets
          Owner, Paid,   \* the wallet an output pays, and its block
          Budget,    \* blocks walked in one refresh
          MaxTip,    \* bound: the last block mined
          MaxMoves,  \* bound: what the person does, launches included
          None

Id == {"vault", "hot"}

Account == [addr : Addr \cup {None}, btc : BOOLEAN, birth : Nat]
Position == [of : Addr \cup {None}, birth : Nat, height : Nat]
Watcher == [addr : Addr \cup {None}, btc : BOOLEAN, birth : Nat, from : [birth : Nat, height : Nat],
            height : Nat, found : SUBSET Output, images : SUBSET Output,
            settled : SUBSET Output, spent : SUBSET Output, status : BOOLEAN]
Key == [addr : Addr \cup {None}, btc : BOOLEAN, birth : Nat, from : [birth : Nat, height : Nat]]
Tx == [kind : {"pay", "spend"}, out : Output]
Pass == [ids : SUBSET Id, todo : SUBSET Id, keys : [Id -> Key \cup {None}]]
Walk == [id : Id, height : Nat, last : Nat, watch : SUBSET Output, inBlock : SUBSET Tx,
         received : SUBSET Output, spent : SUBSET Output, asking : BOOLEAN, ask : SUBSET Output]

ASSUME WatchingAssumption ==
  /\ Wallets \in [Id -> SUBSET Addr] /\ Wallets["vault"] \cap Wallets["hot"] = {}
  /\ Births \in [Addr -> SUBSET (Nat \ {0})]
  /\ Owner \in [Output -> Addr] /\ Paid \in [Output -> Nat \ {0}]
  /\ Budget \in Nat \ {0} /\ MaxTip \in Nat /\ MaxMoves \in Nat
  /\ None \notin Addr \cup Account \cup Key \cup Watcher \cup Position \cup Pass \cup Walk

VARIABLES tip, spentAt,      \* the chain: top block, and where an output is spent
          owned,             \* pairing and hot: the keys under each id
          keys,              \* accountKeys: the memo the watchers are built from
          current, detached, \* watchers: the set on the screen, and those only
                             \* a refresh still under way works on
          starts,            \* scanStarts, which the file holds as well
          session,           \* sessionScans
          pass, walk,        \* refreshAll and scan, while they run
          covered,           \* history: blocks walked since launch, by wallet
          moves              \* bound

chain == <<tip, spentAt>>
watching == <<owned, keys, current, detached>>
positions == <<starts, session>>
vars == <<chain, watching, positions, pass, walk, covered, moves>>

Move == moves < MaxMoves /\ moves' = moves + 1

-----------------------------------------------------------------------------
BitcoinOnly == [addr |-> None, btc |-> TRUE, birth |-> 0]
Accounts(id) == {BitcoinOnly} \cup
  UNION {[addr : {a}, btc : BOOLEAN, birth : Births[a]] : a \in Wallets[id]}

Pays(a, lo, hi) == {o \in Output : Owner[o] = a /\ lo <= Paid[o] /\ Paid[o] < hi}
Block(h) == [kind : {"pay"}, out : {o \in Output : Paid[o] = h}] \cup
            [kind : {"spend"}, out : {o \in Output : spentAt[o] = h}]

At(birth, height) == [birth |-> birth, height |-> height]

(* Mutant: a stored position is resumed whoever wrote it.                  *)
ResumeStored(birth, stored, live) ==
  IF stored # None /\ stored.birth <= birth
  THEN At(stored.birth, stored.height) ELSE At(birth, birth)

(* resumeFrom: a position and the refresh that wrote it are compared by    *)
(* identity in the code; `of` tells one written since launch for a wallet  *)
(* from one that was read from the file.                                   *)
ResumeFrom(birth, stored, live) ==
  IF live # None /\ stored # None /\ stored = live /\ stored.birth <= birth
  THEN At(stored.birth, stored.height)
  ELSE At(birth, birth)

(* `birth` is history: the birth a key, or a watcher, was built for.       *)
Keyed(own, st, se) ==
  [id \in Id |->
     IF own[id] = None THEN None
     ELSE [addr |-> own[id].addr, btc |-> own[id].btc, birth |-> own[id].birth,
           from |-> IF own[id].addr = None THEN At(0, 0)
                    ELSE ResumeFrom(own[id].birth, st[id], se[own[id].addr])]]

NodeWatcher(k) ==
  [addr |-> k.addr, btc |-> k.btc, birth |-> k.birth, from |-> k.from,
   height |-> k.from.height, found |-> {}, images |-> {}, settled |-> {}, spent |-> {}, status |-> FALSE]

Init == /\ tip = 0 /\ spentAt = [o \in Output |-> 0]
        /\ owned = [id \in Id |-> None] /\ keys = [id \in Id |-> None]
        /\ current = [id \in Id |-> None] /\ detached = [id \in Id |-> None]
        /\ starts = [id \in Id |-> None] /\ session = [a \in Addr |-> None]
        /\ pass = None /\ walk = None
        /\ covered = [a \in Addr |-> {}] /\ moves = 0

-----------------------------------------------------------------------------
(* The next block; S is what it spends. *)
Mine(S) == /\ tip < MaxTip
           /\ tip' = tip + 1
           /\ spentAt' = [o \in Output |-> IF o \in S THEN tip + 1 ELSE spentAt[o]]
           /\ UNCHANGED <<watching, positions, pass, walk, covered, moves>>
Unspent == {o \in Output : Paid[o] <= tip /\ spentAt[o] = 0}

-----------------------------------------------------------------------------
(* builtFrom: the watcher an id had is kept for exactly the same keys. *)
Carries(id, k) == /\ current[id] # None
                  /\ current[id].addr = k.addr /\ current[id].btc = k.btc

(* Mutant: a refresh looks its watchers up in the set on the screen.       *)
WatchersLookedUp(ks, carry) ==
  /\ keys' = ks
  /\ current' = [id \in Id |-> CASE ks[id] = None -> None
                                 [] ks[id] # None /\ carry /\ Carries(id, ks[id]) -> current[id]
                                 [] OTHER -> NodeWatcher(ks[id])]
  /\ UNCHANGED detached

(* The watchers memo: `carry` when neither node nor generation changed. *)
Watchers(ks, carry) ==
  /\ keys' = ks
  /\ current' = [id \in Id |-> CASE ks[id] = None -> None
                                 [] ks[id] # None /\ carry /\ Carries(id, ks[id]) -> current[id]
                                 [] OTHER -> NodeWatcher(ks[id])]
  /\ detached' = [id \in Id |->
       IF /\ pass # None /\ id \in pass.ids /\ detached[id] = None
          /\ ~ (ks[id] # None /\ carry /\ Carries(id, ks[id]))
       THEN current[id] ELSE detached[id]]

(* acceptPairing and keepHot: the keys under an id change and nothing else. *)
Hold(id, a) ==
  /\ owned' = [owned EXCEPT ![id] = a]
  /\ Watchers(Keyed(owned', starts, session), TRUE)
  /\ Move /\ UNCHANGED <<chain, positions, pass, walk, covered>>

(* acceptPairing of a Monero export: another wallet's is refused. *)
AcceptMonero(a, birth) ==
  LET was == owned["vault"]
  IN  /\ was # None => was.addr \in {None, a}
      /\ Hold("vault", [addr |-> a, btc |-> was # None /\ was.btc, birth |-> birth])

AcceptBitcoin ==
  LET was == owned["vault"]
  IN  \/ was = None /\ Hold("vault", BitcoinOnly)
      \/ was # None /\ Hold("vault", [was EXCEPT !.btc = TRUE])

KeepHot(a) == Hold("hot", a)

(* unpairVault and forgetHotKeys, with forgetScanFor. *)
Forget(id) ==
  /\ owned[id] # None
  /\ owned' = [owned EXCEPT ![id] = None]
  /\ starts' = [starts EXCEPT ![id] = None]
  /\ session' = [a \in Addr |-> IF a = owned[id].addr THEN None ELSE session[a]]
  /\ Watchers(Keyed(owned', starts', session'), TRUE)
  /\ Move /\ UNCHANGED <<chain, pass, walk, covered>>

(* setNode: every watcher anew, from the memo as it stands. *)
SetNode == /\ \E id \in Id : current[id] # None
           /\ Watchers(keys, FALSE)
           /\ Move /\ UNCHANGED <<chain, owned, positions, pass, walk, covered>>

ForgetStored ==
  /\ starts' = [id \in Id |-> None] /\ session' = [a \in Addr |-> None]
  /\ Watchers(Keyed(owned, starts', session'), FALSE)
  /\ Move /\ UNCHANGED <<chain, owned, pass, walk, covered>>

(* The app is closed and opened again: the file and the keychain are read. *)
Relaunch ==
  /\ starts' = [id \in Id |-> IF starts[id] = None THEN None
                ELSE [starts[id] EXCEPT !.of = None]]
  /\ session' = [a \in Addr |-> None]
  /\ keys' = Keyed(owned, starts', session')
  /\ current' = [id \in Id |-> IF keys'[id] = None THEN None ELSE NodeWatcher(keys'[id])]
  /\ detached' = [id \in Id |-> None]
  /\ pass' = None /\ walk' = None
  /\ covered' = [a \in Addr |-> {}]
  /\ Move /\ UNCHANGED <<chain, owned>>

(* acceptWirePayload of a vault's key images: those of outputs not found   *)
(* are dropped.                                                            *)
ImportKeyImages(S) ==
  /\ current["vault"] # None
  /\ S \subseteq current["vault"].found
  /\ current' = [current EXCEPT !["vault"].images = @ \cup S]
  /\ Move /\ UNCHANGED <<chain, owned, keys, detached, positions, pass, walk, covered>>

-----------------------------------------------------------------------------
(* A refresh works on the watchers it started with, whether or not they    *)
(* are still the ones on the screen.                                       *)
InPass(id) == IF detached[id] # None THEN detached[id] ELSE current[id]
Put(id, w) ==
  IF detached[id] # None
  THEN detached' = [detached EXCEPT ![id] = w] /\ UNCHANGED current
  ELSE current' = [current EXCEPT ![id] = w] /\ UNCHANGED detached

(* refresh: one pass at a time. *)
BeginRefresh ==
  LET ids == {id \in Id : current[id] # None}
  IN  /\ pass = None /\ ids # {}
      /\ pass' = [ids |-> ids, todo |-> ids, keys |-> keys]
      /\ UNCHANGED <<chain, watching, positions, walk, covered, moves>>

Turn(id) == /\ pass # None /\ walk = None /\ id \in pass.todo
            /\ id = "hot" => "vault" \notin pass.todo
Served(id) == pass' = [pass EXCEPT !.todo = @ \ {id}]

(* refreshMonero: no node, one that fails or is behind, or no Monero keys. *)
Unanswered(id) == /\ Turn(id) /\ Served(id)
                  /\ UNCHANGED <<chain, watching, positions, walk, covered, moves>>

StartWalk(id) ==
  /\ Turn(id) /\ InPass(id).addr # None
  /\ LET w == InPass(id)
     IN  walk' = [id |-> id, height |-> w.height,
                  last |-> IF tip < w.height + Budget THEN tip ELSE w.height + Budget - 1,
                  watch |-> w.images, inBlock |-> {}, received |-> {}, spent |-> {}, asking |-> FALSE, ask |-> {}]
  /\ UNCHANGED <<chain, watching, positions, pass, covered, moves>>

Walking == walk # None /\ ~ walk.asking

(* One request for some of the block's transactions, answered in full. *)
ReadBatch(S) ==
  /\ Walking /\ walk.height <= walk.last
  /\ S # {} /\ S \subseteq Block(walk.height) \ walk.inBlock
  /\ walk' = [walk EXCEPT !.inBlock = @ \cup S]
  /\ UNCHANGED <<chain, watching, positions, pass, covered, moves>>

(* Mutant: a block of which some transactions were answered is passed.     *)
CloseBlockShort ==
  /\ Walking /\ walk.height <= walk.last
  /\ LET a == InPass(walk.id).addr
     IN  walk' = [walk EXCEPT !.inBlock = {}, !.height = @ + 1,
            !.received = @ \cup {o \in Output : /\ Owner[o] = a
                                                /\ [kind |-> "pay", out |-> o] \in walk.inBlock},
            !.spent = @ \cup {o \in walk.watch : [kind |-> "spend", out |-> o] \in walk.inBlock}]
  /\ UNCHANGED <<chain, watching, positions, pass, covered, moves>>

CloseBlock ==
  /\ Walking /\ walk.height <= walk.last /\ walk.inBlock = Block(walk.height)
  /\ LET a == InPass(walk.id).addr
     IN  walk' = [walk EXCEPT !.inBlock = {}, !.height = @ + 1,
            !.received = @ \cup {o \in Output : /\ Owner[o] = a
                                                /\ [kind |-> "pay", out |-> o] \in walk.inBlock},
            !.spent = @ \cup {o \in walk.watch : [kind |-> "spend", out |-> o] \in walk.inBlock}]
  /\ UNCHANGED <<chain, watching, positions, pass, covered, moves>>

(* scan returns, at the end of its run or at an answer that failed or came *)
(* short: what was read of an unfinished block is dropped.                 *)
EndWalk ==
  /\ Walking
  /\ LET id == walk.id
         was == InPass(id)
         w == [was EXCEPT !.found = @ \cup walk.received, !.spent = @ \cup walk.spent,
                          !.height = walk.height]
         unsettled == w.images \ w.settled
     IN  /\ covered' = [covered EXCEPT ![w.addr] = @ \cup was.height .. (walk.height - 1)]
         /\ \/ /\ unsettled = {}
               /\ Put(id, [w EXCEPT !.status = TRUE])
               /\ Served(id) /\ walk' = None
            \/ /\ unsettled # {}
               /\ Put(id, w)
               /\ walk' = [walk EXCEPT !.asking = TRUE, !.ask = unsettled, !.inBlock = {}]
               /\ UNCHANGED pass
  /\ UNCHANGED <<chain, owned, keys, positions, moves>>

(* Mutant: what is settled is read again after the answer.                 *)
SettleAllImages(answered) ==
  /\ walk # None /\ walk.asking
  /\ LET was == InPass(walk.id)
     IN  Put(walk.id, IF answered
                      THEN [was EXCEPT !.spent = @ \cup {o \in walk.ask : spentAt[o] # 0},
                                       !.settled = was.images, !.status = TRUE]
                      ELSE [was EXCEPT !.status = TRUE])
  /\ Served(walk.id) /\ walk' = None
  /\ UNCHANGED <<chain, owned, keys, positions, covered, moves>>

(* The backward look at images never asked about. *)
Settle(answered) ==
  /\ walk # None /\ walk.asking
  /\ LET was == InPass(walk.id)
     IN  Put(walk.id, IF answered
                      THEN [was EXCEPT !.spent = @ \cup {o \in walk.ask : spentAt[o] # 0},
                                       !.settled = @ \cup walk.ask, !.status = TRUE]
                      ELSE [was EXCEPT !.status = TRUE])
  /\ Served(walk.id) /\ walk' = None
  /\ UNCHANGED <<chain, owned, keys, positions, covered, moves>>

Progress(id) == id \in pass.ids /\ InPass(id).status
Reached(id) == [of |-> pass.keys[id].addr, birth |-> InPass(id).from.birth,
                height |-> InPass(id).height]

(* Mutant: inFlight is left set when the watchers were replaced meanwhile. *)
EndRefreshOfCurrent ==
  /\ pass # None /\ walk = None /\ pass.todo = {}
  /\ pass' = IF \A id \in Id : detached[id] = None THEN None ELSE pass
  /\ UNCHANGED <<chain, watching, positions, walk, covered, moves>>

(* The end of refresh: positions are written down, for the accounts it     *)
(* started with, and a hot account computes its own key images.            *)
EndRefresh ==
  /\ pass # None /\ walk = None /\ pass.todo = {}
  /\ starts' = [id \in Id |-> IF Progress(id) THEN Reached(id) ELSE starts[id]]
  /\ session' = [a \in Addr |->
       IF Progress("hot") /\ pass.keys["hot"].addr = a THEN Reached("hot")
       ELSE IF Progress("vault") /\ pass.keys["vault"].addr = a THEN Reached("vault")
       ELSE session[a]]
  /\ current' = IF "hot" \in pass.ids /\ detached["hot"] = None
                THEN [current EXCEPT !["hot"].images = @ \cup current["hot"].found]
                ELSE current
  /\ detached' = [id \in Id |-> None]
  /\ pass' = None
  /\ UNCHANGED <<chain, owned, keys, walk, covered, moves>>

Refreshing == \/ \E id \in Id : Unanswered(id) \/ StartWalk(id)
              \/ CloseBlock \/ EndWalk \/ EndRefresh
              \/ \E S \in SUBSET Block(IF walk = None THEN 0 ELSE walk.height) : ReadBatch(S)
              \/ \E answered \in BOOLEAN : Settle(answered)

Next == \/ \E S \in SUBSET Unspent : Mine(S)
        \/ \E a \in Wallets["vault"] : \E b \in Births[a] : AcceptMonero(a, b)
        \/ AcceptBitcoin
        \/ \E a \in Accounts("hot") : KeepHot(a)
        \/ \E id \in Id : Forget(id)
        \/ SetNode \/ ForgetStored \/ Relaunch
        \/ \E S \in SUBSET Output : ImportKeyImages(S)
        \/ BeginRefresh \/ Refreshing

Spec == Init /\ [][Next]_vars

(* Every request of a refresh is answered or ends at its deadline. *)
FairSpec == Spec /\ WF_vars(Refreshing)

-----------------------------------------------------------------------------
TypeOK ==
  /\ tip \in Nat /\ spentAt \in [Output -> Nat]
  /\ owned \in [Id -> Account \cup {None}] /\ keys \in [Id -> Key \cup {None}]
  /\ current \in [Id -> Watcher \cup {None}] /\ detached \in [Id -> Watcher \cup {None}]
  /\ starts \in [Id -> Position \cup {None}] /\ session \in [Addr -> Position \cup {None}]
  /\ pass \in Pass \cup {None} /\ walk \in Walk \cup {None}
  /\ covered \in [Addr -> SUBSET Nat]
  /\ pass # None => pass.todo \subseteq pass.ids /\ \A id \in pass.ids : InPass(id) # None
  /\ walk # None => pass # None /\ walk.id \in pass.todo

(* A refresh cut short by a failed or a short answer, continued by the     *)
(* next, with accounts and nodes changed under it: every watcher holds     *)
(* exactly its wallet's outputs of the blocks from where it was started to *)
(* where it has got.                                                       *)
Whole(w, a) == w.found = Pays(a, w.from.height, w.height)
WalkedWhole ==
  \A id \in Id :
    /\ current[id] # None => Whole(current[id], owned[id].addr)
    /\ detached[id] # None => Whole(detached[id], detached[id].addr)

Alive == ({current[id] : id \in Id} \cup {detached[id] : id \in Id}) \ {None}

(* resumeFrom: a watcher, on the screen or worked on by a refresh only,    *)
(* started above the birth it was built for only where every block left    *)
(* out was walked, since launch, with this very wallet's keys: never where *)
(* another wallet under the same id, or an earlier launch, got to.  (One   *)
(* that is carried over keeps that birth, whatever birth is stated later.) *)
ResumedWhereWalked ==
  \A w \in Alive : w.addr # None =>
    w.birth .. (w.from.height - 1) \subseteq covered[w.addr]

(* Key images arrive while a walk passes the blocks they were spent in,    *)
(* and while the node is asked about others: once an image counts as       *)
(* settled, a spend in a block the walk has passed is known to the book.   *)
SettledSpendsAreKnown ==
  \A w \in Alive : \A o \in w.found \cap w.settled :
    (spentAt[o] # 0 /\ spentAt[o] < w.height) => o \in w.spent

(* Two accounts, a node that fails or answers short, accounts and nodes    *)
(* changed meanwhile: a refresh that began ends, and lets the next begin.  *)
RefreshEnds == pass # None ~> pass = None

(* refreshAll, scan: accounts and nodes are changed and blocks mined under *)
(* a refresh, and still no step takes it back.  It ends; or an account is  *)
(* done with; or that account's walk begins, has more of a block that does *)
(* not change, passes it, or goes on to ask about images.                  *)
Serves == /\ walk' = None /\ pass'.ids = pass.ids /\ pass'.keys = pass.keys
          /\ pass'.todo \subseteq pass.todo /\ pass'.todo # pass.todo
Walks  == /\ pass' = pass /\ walk' # None
          /\ \/ walk = None
             \/ /\ walk # None /\ walk'.id = walk.id /\ ~ walk.asking
                /\ \/ walk'.asking
                   \/ /\ walk.height <= walk.last /\ walk'.last = walk.last
                      /\ walk'.height = walk.height + 1
                   \/ /\ walk'.last = walk.last /\ walk'.height = walk.height
                      /\ walk.inBlock \subseteq walk'.inBlock /\ walk.inBlock # walk'.inBlock
                      /\ walk'.inBlock \subseteq Block(walk.height)
RefreshAdvances ==
  [][pass # None /\ <<pass', walk'>> # <<pass, walk>> =>
       (pass' = None /\ walk' = None) \/ Serves \/ Walks]_vars

(* moneroscan.ts: one refresh of an account passes no more blocks than the *)
(* budget, and those do not change under it.                               *)
BudgetIsKept ==
  walk # None /\ ~ walk.asking => walk.last < InPass(walk.id).height + Budget
BlocksStand ==
  [][walk # None /\ ~ walk.asking => \A h \in 1 .. walk.last : Block(h)' = Block(h)]_vars

(* watchers.ts: "a position may only be resumed when the outputs that go   *)
(* with it are still here".                                                *)
ResumedWithItsFindings ==
  \A id \in Id : (current[id] # None /\ current[id].addr # None) =>
    Pays(current[id].addr, current[id].from.birth, current[id].height) \subseteq current[id].found
=============================================================================
