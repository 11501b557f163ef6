-------------------------- MODULE SpendingKeysProofs --------------------------
(***************************************************************************)
(* What TLAPS checks about SpendingKeys for any seeds and phrases, however *)
(* the keychain misses, refuses or is cut short.                           *)
(***************************************************************************)
EXTENDS SpendingKeys, TLAPS

USE SpendingKeysAssumption

(* The empty values have their types, and none of them is a record. *)
LEMMA Empties ==
  /\ Blank \in Record /\ NoSheet \in Sheet /\ NoCall \in Call
  /\ Secrets(Blank) = {} /\ Blank.xmr = None /\ Blank.btc = None
  /\ NoCall.record = Blank /\ NoCall.act = "none" /\ ~NoCall.done /\ NoSheet.step = "none"
BY DEF Blank, NoSheet, NoCall, Record, Sheet, Call, Secrets, Chain

(* withRestored puts the phrase in its own chain and leaves the other.     *)
LEMMA RestoredMonero ==
  ASSUME NEW r \in Record, NEW s \in Monero
  PROVE  /\ withRestored(r, "xmr", s) \in Record
         /\ withRestored(r, "xmr", s).xmr = s
         /\ withRestored(r, "xmr", s).btc = r.btc
         /\ withRestored(r, "xmr", s).created = "start"
BY DEF withRestored, Record

LEMMA RestoredBitcoin ==
  ASSUME NEW r \in Record, NEW s \in Bitcoin
  PROVE  /\ withRestored(r, "btc", s) \in Record
         /\ withRestored(r, "btc", s).btc = s
         /\ withRestored(r, "btc", s).xmr = r.xmr
         /\ r.xmr # None => withRestored(r, "btc", s).created = r.created
<1>1. r.xmr # None => Holds(r)
  BY DEF Holds, Blank
<1> QED BY <1>1 DEF withRestored, Record

(* Launching and relaunching keep the invariant. *)
LEMMA LaunchKeeps ==
  ASSUME IInv, ReadLands \/ ReadFails \/ Relaunch PROVE IInv'
<1> USE Empties DEF IInv
<1>1. CASE ReadLands
  <2>1. TypeOK' /\ NothingHeldUnwritten' /\ ScansFromBirth' /\ Carried'
    BY <1>1 DEF ReadLands, TypeOK, NothingHeldUnwritten, ScansFromBirth, Carried
  <2>2. Agrees'
    BY <1>1 DEF ReadLands, Agrees
  <2> QED BY <2>1, <2>2
<1>2. CASE ReadFails
  <2>1. TypeOK' /\ NothingHeldUnwritten' /\ ScansFromBirth' /\ Carried'
    BY <1>2 DEF ReadFails, TypeOK, NothingHeldUnwritten, ScansFromBirth, Carried
  <2>2. Agrees'
    BY <1>2 DEF ReadFails, Agrees, Holds
  <2> QED BY <2>1, <2>2
<1>3. CASE Relaunch
  <2>1. TypeOK' /\ NothingHeldUnwritten' /\ ScansFromBirth' /\ Carried'
    BY <1>3 DEF Relaunch, TypeOK, NothingHeldUnwritten, ScansFromBirth, Carried
  <2>2. Agrees'
    BY <1>3 DEF Relaunch, Agrees, Holds
  <2> QED BY <2>1, <2>2
<1> QED BY <1>1, <1>2, <1>3

(* Making a wallet keeps it: what is drawn is drawn on this phone, and     *)
(* only what was shown is asked to be kept.                                *)
LEMMA CreationKeeps ==
  ASSUME IInv,
         \/ \E x \in Monero, b \in Bitcoin : BeginCreation(x, b)
         \/ Reveal \/ Keep \/ CloseSheet
  PROVE  IInv'
<1> USE Empties DEF IInv
<1>1. ASSUME NEW x \in Monero, NEW b \in Bitcoin, BeginCreation(x, b) PROVE IInv'
  <2>1. sheet' \in Sheet /\ sheet'.step = "drawn" /\ sheet'.record.xmr = x
    BY <1>1 DEF BeginCreation, Sheet, Record
  <2>2. TypeOK' /\ NothingHeldUnwritten' /\ ScansFromBirth'
    BY <1>1, <2>1 DEF BeginCreation, TypeOK, NothingHeldUnwritten, ScansFromBirth
  <2>3. Carried'
    BY <1>1, <2>1 DEF BeginCreation, Carried
  <2>4. Agrees'
    BY <1>1 DEF BeginCreation, Agrees, Answered, Holds
  <2> QED BY <2>2, <2>3, <2>4
<1>2. CASE Reveal
  <2>1. sheet' \in Sheet /\ sheet'.record = sheet.record /\ sheet # NoSheet
    BY <1>2 DEF Reveal, TypeOK, Sheet
  <2>2. Secrets(sheet.record) \subseteq Monero \cup Bitcoin
    BY DEF TypeOK, Sheet, Secrets, Record
  <2>3. TypeOK' /\ NothingHeldUnwritten' /\ ScansFromBirth'
    BY <1>2, <2>1, <2>2 DEF Reveal, TypeOK, NothingHeldUnwritten, ScansFromBirth
  <2>4. Carried'
    BY <1>2, <2>1 DEF Reveal, Carried
  <2>5. Agrees'
    BY <1>2, <2>1 DEF Reveal, Agrees
  <2> QED BY <2>3, <2>4, <2>5
<1>3. CASE Keep
  <2>1. /\ call' \in Call /\ call'.record = sheet.record /\ call'.act = "keep"
        /\ call'.over = "none" /\ ~call'.done /\ sheet # NoSheet
    BY <1>3 DEF Keep, mayKeep, TypeOK, Sheet, Call
  <2>2. TypeOK' /\ NothingHeldUnwritten' /\ ScansFromBirth'
    BY <1>3, <2>1 DEF Keep, TypeOK, NothingHeldUnwritten, ScansFromBirth
  <2>3. Carried'
    BY <1>3, <2>1 DEF Keep, mayKeep, Carried
  <2>4. Agrees'
    BY <1>3, <2>1 DEF Keep, Agrees, Answered
  <2> QED BY <2>2, <2>3, <2>4
<1>4. CASE CloseSheet
  <2>1. TypeOK' /\ NothingHeldUnwritten' /\ ScansFromBirth' /\ Carried'
    BY <1>4 DEF CloseSheet, TypeOK, NothingHeldUnwritten, ScansFromBirth, Carried
  <2>2. Agrees'
    BY <1>4 DEF CloseSheet, Agrees
  <2> QED BY <2>1, <2>2
<1> QED BY <1>1, <1>2, <1>3, <1>4

(* So does folding a phrase of either chain into the record. *)
LEMMA RestoreKeeps ==
  ASSUME IInv, NEW chain \in Chain, NEW s \in Monero \cup Bitcoin,
         chain = "xmr" <=> s \in Monero, Restore(chain, s)
  PROVE  IInv'
<1> USE Empties DEF IInv
<1> DEFINE r == withRestored(hot, chain, s)
<1>1. /\ call' = [act |-> "keep", over |-> chain, done |-> FALSE, record |-> r]
      /\ paper' = paper \cup {s} /\ sheet = NoSheet /\ hot \in Record
      /\ UNCHANGED <<stored, hot, read, sheet, drawn>>
  BY DEF Restore, TypeOK
<1>2. /\ r \in Record /\ Secrets(r) \subseteq Secrets(hot) \cup {s}
      /\ chain = "xmr" => r.created = "start" /\ r.btc = hot.btc
      /\ chain = "btc" => r.xmr = hot.xmr /\ (r.xmr # None => r.created = hot.created)
  BY <1>1, RestoredMonero, RestoredBitcoin DEF Secrets, Chain
<1> HIDE DEF r
<1>3. TypeOK'
  BY <1>1, <1>2 DEF TypeOK, Call, Chain
<1>4. NothingHeldUnwritten' /\ ScansFromBirth'
  BY <1>1 DEF NothingHeldUnwritten, ScansFromBirth
<1>5. Carried'
  <2>1. r.xmr # None /\ r.xmr \notin drawn => r.created = "start"
    BY <1>2 DEF ScansFromBirth, Chain
  <2> QED BY <1>1, <1>2, <2>1 DEF Carried, NothingHeldUnwritten
<1>6. Agrees'
  <2>1. call = NoCall /\ read # "pending"
    BY DEF Restore, Answered
  <2>2. hot' = hot /\ stored' = stored /\ sheet' = NoSheet /\ read' = read
    BY <1>1
  <2>3. /\ call'.act = "keep" /\ call'.over = chain /\ ~call'.done /\ call'.record = r
        /\ call' # NoCall
    BY <1>1
  <2>4. chain \in {"xmr", "btc"}
    BY DEF Chain
  <2> QED BY ONLY <1>2, <2>1, <2>2, <2>3, <2>4, Empties, Agrees DEF Agrees, Holds
<1> QED BY <1>3, <1>4, <1>5, <1>6

(* And a call on the keychain, whatever becomes of it. *)
LEMMA CallKeeps ==
  ASSUME IInv, Forget \/ KeychainActs \/ CallReturns \/ CallRefused PROVE IInv'
<1> USE Empties DEF IInv
<1>1. CASE Forget
  <2>1. /\ call' \in Call /\ call'.act = "forget" /\ call'.record = Blank /\ ~call'.done
    BY <1>1 DEF Forget, NoCall, Call, Record, Blank
  <2>2. TypeOK' /\ NothingHeldUnwritten' /\ ScansFromBirth' /\ Carried'
    BY <1>1, <2>1 DEF Forget, TypeOK, NothingHeldUnwritten, ScansFromBirth, Carried
  <2>3. Agrees'
    BY <1>1, <2>1 DEF Forget, Agrees, Answered
  <2> QED BY <2>2, <2>3
<1>2. CASE KeychainActs
  <2>1. /\ call' \in Call /\ call'.record = call.record /\ call'.act = call.act
        /\ call'.over = call.over /\ call'.done /\ call.record \in Record
    BY <1>2 DEF KeychainActs, TypeOK, Call
  <2>2. TypeOK'
    BY <1>2, <2>1 DEF KeychainActs, TypeOK
  <2>3. NothingHeldUnwritten' /\ ScansFromBirth' /\ Carried'
    BY <1>2, <2>1 DEF KeychainActs, NothingHeldUnwritten, ScansFromBirth, Carried
  <2>4. Agrees'
    BY <1>2, <2>1 DEF KeychainActs, Agrees
  <2> QED BY <2>2, <2>3, <2>4
<1>3. CASE CallReturns
  <2>1. call.record \in Record /\ stored = call.record /\ call.act \in {"keep", "forget"}
    BY <1>3 DEF CallReturns, TypeOK, Call, Agrees
  <2>2. TypeOK' /\ NothingHeldUnwritten' /\ ScansFromBirth' /\ Carried'
    BY <1>3, <2>1 DEF CallReturns, TypeOK, NothingHeldUnwritten, ScansFromBirth, Carried
  <2>3. Agrees'
    BY <1>3, <2>1 DEF CallReturns, Agrees
  <2> QED BY <2>2, <2>3
<1>4. CASE CallRefused
  <2>1. TypeOK' /\ NothingHeldUnwritten' /\ ScansFromBirth' /\ Carried'
    BY <1>4 DEF CallRefused, TypeOK, NothingHeldUnwritten, ScansFromBirth, Carried
  <2>2. Agrees'
    BY <1>4 DEF CallRefused, Agrees
  <2> QED BY <2>1, <2>2
<1> QED BY <1>1, <1>2, <1>3, <1>4

(* Every reachable state satisfies the inductive invariant. *)
THEOREM Invariance == Spec => []IInv
<1>1. Init => IInv
  BY Empties DEF Init, IInv, TypeOK, NothingHeldUnwritten, ScansFromBirth, Agrees, Carried
<1>2. IInv /\ [Next]_vars => IInv'
  <2> SUFFICES ASSUME IInv, [Next]_vars PROVE IInv'
    OBVIOUS
  <2>1. CASE Person
    <3>1. ASSUME NEW s \in Monero, Restore("xmr", s) PROVE IInv'
      BY <3>1, RestoreKeeps DEF Chain
    <3>2. ASSUME NEW s \in Bitcoin, Restore("btc", s) PROVE IInv'
      <4>1. s \notin Monero
        OBVIOUS
      <4> QED BY <3>2, <4>1, RestoreKeeps DEF Chain
    <3> QED BY <2>1, <3>1, <3>2, CreationKeeps, CallKeeps DEF Person
  <2>2. CASE System
    BY <2>2, LaunchKeeps, CallKeeps DEF System
  <2>3. CASE UNCHANGED vars
    BY <2>3 DEF vars, IInv, TypeOK, NothingHeldUnwritten, ScansFromBirth, Agrees, Carried
  <2> QED BY <2>1, <2>2, <2>3 DEF Next
<1> QED BY <1>1, <1>2, PTL DEF Spec

(* Every variable keeps its type. *)
THEOREM TypeCorrect == Spec => []TypeOK
<1>1. IInv => TypeOK
  BY DEF IInv
<1> QED BY Invariance, <1>1, PTL

(* mayKeep: no key is held, or in use, whose words are not in writing. *)
THEOREM PaperFirst == Spec => []NothingHeldUnwritten
<1>1. IInv => NothingHeldUnwritten
  BY DEF IInv
<1> QED BY Invariance, <1>1, PTL

(* withRestored: a seed this phone did not make is scanned from the        *)
(* beginning of its chain.                                                 *)
THEOREM NoPastIsCutOff == Spec => []ScansFromBirth
<1>1. IInv => ScansFromBirth
  BY DEF IInv
<1> QED BY Invariance, <1>1, PTL

(* withRestored: "Restoring one chain must never quietly discard the       *)
(* other", unless the launch read missed what was there.                   *)
THEOREM OtherChainIsKept == Spec => KeepsTheOther
<1>1. IInv /\ [Next]_vars
        => [\A chain \in Chain :
              Loses(chain) => \/ call.act = "forget" \/ call.over = chain
                              \/ read = "missed"]_vars
  <2> SUFFICES ASSUME IInv, Next, NEW chain \in Chain, Loses(chain),
                      call.act # "forget", read # "missed"
               PROVE  call.over = chain
    OBVIOUS
  <2>1. KeychainActs
    BY DEF Next, Person, System, BeginCreation, Reveal, Keep, CloseSheet, Restore, Forget,
       ReadLands, ReadFails, CallReturns, CallRefused, Relaunch, Loses
  <2>2. call.act = "keep" /\ ~call.done /\ stored' = call.record /\ call.over \in Chain \cup {"none"}
    BY <2>1 DEF KeychainActs, IInv, TypeOK, Call
  <2>3. read = "done"
    BY <2>2 DEF IInv, TypeOK, Agrees, NoCall
  <2>4. hot = stored
    BY <2>2, <2>3 DEF IInv, Agrees
  <2> QED BY <2>2, <2>4, Empties DEF IInv, Agrees, Loses, Chain
<1> QED BY Invariance, <1>1, PTL DEF Spec, KeepsTheOther
=============================================================================
