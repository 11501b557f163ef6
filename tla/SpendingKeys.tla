----------------------------- MODULE SpendingKeys -----------------------------
(***************************************************************************)
(* The one record of spending keys on the wallet's phone: making it        *)
(* (screens/Backup.tsx, core/backup.ts), folding a restored phrase into it *)
(* (screens/Restore.tsx, core/keyvault.ts), forgetting it, and reading it  *)
(* back at launch (state/store.tsx).                                       *)
(*                                                                         *)
(* The keychain keeps the record and the app keeps a copy; a call on the   *)
(* keychain is asked, carried out and returned from in three steps, and    *)
(* the process may end between any two.  A phrase and the key it names are *)
(* one thing here.                                                         *)
(***************************************************************************)
CONSTANTS Monero,    \* every Monero seed there can be
          Bitcoin,   \* every Bitcoin phrase there can be
          None,      \* null
          MayMiss,   \* the read at launch can fail for a record that is there
          MayRefuse  \* the keychain can refuse a call

ASSUME SpendingKeysAssumption ==
  /\ MayMiss \in BOOLEAN /\ MayRefuse \in BOOLEAN
  /\ Monero \cap Bitcoin = {}
  /\ None \notin Monero \cup Bitcoin

VARIABLES stored, \* the keychain's item
          hot,    \* the app's copy of it
          read,   \* what has become of the read at launch
          sheet,  \* the creation on the screen
          call,   \* the call on the keychain in flight
          drawn,  \* history: the Monero seeds this phone made itself
          paper   \* history: the phrases a person has in writing

vars == <<stored, hot, read, sheet, call, drawn, paper>>

Chain == {"xmr", "btc"}

(* When the Monero half is scanned from: the beginning of the chain, or    *)
(* the moment this phone made the record.                                  *)
Record == [xmr : Monero \cup {None}, btc : Bitcoin \cup {None}, created : {"start", "made"}]

(* No record, no sheet, no call.  A record without keys is not one either: *)
(* parseHotRecord refuses it.                                              *)
Blank   == [xmr |-> None, btc |-> None, created |-> "start"]
NoSheet == [step |-> "none", record |-> Blank]
NoCall  == [act |-> "none", over |-> "none", done |-> FALSE, record |-> Blank]

Sheet == [step : {"none", "drawn", "shown"}, record : Record]
Call  == [act : {"none", "keep", "forget"}, over : Chain \cup {"none"}, done : BOOLEAN,
          record : Record]

Holds(r)   == r # Blank
Secrets(r) == {r.xmr, r.btc} \ {None}

(* Bound: the keychain answers before a person has read or typed a phrase; *)
(* the screens also wait for the file and the pairing, asked for later.    *)
Answered == read # "pending" /\ call = NoCall

Init ==
  /\ stored = Blank /\ hot = Blank /\ read = "pending"
  /\ sheet = NoSheet /\ call = NoCall /\ drawn = {} /\ paper = {}

-----------------------------------------------------------------------------
(* Launch.                                                                 *)

ReadLands ==
  /\ read = "pending" /\ read' = "done" /\ hot' = stored
  /\ UNCHANGED <<stored, sheet, call, drawn, paper>>

(* A read that is refused, or a record that does not parse, loads as none. *)
ReadFails ==
  /\ MayMiss /\ read = "pending" /\ read' = "missed"
  /\ UNCHANGED <<stored, hot, sheet, call, drawn, paper>>

-----------------------------------------------------------------------------
(* Making a wallet.                                                        *)

(* CreateWalletScreen refuses while the app holds a record; fresh entropy  *)
(* names no wallet that exists.                                            *)
BeginCreation(x, b) ==
  /\ Answered /\ ~Holds(hot) /\ sheet = NoSheet
  /\ x \notin paper \cup drawn /\ b \notin paper
  /\ sheet' = [step |-> "drawn", record |-> [xmr |-> x, btc |-> b, created |-> "made"]]
  /\ drawn' = drawn \cup {x}
  /\ UNCHANGED <<stored, hot, read, call, paper>>

(* Holding the words on the screen; every press of it.                     *)
Reveal ==
  /\ sheet.step # "none" /\ sheet' = [sheet EXCEPT !.step = "shown"]
  /\ paper' = paper \cup Secrets(sheet.record)
  /\ UNCHANGED <<stored, hot, read, call, drawn>>

(* Mutant: the record is stored as soon as there is one.                   *)
MayKeepAlways == sheet.step # "none"

mayKeep == sheet.step = "shown"

(* CreateSheet.keep.                                                       *)
Keep ==
  /\ Answered /\ mayKeep
  /\ call' = [act |-> "keep", over |-> "none", done |-> FALSE, record |-> sheet.record]
  /\ UNCHANGED <<stored, hot, read, sheet, drawn, paper>>

(* The words are left, before or after they were shown.                    *)
CloseSheet ==
  /\ sheet # NoSheet /\ sheet' = NoSheet
  /\ UNCHANGED <<stored, hot, read, call, drawn, paper>>

-----------------------------------------------------------------------------
(* Restoring a phrase, of either chain.                                    *)

(* Mutant: a record that is here keeps its creation time.                  *)
RestoredKeepsAge(existing, chain, s) ==
  [existing EXCEPT ![chain] = s, !.created = IF Holds(existing) THEN @ ELSE "start"]

(* Mutant: every phrase is taken for a Monero one.                         *)
RestoredAsMonero(existing, chain, s) ==
  [existing EXCEPT !.xmr = s, !.created = "start"]

(* The other chain is kept, and a Monero seed that was restored is scanned *)
(* from the beginning, whatever was here.                                  *)
withRestored(existing, chain, s) ==
  [existing EXCEPT ![chain] = s,
                   !.created = IF chain = "xmr" THEN "start"
                               ELSE IF Holds(existing) THEN @ ELSE "made"]

Restore(chain, s) ==
  /\ Answered /\ sheet = NoSheet
  /\ paper' = paper \cup {s}
  /\ call' = [act |-> "keep", over |-> chain, done |-> FALSE,
              record |-> withRestored(hot, chain, s)]
  /\ UNCHANGED <<stored, hot, read, sheet, drawn>>

-----------------------------------------------------------------------------
(* Forgetting, and what a call on the keychain does.                       *)

(* Mutant: the app lets go of the record before the keychain has.          *)
ForgetInMemoryFirst ==
  /\ Answered /\ Holds(hot) /\ sheet = NoSheet
  /\ call' = [NoCall EXCEPT !.act = "forget"] /\ hot' = Blank
  /\ UNCHANGED <<stored, read, sheet, drawn, paper>>

Forget ==
  /\ Answered /\ Holds(hot) /\ sheet = NoSheet
  /\ call' = [NoCall EXCEPT !.act = "forget"]
  /\ UNCHANGED <<stored, hot, read, sheet, drawn, paper>>

(* External: the keychain overwrites, or deletes, its one item.            *)
KeychainActs ==
  /\ call.act # "none" /\ ~call.done
  /\ stored' = call.record /\ call' = [call EXCEPT !.done = TRUE]
  /\ UNCHANGED <<hot, read, sheet, drawn, paper>>

(* keepHot and forgetHotKeys move the app's copy only now.  Keeping goes   *)
(* home, which closes the sheet.                                           *)
CallReturns ==
  /\ call.done /\ call' = NoCall /\ hot' = call.record
  /\ sheet' = IF call.act = "keep" THEN NoSheet ELSE sheet
  /\ UNCHANGED <<stored, read, drawn, paper>>

CallRefused ==
  /\ MayRefuse /\ call.act # "none" /\ ~call.done /\ call' = NoCall
  /\ UNCHANGED <<stored, hot, read, sheet, drawn, paper>>

(* The process ends and the app is launched again.                         *)
Relaunch ==
  /\ hot' = Blank /\ read' = "pending" /\ sheet' = NoSheet /\ call' = NoCall
  /\ UNCHANGED <<stored, drawn, paper>>

Person == \/ \E x \in Monero, b \in Bitcoin : BeginCreation(x, b)
          \/ Reveal \/ Keep \/ CloseSheet
          \/ \E s \in Monero : Restore("xmr", s)
          \/ \E s \in Bitcoin : Restore("btc", s)
          \/ Forget
System == ReadLands \/ ReadFails \/ KeychainActs \/ CallReturns \/ CallRefused \/ Relaunch

Next == Person \/ System

Spec == Init /\ [][Next]_vars
-----------------------------------------------------------------------------
(* Properties.                                                             *)

(* Every variable keeps its type. *)
TypeOK ==
  /\ stored \in Record /\ hot \in Record
  /\ read \in {"pending", "done", "missed"}
  /\ sheet \in Sheet /\ call \in Call
  /\ drawn \subseteq Monero /\ paper \subseteq Monero \cup Bitcoin

(* mayKeep: "the keychain copy is what makes the paper feel optional".     *)
(* Whatever is closed, killed, refused or begun again, no key is in the    *)
(* keychain or in use by the app whose words nobody has in writing.        *)
NothingHeldUnwritten == Secrets(stored) \cup Secrets(hot) \subseteq paper

(* withRestored: a seed this phone did not make has a past nobody knows,   *)
(* so it is scanned from the beginning, by whatever sequence of makings,   *)
(* restorings and forgettings the record came about.                       *)
ScansFromBirth ==
  \A r \in {stored, hot} : r.xmr # None /\ r.xmr \notin drawn => r.created = "start"

(* withRestored: "Restoring one chain must never quietly discard the       *)
(* other", and CreateWalletScreen "refuses rather than overwrites": the    *)
(* keychain loses a chain's key only to a forgetting, or to a restore of   *)
(* that chain; or after a launch whose read missed the record, because     *)
(* then the app believes there is none.                                    *)
Loses(chain) == stored[chain] # None /\ stored'[chain] # stored[chain]

KeepsTheOther ==
  [][\A chain \in Chain :
       Loses(chain) => \/ call.act = "forget" \/ call.over = chain
                       \/ read = "missed"]_vars

(* What they rest on: the app agrees with the keychain from the read at    *)
(* launch on, a wallet is only made where it holds none, and a call in     *)
(* flight was asked of what it held.                                       *)
Agrees ==
  /\ ~call.done /\ (read = "done" \/ Holds(hot)) => hot = stored
  /\ call.done => stored = call.record
  /\ read = "pending" => call = NoCall /\ sheet = NoSheet /\ hot = Blank
  /\ call.act = "none" => call = NoCall
  /\ sheet # NoSheet => hot = Blank
  /\ call.act = "forget" => call.record = Blank
  /\ call.act = "keep" /\ call.over = "none" => hot = Blank
  /\ call.act = "keep" /\ call.over = "xmr" => call.record.btc = hot.btc
  /\ call.act = "keep" /\ call.over = "btc" => call.record.xmr = hot.xmr

(* And what is on its way into the keychain is as good as what is there.   *)
Carried ==
  /\ sheet.step # "none" => sheet.record.xmr \in drawn
  /\ sheet.step = "shown" => Secrets(sheet.record) \subseteq paper
  /\ Secrets(call.record) \subseteq paper
  /\ call.record.xmr # None /\ call.record.xmr \notin drawn => call.record.created = "start"

(* The inductive invariant. *)
IInv == TypeOK /\ NothingHeldUnwritten /\ ScansFromBirth /\ Agrees /\ Carried
=============================================================================
