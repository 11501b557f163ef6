----------------------------- MODULE SendSession -----------------------------
(***************************************************************************)
(* The online wallet's send flow: the reducer of core/session.ts, the      *)
(* asynchronous callbacks of state/store.tsx that feed it (the Monero      *)
(* planner, the hot signer behind its Face ID prompt, the scanner, the     *)
(* broadcast) and the screens that dispatch its events.                    *)
(*                                                                         *)
(* A callback works on the session value its closure captured and then     *)
(* dispatches into whatever session is live by then, so a call in flight   *)
(* is a record of what was captured: planning, prompts and casts hold      *)
(* those, and wire is what the memoised acceptWirePayload last captured.   *)
(*                                                                         *)
(* A draft stands for the transaction it describes.  Altered signed bytes  *)
(* are the value None: they match no draft.                                *)
(***************************************************************************)
EXTENDS FiniteSets

CONSTANTS Draft,           \* the payments that can ever be built
          Account,         \* account ids
          SigningAccount,  \* the accounts canSignHere says yes to
          None,            \* null
          Demo             \* a development build: the stand-in vault exists

ASSUME SendSessionAssumption ==
  /\ SigningAccount \subseteq Account
  /\ None \notin Draft \cup Account \cup [ok : BOOLEAN, of : Draft]
  /\ Demo \in BOOLEAN

VARIABLES session,      \* the reducer's state
          acctOf,       \* history: the account each draft was built for
          wanted,       \* the account chosen on the accounts screen
          present,      \* accounts whose keys or pairing are on this phone
          wire,         \* the draft acceptWirePayload closed over
          planning,     \* accounts with a Monero plan in flight
          prompts,      \* hot signatures in flight
          casts,        \* broadcasts in flight
          link,         \* the vault link's state
          lastVerified, \* the draft behind the link's LAST VERIFIED SESSION
          shown,        \* history: drafts whose frames were on the glass
          signedHere,   \* history: drafts this phone signed
          signedAway,   \* history: drafts the vault signed
          passed,       \* history: drafts whose signature matched
          accepted      \* history: drafts a node has taken

calls == <<planning, prompts, casts>>
phone == <<wanted, present>>
audit == <<link, lastVerified>>
past  == <<shown, signedHere, signedAway, passed, accepted>>
vars  == <<session, acctOf, wanted, present, wire, planning, prompts, casts,
           link, lastVerified, shown, signedHere, signedAway, passed, accepted>>

Step == {"compose", "review", "transmit", "signing", "awaiting", "receive",
         "ready", "broadcasting", "done", "mismatch", "failed"}
Job     == [draft : Draft, account : Account]
Verdict == [ok : BOOLEAN, of : Draft]
Session == [step : Step, draft : Draft \cup {None}, account : Account \cup {None},
            transmission : Draft \cup {None}, verified : Verdict \cup {None},
            txid : Draft \cup {None}]

-----------------------------------------------------------------------------
(* The reducer: one operator per event, the identity where it is ignored.  *)

START == [step |-> "compose", draft |-> None, account |-> None,
          transmission |-> None, verified |-> None, txid |-> None]

At(s, steps, next) == IF s.step \in steps THEN next ELSE s

OnPrepared(s, d, a) ==
  At(s, {"compose"}, [s EXCEPT !.step = "review", !.draft = d, !.account = a])
OnTransmit(s, d) ==
  At(s, {"review"}, [s EXCEPT !.step = "transmit", !.transmission = d])
OnSignHere(s, signsHere) ==
  IF signsHere THEN At(s, {"review"}, [s EXCEPT !.step = "signing"]) ELSE s
OnHandedOver(s) == At(s, {"transmit"}, [s EXCEPT !.step = "awaiting"])
OnReadBack(s)   == At(s, {"awaiting", "transmit"}, [s EXCEPT !.step = "receive"])
OnReturned(s, v) ==
  At(s, {"receive", "signing"},
     IF v.ok THEN [s EXCEPT !.step = "ready", !.verified = v, !.txid = None]
             ELSE [s EXCEPT !.step = "mismatch", !.verified = v])
OnBroadcast(s)    == At(s, {"ready"}, [s EXCEPT !.step = "broadcasting"])
OnPublished(s, t) == At(s, {"broadcasting"}, [s EXCEPT !.step = "done", !.txid = t])
OnFailed(s)       == At(s, Step \ {"mismatch"}, [s EXCEPT !.step = "failed"])

Signed(s) == s.verified # None /\ s.verified.ok

OnBack(s) ==
  CASE s.step = "review"       -> [s EXCEPT !.step = "compose", !.draft = None, !.account = None]
    [] s.step = "transmit"     -> [s EXCEPT !.step = "review", !.transmission = None]
    [] s.step = "awaiting"     -> [s EXCEPT !.step = "transmit"]
    [] s.step = "receive"      -> [s EXCEPT !.step = "awaiting"]
    [] s.step = "signing"      -> [s EXCEPT !.step = "review"]
    [] s.step = "broadcasting" -> [s EXCEPT !.step = "ready"]
    [] s.step = "failed"       -> IF Signed(s) THEN [s EXCEPT !.step = "ready"] ELSE START
    [] OTHER                   -> s

CanBroadcast(s) == s.step = "ready" /\ Signed(s)

-----------------------------------------------------------------------------
(* The accounts this phone holds.                                          *)

(* The account on screen: the one asked for while it exists, else another. *)
Selected == IF wanted \in present THEN wanted
            ELSE IF present = {} THEN None ELSE CHOOSE a \in present : TRUE

(* Mutant: asks the selection, which moves, instead of the draft's account. *)
SelectionSignsHere(a) == Selected \in SigningAccount

(* accounts.find((a) => a.id === session.account)?.signsHere               *)
SignsHere(a) == a \in present /\ a \in SigningAccount

(* The bookkeeping endSession does on the vault link.                      *)
EndSession == link' = IF link = "inSession" THEN "ready" ELSE link

Captured(s) == [draft |-> s.draft, account |-> s.account]

Init ==
  /\ session = START /\ acctOf = [d \in Draft |-> None]
  /\ present \in SUBSET Account /\ wanted = None
  /\ wire = None
  /\ planning = {} /\ prompts = {} /\ casts = {}
  /\ link = (IF present \subseteq SigningAccount THEN "unpaired" ELSE "ready")
  /\ lastVerified = None
  /\ shown = {} /\ signedHere = {} /\ signedAway = {}
  /\ passed = {} /\ accepted = {}

-----------------------------------------------------------------------------
(* Building a payment.                                                     *)

(* Mutant: the account is read from the selection when the plan lands.     *)
BuiltForSelection(d, a) ==
  /\ session.step = "compose" /\ acctOf[d] = None
  /\ acctOf' = [acctOf EXCEPT ![d] = a]
  /\ session' = OnPrepared(session, d, Selected)

(* prepareDraft: `prepared` with the account of the selection it captured. *)
Built(d, a) ==
  /\ session.step = "compose" /\ acctOf[d] = None
  /\ acctOf' = [acctOf EXCEPT ![d] = a]
  /\ session' = OnPrepared(session, d, a)

(* Bitcoin is planned in one synchronous call.                             *)
PrepareBitcoin(d) ==
  /\ Selected # None /\ Built(d, Selected)
  /\ UNCHANGED <<phone, wire, calls, audit, past>>

(* Monero is planned against a node; the account is captured here.         *)
StartPlan ==
  /\ session.step = "compose" /\ Selected # None
  /\ planning' = planning \cup {Selected}
  /\ UNCHANGED <<session, acctOf, phone, wire, prompts, casts, audit, past>>

(* The answer: a plan that lands outside compose, or failed, is dropped.   *)
PlanLands(a, d) ==
  /\ a \in planning /\ planning' = planning \ {a}
  /\ \/ Built(d, a)
     \/ UNCHANGED <<session, acctOf>>
  /\ UNCHANGED <<phone, wire, prompts, casts, audit, past>>

-----------------------------------------------------------------------------
(* The vault's side of the handoff.                                        *)

(* Mutant: beginTransmit without its check that there is a draft.          *)
TransmitNothing ==
  /\ ~SignsHere(session.account)
  /\ session' = OnTransmit(session, session.draft)
  /\ link' = IF link = "unpaired" THEN link ELSE "inSession"
  /\ shown' = shown \cup {session.draft}
  /\ UNCHANGED <<acctOf, phone, wire, calls, lastVerified,
                 signedHere, signedAway, passed, accepted>>

BeginTransmit ==
  /\ session.step = "review" /\ ~SignsHere(session.account)
  /\ session' = OnTransmit(session, session.draft)
  /\ link' = IF link = "unpaired" THEN link ELSE "inSession"
  /\ shown' = shown \cup {session.draft}
  /\ UNCHANGED <<acctOf, phone, wire, calls, lastVerified,
                 signedHere, signedAway, passed, accepted>>

HandOver ==
  /\ session.step = "transmit" /\ session' = OnHandedOver(session)
  /\ UNCHANGED <<acctOf, phone, wire, calls, audit, past>>

ReadBack ==
  /\ session.step \in {"transmit", "awaiting"} /\ session' = OnReadBack(session)
  /\ UNCHANGED <<acctOf, phone, wire, calls, audit, past>>

(* External: a person approves a payment the vault's camera has read.      *)
VaultSigns(d) ==
  /\ d \in shown /\ acctOf[d] \notin SigningAccount
  /\ signedAway' = signedAway \cup {d}
  /\ UNCHANGED <<session, acctOf, phone, wire, calls, audit,
                 shown, signedHere, passed, accepted>>

(* Mutant: any well-formed transaction passes for the draft.               *)
ApplyUncompared(d, tx) ==
  \E ok \in {tx # None} :
    /\ session' = OnReturned(session, [ok |-> ok, of |-> d])
    /\ link' = IF link = "unpaired" THEN link ELSE "ready"
    /\ lastVerified' = IF link # "unpaired" /\ ok THEN d ELSE lastVerified
    /\ passed' = IF ok THEN passed \cup {d} ELSE passed

(* applySignature(raw, 'vault') in a closure that captured draft d: tx is  *)
(* compared with d.  A Monero one is matched by the key images its watcher *)
(* holds: a watcher that is gone, or was rebuilt since, knows none of them *)
(* and the right transaction is a mismatch.                                *)
ApplyFromVault(d, tx) ==
  \E ok \in {tx = d, FALSE} :
    /\ session' = OnReturned(session, [ok |-> ok, of |-> d])
    /\ link' = IF link = "unpaired" THEN link ELSE "ready"
    /\ lastVerified' = IF link # "unpaired" /\ ok THEN d ELSE lastVerified
    /\ passed' = IF ok THEN passed \cup {d} ELSE passed

(* The scanner reads a TXSIGNED payload: one the vault made, or another.   *)
(* acceptWirePayload answers "received" either way, and its closure is     *)
(* rebuilt only when a watcher, a node or an account changes.              *)
ScanTxSigned(tx) ==
  /\ tx \in signedAway \cup {None}
  /\ IF wire = None THEN UNCHANGED <<session, audit, passed>> ELSE ApplyFromVault(wire, tx)
  /\ UNCHANGED <<acctOf, phone, wire, calls, shown, signedHere, signedAway, accepted>>

(* The development build's stand-in vault answers on the receive screen,   *)
(* through a fresh closure: a signature, an altered one, or nothing.       *)
StandInAnswers ==
  /\ Demo /\ session.step = "receive"
  /\ \/ /\ session' = OnFailed(session) /\ EndSession
        /\ UNCHANGED <<lastVerified, passed, signedAway>>
     \/ /\ ApplyFromVault(session.draft, None)
        /\ UNCHANGED signedAway
     \/ /\ session.account \notin SigningAccount
        /\ ApplyFromVault(session.draft, session.draft)
        /\ signedAway' = signedAway \cup {session.draft}
  /\ UNCHANGED <<acctOf, phone, wire, calls, shown, signedHere, accepted>>

-----------------------------------------------------------------------------
(* Signing on this phone.                                                  *)

(* The review screen's button, and signOnThisDevice, which the signing     *)
(* screen calls as it mounts: one call in flight, on the draft's account.  *)
SignOnThisDevice ==
  /\ session.step = "review" /\ SignsHere(session.account)
  /\ session' = OnSignHere(session, SignsHere(session.account))
  /\ prompts' = IF prompts = {} THEN {Captured(session)} ELSE prompts
  /\ UNCHANGED <<acctOf, phone, wire, planning, casts, audit, past>>

(* Mutant: a refusal returns without dispatching anything.                 *)
PromptRefusedSilently(c) ==
  /\ c \in prompts /\ prompts' = prompts \ {c}
  /\ UNCHANGED <<session, acctOf, phone, wire, planning, casts, audit, past>>

(* Refused, dismissed, or the signer could not sign.                       *)
PromptRefused(c) ==
  /\ c \in prompts /\ prompts' = prompts \ {c}
  /\ session' = OnFailed(session)
  /\ UNCHANGED <<acctOf, phone, wire, planning, casts, audit, past>>

(* Mutant: a signature made here is recorded as the vault's.               *)
PromptAllowedOnTheLink(c) ==
  /\ c \in prompts /\ prompts' = prompts \ {c}
  /\ signedHere' = signedHere \cup {c.draft}
  /\ session' = OnReturned(session, [ok |-> TRUE, of |-> c.draft])
  /\ passed' = passed \cup {c.draft}
  /\ lastVerified' = IF link # "unpaired" THEN c.draft ELSE lastVerified
  /\ UNCHANGED <<acctOf, phone, wire, planning, casts, link,
                 shown, signedAway, accepted>>

(* Allowed and signed: applySignature(raw, 'here') in the closure that     *)
(* captured c.  ok is FALSE when its key images cannot be matched.         *)
PromptAllowed(c) ==
  /\ c \in prompts /\ prompts' = prompts \ {c}
  /\ signedHere' = signedHere \cup {c.draft}
  /\ \E ok \in BOOLEAN :
       /\ session' = OnReturned(session, [ok |-> ok, of |-> c.draft])
       /\ passed' = IF ok THEN passed \cup {c.draft} ELSE passed
  /\ UNCHANGED <<acctOf, phone, wire, planning, casts, audit,
                 shown, signedAway, accepted>>

-----------------------------------------------------------------------------
(* Publishing.                                                             *)

(* The call that publishes what a session has verified.                    *)
OwnCast(s) == [draft |-> s.verified.of, account |-> s.account]

(* Mutant: `broadcast` is dispatched before the watcher is looked for.     *)
BroadcastFirst ==
  /\ CanBroadcast(session)
  /\ session' = OnBroadcast(session)
  /\ casts' = IF session.account \in present
              THEN casts \cup {OwnCast(session)}
              ELSE casts
  /\ UNCHANGED <<acctOf, phone, wire, planning, prompts, audit, past>>

Broadcast ==
  /\ CanBroadcast(session)
  /\ IF session.account \in present
     THEN /\ session' = OnBroadcast(session)
          /\ casts' = casts \cup {OwnCast(session)}
     ELSE session' = OnFailed(session) /\ UNCHANGED casts
  /\ UNCHANGED <<acctOf, phone, wire, planning, prompts, audit, past>>

(* The node took it and said so.                                           *)
CastAccepted(c) ==
  /\ c \in casts /\ casts' = casts \ {c}
  /\ accepted' = accepted \cup {c.draft}
  /\ session' = OnPublished(session, c.draft)
  /\ UNCHANGED <<acctOf, phone, wire, planning, prompts, audit,
                 shown, signedHere, signedAway, passed>>

(* It was refused, or timed out with the node holding it or not.           *)
CastFailed(c) ==
  /\ c \in casts /\ casts' = casts \ {c}
  /\ accepted' \in {accepted, accepted \cup {c.draft}}
  /\ session' = OnFailed(session)
  /\ UNCHANGED <<acctOf, phone, wire, planning, prompts, audit,
                 shown, signedHere, signedAway, passed>>

-----------------------------------------------------------------------------
(* Ways out, and the rest of the phone.                                    *)

(* The screens that have a back, SendScreen's `back`.                      *)
Back ==
  /\ session.step \in {"review", "transmit", "awaiting", "receive", "signing", "failed"}
  /\ session' = OnBack(session)
  /\ IF session.step \in {"transmit", "awaiting"} THEN EndSession ELSE UNCHANGED link
  /\ UNCHANGED <<acctOf, phone, wire, calls, lastVerified, past>>

(* Leaving compose, and closing the done and mismatch screens.             *)
Close ==
  /\ session.step \in {"compose", "done", "mismatch"}
  /\ session' = START /\ EndSession
  /\ UNCHANGED <<acctOf, phone, wire, calls, lastVerified, past>>

(* Paying a swap deposit starts a payment over whatever was there.         *)
DepositForSwap ==
  /\ session' = START
  /\ UNCHANGED <<acctOf, phone, wire, calls, audit, past>>

(* acceptWirePayload is rebuilt, on the session of that moment, when the   *)
(* watcher on screen, a node or the set of accounts changes.               *)
SelectAccount(a) ==
  /\ a \in present /\ wanted' = a
  /\ wire' = IF a = Selected THEN wire ELSE session.draft
  /\ UNCHANGED <<session, acctOf, present, calls, audit, past>>

SetNodes ==
  /\ wire' = session.draft
  /\ UNCHANGED <<session, acctOf, phone, calls, audit, past>>

(* acceptPairing and keepHot.                                              *)
AddAccount(a) ==
  /\ a \notin present /\ present' = present \cup {a}
  /\ wire' = session.draft
  /\ link' = IF a \notin SigningAccount /\ link = "unpaired" THEN "ready" ELSE link
  /\ UNCHANGED <<session, acctOf, wanted, calls, lastVerified, past>>

(* unpairVault and forgetHotKeys.                                          *)
ForgetAccount(a) ==
  /\ a \in present /\ present' = present \ {a}
  /\ wire' = session.draft
  /\ IF a \in SigningAccount THEN UNCHANGED audit
     ELSE link' = "unpaired" /\ lastVerified' = None
  /\ UNCHANGED <<session, acctOf, wanted, calls, past>>

(* The app is killed and opened again: the session and every call in       *)
(* flight are gone, and each broadcast reached its node or did not.        *)
Relaunch ==
  /\ session' = START /\ wire' = None
  /\ planning' = {} /\ prompts' = {} /\ casts' = {}
  /\ wanted' = None
  /\ link' = (IF link = "unpaired" THEN link ELSE "ready") /\ lastVerified' = None
  /\ \E S \in SUBSET {c.draft : c \in casts} : accepted' = accepted \cup S
  /\ UNCHANGED <<acctOf, present, shown, signedHere, signedAway, passed>>

Building  == \/ \E d \in Draft : PrepareBitcoin(d)
             \/ StartPlan
             \/ \E a \in Account, d \in Draft : PlanLands(a, d)
Handoff   == \/ BeginTransmit \/ HandOver \/ ReadBack
             \/ \E d \in Draft : VaultSigns(d)
             \/ \E tx \in Draft \cup {None} : ScanTxSigned(tx)
             \/ StandInAnswers
HotSigner == \/ SignOnThisDevice
             \/ \E c \in Job : PromptRefused(c) \/ PromptAllowed(c)
Publisher == \/ Broadcast
             \/ \E c \in Job : CastAccepted(c) \/ CastFailed(c)
Phone     == \/ Back \/ Close \/ DepositForSwap \/ SetNodes \/ Relaunch
             \/ \E a \in Account : SelectAccount(a) \/ AddAccount(a) \/ ForgetAccount(a)

Next == Building \/ Handoff \/ HotSigner \/ Publisher \/ Phone

Spec == Init /\ [][Next]_vars

(* A prompt is answered by the person or the system, and every request to  *)
(* a node has a deadline.  No person is obliged to do anything.            *)
Fairness == \A c \in Job : /\ WF_vars(PromptRefused(c) \/ PromptAllowed(c))
                           /\ WF_vars(CastAccepted(c) \/ CastFailed(c))
FairSpec == Spec /\ Fairness

-----------------------------------------------------------------------------
(* Properties that hold.                                                   *)

(* Every variable keeps its type. *)
TypeOK ==
  /\ session \in Session
  /\ acctOf \in [Draft -> Account \cup {None}]
  /\ wanted \in Account \cup {None} /\ present \in SUBSET Account
  /\ wire \in Draft \cup {None}
  /\ planning \in SUBSET Account /\ prompts \in SUBSET Job /\ casts \in SUBSET Job
  /\ link \in {"ready", "inSession", "unpaired"} /\ lastVerified \in Draft \cup {None}
  /\ shown \in SUBSET Draft /\ signedHere \in SUBSET Draft /\ signedAway \in SUBSET Draft
  /\ passed \in SUBSET Draft /\ accepted \in SUBSET Draft

(* session.ts: `mismatch` is terminal.  No event of any screen, callback or *)
(* late answer moves it anywhere but back to the beginning.                *)
MismatchIsTerminal ==
  [][session.step = "mismatch" => session' \in {session, START}]_vars

(* session.ts: nothing is broadcastable, broadcasting or done without an ok *)
(* verdict, and no step before the comparison carries one.                 *)
VerdictWhereItBelongs ==
  /\ session.step \in {"ready", "broadcasting", "done"} => Signed(session)
  /\ session.step \in {"compose", "review", "transmit", "signing", "awaiting", "receive"}
       => session.verified = None
  /\ session.step = "mismatch" => ~Signed(session)

(* A node has only ever been given a transaction that matched its draft,   *)
(* and that the holder of its keys really signed, whatever was in flight   *)
(* when it was cancelled, replaced or relaunched.                          *)
AcceptedWasMatched ==
  /\ accepted \subseteq passed
  /\ passed \subseteq signedHere \cup signedAway

(* The airgap: a payment from a vault account is never signed by this      *)
(* phone, whichever account is selected by the time somebody presses SIGN. *)
VaultCoinsNeverSignedHere == \A d \in signedHere : acctOf[d] \in SigningAccount

(* session.ts: the account is recorded when the draft is built; a selection *)
(* that moves, or a plan that lands late, never changes whose payment it is. *)
DraftKeepsItsAccount ==
  /\ session.draft # None => session.account = acctOf[session.draft]
  /\ \A c \in prompts : c.account = acctOf[c.draft]

(* signOnThisDevice: one prompt however often the flow is cancelled and    *)
(* walked again, for the same payment or another.                          *)
OnePromptAtATime == \A c, e \in prompts : c = e

(* The vault link: LAST VERIFIED SESSION is a handoff that happened.  What *)
(* is recorded there the vault signed, never this phone.                   *)
LastVerifiedCameFromVault == lastVerified # None => lastVerified \in signedAway

(* session.ts: a step that only waits has what it waits for in flight, and *)
(* a broadcast its own call, whatever was cancelled, refused or begun      *)
(* again...                                                                *)
WaitsForSomething ==
  /\ session.step = "signing" => prompts # {}
  /\ session.step = "broadcasting" => OwnCast(session) \in casts

(* broadcast: the last screen shows the id of the payment it is about.     *)
(* The code promises no more than this: an answer is dispatched into       *)
(* whatever session is broadcasting, so while the call of a payment that   *)
(* was abandoned is in the air beside the own one, either may end it.      *)
DoneNamesItsPayment ==
  [][session.step = "broadcasting" /\ session'.step = "done"
       => session'.txid = session.verified.of \/ \E c, e \in casts : c.draft # e.draft]_vars

(* ...and the first answer to come, be it to an earlier call, ends it.     *)
AnswersEndTheWait ==
  [][/\ session.step = "signing" /\ ~ (prompts \subseteq prompts') => session'.step # "signing"
     /\ session.step = "broadcasting" /\ ~ (casts \subseteq casts')
          => session'.step # "broadcasting"]_vars

(* No payment is pinned at the prompt or at the broadcast: answered, timed *)
(* out or failed, the step is left.                                        *)
SigningSettles   == session.step = "signing" ~> session.step # "signing"
BroadcastSettles == session.step = "broadcasting" ~> session.step # "broadcasting"

(* What the invariants above rest on: where the flow has a draft it has    *)
(* the draft's account, only what was built is shown, only an account that *)
(* signs here is prompted for, and only what matched is in flight.         *)
Support ==
  /\ session.step \in {"review", "transmit", "signing", "awaiting", "receive"}
       => session.draft # None
  /\ session.draft # None => session.account # None
  /\ \A d \in shown : acctOf[d] # None
  /\ \A c \in prompts : c.account \in SigningAccount
  /\ \A c \in casts : c.draft \in passed
  /\ Signed(session) => session.verified.of \in passed

(* The inductive invariant.                                                *)
IInv == /\ TypeOK /\ Support
        /\ VerdictWhereItBelongs /\ AcceptedWasMatched
        /\ VaultCoinsNeverSignedHere /\ DraftKeepsItsAccount
        /\ OnePromptAtATime /\ LastVerifiedCameFromVault

(* The whole flow keeps the promise of PaymentPromise.                     *)
P == INSTANCE PaymentPromise WITH
       Draft <- Draft, Account <- Account, SigningAccount <- SigningAccount, None <- None,
       acctOf <- acctOf, signedHere <- signedHere, signedAway <- signedAway,
       passed <- passed, accepted <- accepted
KeepsThePromise == P!Promise

=============================================================================
