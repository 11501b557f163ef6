--------------------------- MODULE PaymentPromise ---------------------------
(***************************************************************************)
(* What the wallet promises about a payment, whichever way it is signed:   *)
(* it is built for one account, authorised by whoever holds that account's *)
(* keys, compared with the draft recorded before anything was signed, and  *)
(* only then may it be handed to a node.  Each stage is a set that only    *)
(* grows, and a draft enters a stage only from the stage before it.        *)
(* SendSession implements this specification.                              *)
(***************************************************************************)
CONSTANTS Draft,           \* the payments that can ever be built
          Account,         \* the accounts a payment can spend from
          SigningAccount,  \* those whose keys are on this phone
          None

VARIABLES acctOf,      \* the account each draft was built for, None if not built
          signedHere,  \* drafts signed by this phone
          signedAway,  \* drafts signed by the vault
          passed,      \* drafts whose signature matched
          accepted     \* drafts a node has taken

stages == <<acctOf, signedHere, signedAway, passed, accepted>>

Start == /\ acctOf = [d \in Draft |-> None]
         /\ signedHere = {} /\ signedAway = {} /\ passed = {} /\ accepted = {}

Build(d, a) == /\ acctOf[d] = None
               /\ acctOf' = [acctOf EXCEPT ![d] = a]
               /\ UNCHANGED <<signedHere, signedAway, passed, accepted>>

(* The two kinds of key never stand in for one another. *)
SignHere(d) == /\ acctOf[d] \in SigningAccount
               /\ signedHere' = signedHere \cup {d}
               /\ passed' \in {passed, passed \cup {d}}
               /\ UNCHANGED <<acctOf, signedAway, accepted>>

SignAway(d) == /\ acctOf[d] \in Account \ SigningAccount
               /\ signedAway' = signedAway \cup {d}
               /\ passed' \in {passed, passed \cup {d}}
               /\ UNCHANGED <<acctOf, signedHere, accepted>>

Match(d) == /\ d \in signedHere \cup signedAway
            /\ passed' = passed \cup {d}
            /\ UNCHANGED <<acctOf, signedHere, signedAway, accepted>>

(* A relaunch can settle several broadcasts at once, so the step is a set. *)
Publish(S) == /\ S \subseteq passed
              /\ accepted' = accepted \cup S
              /\ UNCHANGED <<acctOf, signedHere, signedAway, passed>>

Advance == \/ \E d \in Draft : \/ \E a \in Account : Build(d, a)
                               \/ SignHere(d) \/ SignAway(d) \/ Match(d)
           \/ \E S \in SUBSET Draft : Publish(S)

Promise == Start /\ [][Advance]_stages
=============================================================================
