------------------------------ MODULE Approval ------------------------------
(***************************************************************************)
(* What a vault promises of the transaction it puts before a person: it is *)
(* one that was described with the keys that are open, it stands unchanged *)
(* once its approval is asked for, what is signed is that transaction with *)
(* those keys or nothing at all, and a refusal is not a way to it.         *)
(* VaultSigning implements this specification.                             *)
(***************************************************************************)
CONSTANTS Tx,       \* a payload and the keys it was described with
          Keys,     \* the keys that can be open, those of a person's vault and
          Practice, \* those of the demonstration
          None

VARIABLES stage,     \* what the person is looking at
          shown,     \* the transaction on the screen
          signature, \* what was signed
          open       \* the keys that are open, if any are

state == <<stage, shown, signature, open>>

Begin == stage = "away" /\ shown = None /\ signature = None /\ open = "none"

Show(tx) == /\ stage \in {"away", "reading"} /\ tx.keys = open
            /\ stage' = "reading" /\ shown' = tx /\ signature' = None /\ UNCHANGED open

Ask == stage = "reading" /\ stage' = "asked" /\ UNCHANGED <<shown, signature, open>>

Sign == /\ stage = "asked" /\ shown.keys = open
        /\ stage' = "signed" /\ signature' = shown /\ UNCHANGED <<shown, open>>

Leave == /\ stage' \in {"away", "refused"} /\ shown' = None /\ signature' = None
         /\ open' \in {open, "none"}

(* Keys open and close under any screen; those of the demonstration only   *)
(* where there is neither a transaction nor a refusal on it.               *)
Rekey == open' \in (Keys \ {Practice}) \cup {"none"} /\ UNCHANGED <<stage, shown, signature>>

Rehearse == /\ stage # "refused"
            /\ stage' = "away" /\ shown' = None /\ signature' = None /\ open' = Practice

Change == (\E tx \in Tx : Show(tx)) \/ Ask \/ Sign \/ Leave \/ Rekey \/ Rehearse

Promise == Begin /\ [][Change]_state
=============================================================================
