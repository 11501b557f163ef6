------------------------------ MODULE Transfer ------------------------------
(***************************************************************************)
(* What a camera between two devices promises: it keeps pieces of payloads *)
(* only out of frames it was shown, it may lose any of them at any moment, *)
(* and it hands over the payload a frame belongs to only when all of that  *)
(* payload's pieces are kept.  Airgap implements this specification.       *)
(***************************************************************************)
CONSTANTS Payload,
          Pieces,   \* the pieces each payload is cut into
          None

VARIABLES kept,     \* the pieces in hand
          got       \* what the last look at the camera gave, or None

Blank == kept = {} /\ got = None

(* One look at a frame that carries the pieces F of payload p. *)
Look(p, F) == /\ kept' \in SUBSET (kept \cup F)
              /\ \/ got' = None
                 \/ got' = p /\ Pieces[p] \subseteq kept'

Onwards == \E p \in Payload : \E F \in SUBSET Pieces[p] : Look(p, F)

Relay == Blank /\ [][Onwards]_<<kept, got>>
=============================================================================
