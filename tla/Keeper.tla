------------------------------- MODULE Keeper -------------------------------
(***************************************************************************)
(* What a phone promises about the one vault on it: the vault is there     *)
(* until a person erases it or the passcode takes it, what an open app     *)
(* holds is that vault and no other, and a vault that was taken is told of *)
(* before another can be made.  SealedVault implements this specification  *)
(* where no task is cut short.                                             *)
(***************************************************************************)
CONSTANTS Secret,  \* what a vault can hold
          None

VARIABLES vault,  \* what can be opened here
          held,   \* what the running app has of it, sealed
          lost    \* a vault was taken, and nobody has been told

state == <<vault, held, lost>>

Begin == vault \in Secret \cup {None} /\ held = None /\ ~lost

(* Another vault only after what went before it was erased or told of. *)
Make(s) == /\ vault = None /\ held = None /\ ~lost
           /\ vault' = s /\ held' = s /\ UNCHANGED lost

Find == vault # None /\ held = None /\ held' = vault /\ UNCHANGED <<vault, lost>>

Close == held # None /\ held' = None /\ UNCHANGED <<vault, lost>>

Erase == held # None /\ vault' = None /\ held' = None /\ lost' = FALSE

Take == vault # None /\ vault' = None /\ lost' = TRUE /\ UNCHANGED held

(* An app that outlived its vault can write it down again, the same one. *)
WriteBack == lost /\ held # None /\ vault' = held /\ lost' = FALSE /\ UNCHANGED held

Tell == lost /\ held = None /\ lost' = FALSE /\ UNCHANGED <<vault, held>>

Change == (\E s \in Secret : Make(s)) \/ Find \/ Close \/ Erase \/ Take \/ WriteBack \/ Tell

Promise == Begin /\ [][Change]_state
=============================================================================
