-------------------------- MODULE SealedVaultProofs --------------------------
(***************************************************************************)
(* What TLAPS checks about SealedVault for any secrets, passphrases and    *)
(* device halves.  Invariance and what follows from it: a phone whose      *)
(* keychain reads do not miss and whose passcode does not come back in the *)
(* middle of a task, with kills and refused calls throughout.  Migration-  *)
(* IsFaithful: any phone.  From QuietInvariance on: a phone that cuts no   *)
(* task short, on which more is true.                                      *)
(***************************************************************************)
EXTENDS SealedVault, TLAPS

USE SealedVaultAssumption

(* Launching, and acknowledging a vault that went, keep the invariant. *)
LEMMA LaunchKeeps == ASSUME IInv, ~MayMiss, ~MayRearm, Launch PROVE IInv'
<1> USE DEF IInv, keychain, past
<1>1. ASSUME Boot PROVE IInv'
  <2>1. TypeOK'
    BY <1>1 DEF Boot, TypeOK, Blob, Task, Quiet, Writing, Storing, Saved, Support
  <2>2. Support'
    BY <1>1 DEF Boot, TypeOK, Blob, Task, Support, Storing, Saved, LayeredHasHalf
  <2>3. LayeredHasHalf' /\ SetupIsEmpty'
    BY <1>1 DEF Boot, TypeOK, Blob, Task, Support, Storing, Saved, LayeredHasHalf, SetupIsEmpty
  <2>4. RightPassphraseOpens'
    BY <1>1, <2>2, <2>3 DEF Boot, Unseals, TypeOK, Blob, Task, Support, Storing, Saved, LayeredHasHalf, RightPassphraseOpens
  <2> QED BY <2>1, <2>2, <2>3, <2>4
<1>2. ASSUME AcknowledgeVanished PROVE IInv'
  <2>1. TypeOK'
    BY <1>2 DEF AcknowledgeVanished, TypeOK, Blob, Task, Quiet, Writing, Storing, Saved, Support
  <2>2. Support'
    BY <1>2 DEF AcknowledgeVanished, TypeOK, Blob, Task, Support, Storing, Saved, LayeredHasHalf
  <2>3. LayeredHasHalf' /\ SetupIsEmpty'
    BY <1>2 DEF AcknowledgeVanished, TypeOK, Blob, Task, Support, Storing, Saved, LayeredHasHalf, SetupIsEmpty
  <2>4. RightPassphraseOpens'
    BY <1>2, <2>2, <2>3 DEF AcknowledgeVanished, Unseals, TypeOK, Blob, Task, Support, Storing, Saved, LayeredHasHalf, RightPassphraseOpens
  <2> QED BY <2>1, <2>2, <2>3, <2>4
<1> QED BY <1>1, <1>2 DEF Launch

(* Every call of a making or a migration keeps it. *)
LEMMA MakingKeeps == ASSUME IInv, ~MayMiss, ~MayRearm, Making PROVE IInv'
<1> USE DEF IInv, keychain, past
<1>1. ASSUME NEW s \in Secret, NEW p \in Passphrase, BeginMake(s, p) PROVE IInv'
  <2>1. TypeOK'
    <3>1. pc' \in Quiet \cup Writing \cup {"off"}
      BY <1>1 DEF BeginMake, Quiet, Writing, Storing
    <3>2. [kind |-> "make", pass |-> p, secret |-> s, half |-> None, remember |-> FALSE] \in Task
      BY DEF Task
    <3>3. task \in Task
      BY DEF TypeOK
    <3>4. task' \in Task
      BY ONLY <1>1, <3>2, <3>3 DEF BeginMake
    <3> QED BY <1>1, <3>1, <3>4 DEF BeginMake, TypeOK
  <2>2. Support'
    BY <1>1 DEF BeginMake, TypeOK, Blob, Task, Support, Storing, Saved, LayeredHasHalf
  <2>3. LayeredHasHalf' /\ SetupIsEmpty'
    BY <1>1 DEF BeginMake, TypeOK, Blob, Task, Support, Storing, Saved, LayeredHasHalf, SetupIsEmpty
  <2>4. RightPassphraseOpens'
    BY <1>1, <2>2, <2>3 DEF BeginMake, Unseals, TypeOK, Blob, Task, Support, Storing, Saved, LayeredHasHalf, RightPassphraseOpens
  <2> QED BY <2>1, <2>2, <2>3, <2>4
<1>2. ASSUME ReadHalf PROVE IInv'
  <2>1. TypeOK'
    BY <1>2 DEF ReadHalf, Seen, Fresh, GivesUp, Home, TypeOK, Blob, Task, Quiet, Writing, Storing, Saved, Support
  <2>2. Support'
    BY <1>2 DEF ReadHalf, Seen, Fresh, GivesUp, Home, TypeOK, Blob, Task, Support, Storing, Saved, LayeredHasHalf
  <2>3. LayeredHasHalf' /\ SetupIsEmpty'
    BY <1>2 DEF ReadHalf, Seen, Fresh, GivesUp, Home, TypeOK, Blob, Task, Support, Storing, Saved, LayeredHasHalf, SetupIsEmpty
  <2>4. RightPassphraseOpens'
    BY <1>2, <2>2, <2>3 DEF ReadHalf, Seen, Fresh, GivesUp, Home, Unseals, TypeOK, Blob, Task, Support, Storing, Saved, LayeredHasHalf, RightPassphraseOpens
  <2> QED BY <2>1, <2>2, <2>3, <2>4
<1>3. ASSUME AddHalf PROVE IInv'
  <2>1. TypeOK'
    BY <1>3 DEF AddHalf, GivesUp, Home, Refusable, TypeOK, Blob, Task, Quiet, Writing, Storing, Saved, Support
  <2>2. Support'
    BY <1>3 DEF AddHalf, GivesUp, Home, Refusable, TypeOK, Blob, Task, Support, Storing, Saved, LayeredHasHalf
  <2>3. LayeredHasHalf' /\ SetupIsEmpty'
    BY <1>3 DEF AddHalf, GivesUp, Home, Refusable, TypeOK, Blob, Task, Support, Storing, Saved, LayeredHasHalf, SetupIsEmpty
  <2>4. RightPassphraseOpens'
    BY <1>3, <2>2, <2>3 DEF AddHalf, GivesUp, Home, Refusable, Unseals, TypeOK, Blob, Task, Support, Storing, Saved, LayeredHasHalf, RightPassphraseOpens
  <2> QED BY <2>1, <2>2, <2>3, <2>4
<1>4. ASSUME Seal PROVE IInv'
  <2>1. TypeOK'
    BY <1>4 DEF Seal, OldWay, GivesUp, Home, TypeOK, Blob, Task, Quiet, Writing, Storing, Saved, Support
  <2>2. Support'
    BY <1>4 DEF Seal, OldWay, GivesUp, Home, TypeOK, Blob, Task, Support, Storing, Saved, LayeredHasHalf
  <2>3. LayeredHasHalf' /\ SetupIsEmpty'
    BY <1>4 DEF Seal, OldWay, GivesUp, Home, TypeOK, Blob, Task, Support, Storing, Saved, LayeredHasHalf, SetupIsEmpty
  <2>4. RightPassphraseOpens'
    BY <1>4, <2>2, <2>3 DEF Seal, OldWay, GivesUp, Home, Unseals, TypeOK, Blob, Task, Support, Storing, Saved, LayeredHasHalf, RightPassphraseOpens
  <2> QED BY <2>1, <2>2, <2>3, <2>4
<1>5. ASSUME SaveDelete PROVE IInv'
  <2>1. TypeOK'
    BY <1>5 DEF SaveDelete, TypeOK, Blob, Task, Quiet, Writing, Storing, Saved, Support
  <2>2. Support'
    BY <1>5 DEF SaveDelete, TypeOK, Blob, Task, Support, Storing, Saved, LayeredHasHalf
  <2>3. LayeredHasHalf' /\ SetupIsEmpty'
    BY <1>5 DEF SaveDelete, TypeOK, Blob, Task, Support, Storing, Saved, LayeredHasHalf, SetupIsEmpty
  <2>4. RightPassphraseOpens'
    BY <1>5, <2>2, <2>3 DEF SaveDelete, Unseals, TypeOK, Blob, Task, Support, Storing, Saved, LayeredHasHalf, RightPassphraseOpens
  <2> QED BY <2>1, <2>2, <2>3, <2>4
<1>6. ASSUME SaveAdd PROVE IInv'
  <2>1. TypeOK'
    BY <1>6 DEF SaveAdd, GivesUp, Home, Refusable, TypeOK, Blob, Task, Quiet, Writing, Storing, Saved, Support
  <2>2. Support'
    BY <1>6 DEF SaveAdd, GivesUp, Home, Refusable, TypeOK, Blob, Task, Support, Storing, Saved, LayeredHasHalf
  <2>3. LayeredHasHalf' /\ SetupIsEmpty'
    BY <1>6 DEF SaveAdd, GivesUp, Home, Refusable, TypeOK, Blob, Task, Support, Storing, Saved, LayeredHasHalf, SetupIsEmpty
  <2>4. RightPassphraseOpens'
    BY <1>6, <2>2, <2>3 DEF SaveAdd, GivesUp, Home, Refusable, Unseals, TypeOK, Blob, Task, Support, Storing, Saved, LayeredHasHalf, RightPassphraseOpens
  <2> QED BY <2>1, <2>2, <2>3, <2>4
<1>7. ASSUME SaveUnwitness PROVE IInv'
  <2>1. TypeOK'
    BY <1>7 DEF SaveUnwitness, TypeOK, Blob, Task, Quiet, Writing, Storing, Saved, Support
  <2>2. Support'
    BY <1>7 DEF SaveUnwitness, TypeOK, Blob, Task, Support, Storing, Saved, LayeredHasHalf
  <2>3. LayeredHasHalf' /\ SetupIsEmpty'
    BY <1>7 DEF SaveUnwitness, TypeOK, Blob, Task, Support, Storing, Saved, LayeredHasHalf, SetupIsEmpty
  <2>4. RightPassphraseOpens'
    BY <1>7, <2>2, <2>3 DEF SaveUnwitness, Unseals, TypeOK, Blob, Task, Support, Storing, Saved, LayeredHasHalf, RightPassphraseOpens
  <2> QED BY <2>1, <2>2, <2>3, <2>4
<1>8. ASSUME SaveWitness PROVE IInv'
  <2>1. TypeOK'
    <3>1. witness' \in BOOLEAN
      BY <1>8 DEF SaveWitness
    <3>2. pc' \in Quiet \cup Writing \cup {"off"}
      BY <1>8 DEF SaveWitness, Home, Quiet, Writing
    <3>3. stored' \in Blob \cup {None}
      BY <1>8 DEF SaveWitness, TypeOK, Support, Blob, Task, Storing, Saved
    <3> QED BY <1>8, <3>1, <3>2, <3>3 DEF SaveWitness, TypeOK
  <2>2. Support'
    BY <1>8 DEF SaveWitness, Home, TypeOK, Blob, Task, Support, Storing, Saved, LayeredHasHalf
  <2>3. LayeredHasHalf' /\ SetupIsEmpty'
    BY <1>8 DEF SaveWitness, Home, TypeOK, Blob, Task, Support, Storing, Saved, LayeredHasHalf, SetupIsEmpty
  <2>4. RightPassphraseOpens'
    BY <1>8, <2>2, <2>3 DEF SaveWitness, Home, Unseals, TypeOK, Blob, Task, Support, Storing, Saved, LayeredHasHalf, RightPassphraseOpens
  <2> QED BY <2>1, <2>2, <2>3, <2>4
<1>9. ASSUME ReadBack PROVE IInv'
  <2>1. TypeOK'
    BY <1>9 DEF ReadBack, GivesUp, Home, Unseals, TypeOK, Blob, Task, Quiet, Writing, Storing, Saved, Support
  <2>2. Support'
    BY <1>9 DEF ReadBack, GivesUp, Home, Unseals, TypeOK, Blob, Task, Support, Storing, Saved, LayeredHasHalf
  <2>3. LayeredHasHalf' /\ SetupIsEmpty'
    BY <1>9 DEF ReadBack, GivesUp, Home, Unseals, TypeOK, Blob, Task, Support, Storing, Saved, LayeredHasHalf, SetupIsEmpty
  <2>4. RightPassphraseOpens'
    BY <1>9, <2>2, <2>3 DEF ReadBack, GivesUp, Home, Unseals, TypeOK, Blob, Task, Support, Storing, Saved, LayeredHasHalf, RightPassphraseOpens
  <2> QED BY <2>1, <2>2, <2>3, <2>4
<1> QED BY <1>1, <1>2, <1>3, <1>4, <1>5, <1>6, <1>7, <1>8, <1>9 DEF Making

(* Erasing keeps it: the blob goes before the half that opens it. *)
LEMMA ErasingKeeps == ASSUME IInv, ~MayMiss, ~MayRearm, Erasing PROVE IInv'
<1> USE DEF IInv, keychain, past
<1>1. ASSUME EraseVault PROVE IInv'
  <2>1. TypeOK'
    BY <1>1 DEF EraseVault, NoTask, TypeOK, Blob, Task, Quiet, Writing, Storing, Saved, Support
  <2>2. Support'
    BY <1>1 DEF EraseVault, NoTask, TypeOK, Blob, Task, Support, Storing, Saved, LayeredHasHalf
  <2>3. LayeredHasHalf' /\ SetupIsEmpty'
    BY <1>1 DEF EraseVault, NoTask, TypeOK, Blob, Task, Support, Storing, Saved, LayeredHasHalf, SetupIsEmpty
  <2>4. RightPassphraseOpens'
    BY <1>1, <2>2, <2>3 DEF EraseVault, NoTask, Unseals, TypeOK, Blob, Task, Support, Storing, Saved, LayeredHasHalf, RightPassphraseOpens
  <2> QED BY <2>1, <2>2, <2>3, <2>4
<1>2. ASSUME EraseBlob PROVE IInv'
  <2>1. TypeOK'
    BY <1>2 DEF EraseBlob, TypeOK, Blob, Task, Quiet, Writing, Storing, Saved, Support
  <2>2. Support'
    BY <1>2 DEF EraseBlob, TypeOK, Blob, Task, Support, Storing, Saved, LayeredHasHalf
  <2>3. LayeredHasHalf' /\ SetupIsEmpty'
    BY <1>2 DEF EraseBlob, TypeOK, Blob, Task, Support, Storing, Saved, LayeredHasHalf, SetupIsEmpty
  <2>4. RightPassphraseOpens'
    BY <1>2, <2>2, <2>3 DEF EraseBlob, Unseals, TypeOK, Blob, Task, Support, Storing, Saved, LayeredHasHalf, RightPassphraseOpens
  <2> QED BY <2>1, <2>2, <2>3, <2>4
<1>3. ASSUME EraseWitness PROVE IInv'
  <2>1. TypeOK'
    <3>1. witness' \in BOOLEAN
      BY <1>3 DEF EraseWitness
    <3>2. pc' \in Quiet \cup Writing \cup {"off"}
      BY <1>3 DEF EraseWitness, Quiet, Writing
    <3> QED BY <1>3, <3>1, <3>2 DEF EraseWitness, TypeOK
  <2>2. Support'
    BY <1>3 DEF EraseWitness, TypeOK, Blob, Task, Support, Storing, Saved, LayeredHasHalf
  <2>3. LayeredHasHalf' /\ SetupIsEmpty'
    BY <1>3 DEF EraseWitness, TypeOK, Blob, Task, Support, Storing, Saved, LayeredHasHalf, SetupIsEmpty
  <2>4. RightPassphraseOpens'
    BY <1>3, <2>2, <2>3 DEF EraseWitness, Unseals, TypeOK, Blob, Task, Support, Storing, Saved, LayeredHasHalf, RightPassphraseOpens
  <2> QED BY <2>1, <2>2, <2>3, <2>4
<1>4. ASSUME EraseDevice PROVE IInv'
  <2>1. TypeOK'
    BY <1>4 DEF EraseDevice, TypeOK, Blob, Task, Quiet, Writing, Storing, Saved, Support
  <2>2. Support'
    BY <1>4 DEF EraseDevice, TypeOK, Blob, Task, Support, Storing, Saved, LayeredHasHalf
  <2>3. LayeredHasHalf' /\ SetupIsEmpty'
    BY <1>4 DEF EraseDevice, TypeOK, Blob, Task, Support, Storing, Saved, LayeredHasHalf, SetupIsEmpty
  <2>4. RightPassphraseOpens'
    BY <1>4, <2>2, <2>3 DEF EraseDevice, Unseals, TypeOK, Blob, Task, Support, Storing, Saved, LayeredHasHalf, RightPassphraseOpens
  <2> QED BY <2>1, <2>2, <2>3, <2>4
<1>5. ASSUME EraseBio PROVE IInv'
  <2>1. TypeOK'
    BY <1>5 DEF EraseBio, TypeOK, Blob, Task, Quiet, Writing, Storing, Saved, Support
  <2>2. Support'
    BY <1>5 DEF EraseBio, TypeOK, Blob, Task, Support, Storing, Saved, LayeredHasHalf
  <2>3. LayeredHasHalf' /\ SetupIsEmpty'
    BY <1>5 DEF EraseBio, TypeOK, Blob, Task, Support, Storing, Saved, LayeredHasHalf, SetupIsEmpty
  <2>4. RightPassphraseOpens'
    BY <1>5, <2>2, <2>3 DEF EraseBio, Unseals, TypeOK, Blob, Task, Support, Storing, Saved, LayeredHasHalf, RightPassphraseOpens
  <2> QED BY <2>1, <2>2, <2>3, <2>4
<1> QED BY <1>1, <1>2, <1>3, <1>4, <1>5 DEF Erasing

(* Opening a vault and remembering its passphrase keep it. *)
LEMMA OpeningKeeps == ASSUME IInv, ~MayMiss, ~MayRearm, Opening PROVE IInv'
<1> USE DEF IInv, keychain, past
<1>1. ASSUME NEW p \in Passphrase, NEW r \in BOOLEAN, BeginOpen(p, r) PROVE IInv'
  <2>1. TypeOK'
    BY <1>1 DEF BeginOpen, Seen, TypeOK, Blob, Task, Quiet, Writing, Storing, Saved, Support
  <2>2. Support'
    BY <1>1 DEF BeginOpen, Seen, TypeOK, Blob, Task, Support, Storing, Saved, LayeredHasHalf
  <2>3. LayeredHasHalf' /\ SetupIsEmpty'
    BY <1>1 DEF BeginOpen, Seen, TypeOK, Blob, Task, Support, Storing, Saved, LayeredHasHalf, SetupIsEmpty
  <2>4. RightPassphraseOpens'
    BY <1>1, <2>2, <2>3 DEF BeginOpen, Seen, Unseals, TypeOK, Blob, Task, Support, Storing, Saved, LayeredHasHalf, RightPassphraseOpens
  <2> QED BY <2>1, <2>2, <2>3, <2>4
<1>2. ASSUME FinishOpen PROVE IInv'
  <2>1. TypeOK'
    BY <1>2 DEF FinishOpen, TypeOK, Blob, Task, Quiet, Writing, Storing, Saved, Support
  <2>2. Support'
    BY <1>2 DEF FinishOpen, TypeOK, Blob, Task, Support, Storing, Saved, LayeredHasHalf
  <2>3. LayeredHasHalf' /\ SetupIsEmpty'
    BY <1>2 DEF FinishOpen, TypeOK, Blob, Task, Support, Storing, Saved, LayeredHasHalf, SetupIsEmpty
  <2>4. RightPassphraseOpens'
    BY <1>2, <2>2, <2>3 DEF FinishOpen, Unseals, TypeOK, Blob, Task, Support, Storing, Saved, LayeredHasHalf, RightPassphraseOpens
  <2> QED BY <2>1, <2>2, <2>3, <2>4
<1>3. ASSUME BeginMigrate PROVE IInv'
  <2>1. TypeOK'
    BY <1>3 DEF BeginMigrate, Seen, Home, TypeOK, Blob, Task, Quiet, Writing, Storing, Saved, Support
  <2>2. Support'
    BY <1>3 DEF BeginMigrate, Seen, Home, TypeOK, Blob, Task, Support, Storing, Saved, LayeredHasHalf
  <2>3. LayeredHasHalf' /\ SetupIsEmpty'
    BY <1>3 DEF BeginMigrate, Seen, Home, TypeOK, Blob, Task, Support, Storing, Saved, LayeredHasHalf, SetupIsEmpty
  <2>4. RightPassphraseOpens'
    BY <1>3, <2>2, <2>3 DEF BeginMigrate, Seen, Home, Unseals, TypeOK, Blob, Task, Support, Storing, Saved, LayeredHasHalf, RightPassphraseOpens
  <2> QED BY <2>1, <2>2, <2>3, <2>4
<1>4. ASSUME EnrollForget PROVE IInv'
  <2>1. TypeOK'
    BY <1>4 DEF EnrollForget, TypeOK, Blob, Task, Quiet, Writing, Storing, Saved, Support
  <2>2. Support'
    BY <1>4 DEF EnrollForget, TypeOK, Blob, Task, Support, Storing, Saved, LayeredHasHalf
  <2>3. LayeredHasHalf' /\ SetupIsEmpty'
    BY <1>4 DEF EnrollForget, TypeOK, Blob, Task, Support, Storing, Saved, LayeredHasHalf, SetupIsEmpty
  <2>4. RightPassphraseOpens'
    BY <1>4, <2>2, <2>3 DEF EnrollForget, Unseals, TypeOK, Blob, Task, Support, Storing, Saved, LayeredHasHalf, RightPassphraseOpens
  <2> QED BY <2>1, <2>2, <2>3, <2>4
<1>5. ASSUME EnrollAdd PROVE IInv'
  <2>1. TypeOK'
    BY <1>5 DEF EnrollAdd, Refusable, TypeOK, Blob, Task, Quiet, Writing, Storing, Saved, Support
  <2>2. Support'
    BY <1>5 DEF EnrollAdd, Refusable, TypeOK, Blob, Task, Support, Storing, Saved, LayeredHasHalf
  <2>3. LayeredHasHalf' /\ SetupIsEmpty'
    BY <1>5 DEF EnrollAdd, Refusable, TypeOK, Blob, Task, Support, Storing, Saved, LayeredHasHalf, SetupIsEmpty
  <2>4. RightPassphraseOpens'
    BY <1>5, <2>2, <2>3 DEF EnrollAdd, Refusable, Unseals, TypeOK, Blob, Task, Support, Storing, Saved, LayeredHasHalf, RightPassphraseOpens
  <2> QED BY <2>1, <2>2, <2>3, <2>4
<1>6. ASSUME BioForgotten PROVE IInv'
  <2>1. TypeOK'
    BY <1>6 DEF BioForgotten, TypeOK, Blob, Task, Quiet, Writing, Storing, Saved, Support
  <2>2. Support'
    BY <1>6 DEF BioForgotten, TypeOK, Blob, Task, Support, Storing, Saved, LayeredHasHalf
  <2>3. LayeredHasHalf' /\ SetupIsEmpty'
    BY <1>6 DEF BioForgotten, TypeOK, Blob, Task, Support, Storing, Saved, LayeredHasHalf, SetupIsEmpty
  <2>4. RightPassphraseOpens'
    BY <1>6, <2>2, <2>3 DEF BioForgotten, Unseals, TypeOK, Blob, Task, Support, Storing, Saved, LayeredHasHalf, RightPassphraseOpens
  <2> QED BY <2>1, <2>2, <2>3, <2>4
<1>7. ASSUME Sleep PROVE IInv'
  <2>1. TypeOK'
    BY <1>7 DEF Sleep, TypeOK, Blob, Task, Quiet, Writing, Storing, Saved, Support
  <2>2. Support'
    BY <1>7 DEF Sleep, TypeOK, Blob, Task, Support, Storing, Saved, LayeredHasHalf
  <2>3. LayeredHasHalf' /\ SetupIsEmpty'
    BY <1>7 DEF Sleep, TypeOK, Blob, Task, Support, Storing, Saved, LayeredHasHalf, SetupIsEmpty
  <2>4. RightPassphraseOpens'
    BY <1>7, <2>2, <2>3 DEF Sleep, Unseals, TypeOK, Blob, Task, Support, Storing, Saved, LayeredHasHalf, RightPassphraseOpens
  <2> QED BY <2>1, <2>2, <2>3, <2>4
<1> QED BY <1>1, <1>2, <1>3, <1>4, <1>5, <1>6, <1>7 DEF Opening

(* A kill and the passcode keep it. *)
LEMMA PhoneKeeps == ASSUME IInv, ~MayMiss, ~MayRearm, Phone PROVE IInv'
<1> USE DEF IInv, keychain, past
<1>1. ASSUME Kill PROVE IInv'
  <2>1. TypeOK'
    BY <1>1 DEF Kill, NoTask, TypeOK, Blob, Task, Quiet, Writing, Storing, Saved, Support
  <2>2. Support'
    BY <1>1 DEF Kill, NoTask, TypeOK, Blob, Task, Support, Storing, Saved, LayeredHasHalf
  <2>3. LayeredHasHalf' /\ SetupIsEmpty'
    BY <1>1 DEF Kill, NoTask, TypeOK, Blob, Task, Support, Storing, Saved, LayeredHasHalf, SetupIsEmpty
  <2>4. RightPassphraseOpens'
    BY <1>1, <2>2, <2>3 DEF Kill, NoTask, Unseals, TypeOK, Blob, Task, Support, Storing, Saved, LayeredHasHalf, RightPassphraseOpens
  <2> QED BY <2>1, <2>2, <2>3, <2>4
<1>2. ASSUME PasscodeOff PROVE IInv'
  <2>1. TypeOK'
    <3>1. TypeOK
      OBVIOUS
    <3>2. vanished' \in BOOLEAN
      BY <1>2, <3>1 DEF PasscodeOff, TypeOK
    <3>3. /\ blob' = None /\ device' = None /\ bio' = None /\ kept' = None /\ passcode' = FALSE
          /\ witness' = witness /\ pc' = pc /\ task' = task /\ stored' = stored
      BY <1>2 DEF PasscodeOff
    <3> QED BY ONLY <3>1, <3>2, <3>3 DEF TypeOK
  <2>2. Support'
    BY <1>2 DEF PasscodeOff, TypeOK, Blob, Task, Support, Storing, Saved, LayeredHasHalf
  <2>3. LayeredHasHalf' /\ SetupIsEmpty'
    BY <1>2 DEF PasscodeOff, TypeOK, Blob, Task, Support, Storing, Saved, LayeredHasHalf, SetupIsEmpty
  <2>4. RightPassphraseOpens'
    BY <1>2, <2>2, <2>3 DEF PasscodeOff, Unseals, TypeOK, Blob, Task, Support, Storing, Saved, LayeredHasHalf, RightPassphraseOpens
  <2> QED BY <2>1, <2>2, <2>3, <2>4
<1>3. ASSUME PasscodeOn PROVE IInv'
  <2>1. TypeOK'
    BY <1>3 DEF PasscodeOn, Writing, TypeOK, Blob, Task, Quiet, Writing, Storing, Saved, Support
  <2>2. Support'
    BY <1>3 DEF PasscodeOn, Writing, TypeOK, Blob, Task, Support, Storing, Saved, LayeredHasHalf
  <2>3. LayeredHasHalf' /\ SetupIsEmpty'
    BY <1>3 DEF PasscodeOn, Writing, TypeOK, Blob, Task, Support, Storing, Saved, LayeredHasHalf, SetupIsEmpty
  <2>4. RightPassphraseOpens'
    BY <1>3, <2>2, <2>3 DEF PasscodeOn, Writing, Unseals, TypeOK, Blob, Task, Support, Storing, Saved, LayeredHasHalf, RightPassphraseOpens
  <2> QED BY <2>1, <2>2, <2>3, <2>4
<1> QED BY <1>1, <1>2, <1>3 DEF Phone

(* A launch that has not happened yet satisfies it. *)
LEMMA InitHolds == Init => IInv
<1> SUFFICES ASSUME Init PROVE IInv
  OBVIOUS
<1>1. NoTask \in Task
  BY DEF NoTask, Task
<1>2. TypeOK
  <2>1. blob \in Blob \cup {None} /\ kept \in Secret \cup {None}
    BY DEF Init, Blob
  <2>2. witness \in BOOLEAN /\ passcode \in BOOLEAN
    BY DEF Init
  <2> QED BY <1>1, <2>1, <2>2 DEF Init, TypeOK
<1>3. Support
  BY DEF Init, Support, NoTask, Storing, Saved
<1>4. LayeredHasHalf /\ SetupIsEmpty /\ RightPassphraseOpens
  BY DEF Init, LayeredHasHalf, SetupIsEmpty, RightPassphraseOpens, Blob
<1> QED BY <1>2, <1>3, <1>4 DEF IInv

(* And a step that changes nothing keeps it. *)
LEMMA StutterKeeps == IInv /\ UNCHANGED vars => IInv'
BY DEF IInv, vars, TypeOK, Support, LayeredHasHalf, SetupIsEmpty, RightPassphraseOpens, Unseals,
       Blob, Task, Quiet, Writing, Storing, Saved

(* sealAndOpen, migrateToLayeredScheme, erase, openVault: whatever is     *)
(* killed and whatever is refused, the process and the keychain stay in    *)
(* step.                                                                   *)
THEOREM Invariance == ~MayMiss /\ ~MayRearm => (Spec => []IInv)
<1> SUFFICES ASSUME ~MayMiss, ~MayRearm PROVE Spec => []IInv
  OBVIOUS
<1>1. IInv /\ [Next]_vars => IInv'
  <2> SUFFICES ASSUME IInv, [Next]_vars PROVE IInv'
    OBVIOUS
  <2>1. CASE Launch
    BY <2>1, LaunchKeeps
  <2>2. CASE Making
    BY <2>2, MakingKeeps
  <2>3. CASE Erasing
    BY <2>3, ErasingKeeps
  <2>4. CASE Opening
    BY <2>4, OpeningKeeps
  <2>5. CASE Phone
    BY <2>5, PhoneKeeps
  <2>6. CASE UNCHANGED vars
    BY <2>6, StutterKeeps
  <2> QED BY <2>1, <2>2, <2>3, <2>4, <2>5, <2>6 DEF Next
<1> QED BY InitHolds, <1>1, PTL DEF Spec

(* Every variable keeps its type. *)
THEOREM Typing == ~MayMiss /\ ~MayRearm => (Spec => []TypeOK)
<1>1. IInv => TypeOK
  BY DEF IInv
<1> QED BY Invariance, <1>1, PTL

(* sealAndOpen, migrateToLayeredScheme, SealedStore.erase: a blob sealed   *)
(* under a device half is never without that half.                         *)
THEOREM BlobHasItsHalf == ~MayMiss /\ ~MayRearm => (Spec => []LayeredHasHalf)
<1>1. IInv => LayeredHasHalf
  BY DEF IInv
<1> QED BY Invariance, <1>1, PTL

(* sealAndOpen: no failure of a making leaves a vault behind the setup     *)
(* screen.                                                                 *)
THEOREM SetupFindsNothing == ~MayMiss /\ ~MayRearm => (Spec => []SetupIsEmpty)
<1>1. IInv => SetupIsEmpty
  BY DEF IInv
<1> QED BY Invariance, <1>1, PTL

(* openVault: the right passphrase is never refused because a migration    *)
(* was cut short.                                                          *)
THEOREM PassphraseIsEnough == ~MayMiss /\ ~MayRearm => (Spec => []RightPassphraseOpens)
<1>1. IInv => RightPassphraseOpens
  BY DEF IInv
<1> QED BY Invariance, <1>1, PTL

(* A phone that never held a vault of the old kind never writes one, and  *)
(* no step between two vaults loses the one that is there.                 *)
LEMMA LayeredStep ==
  ASSUME ~MayMiss, ~MayRearm, IInv, LayeredOnly, [Next]_vars PROVE LayeredOnly'
<1> USE DEF LayeredOnly, IInv, Support, Storing, Saved, keychain, past
<1>1. CASE Launch
  BY <1>1 DEF Launch, Boot, AcknowledgeVanished
<1>2. CASE Making
  <2>1. ASSUME NEW s \in Secret, NEW p \in Passphrase, BeginMake(s, p) PROVE LayeredOnly'
    BY <2>1 DEF BeginMake
  <2>2. ASSUME ReadHalf PROVE LayeredOnly'
    BY <2>2 DEF ReadHalf, Seen, GivesUp, Home, TypeOK, Task
  <2>3. ASSUME AddHalf PROVE LayeredOnly'
    BY <2>3 DEF AddHalf, GivesUp, Home
  <2>4. ASSUME Seal PROVE LayeredOnly'
    BY <2>4 DEF Seal, OldWay, GivesUp, Home
  <2>5. ASSUME SaveDelete PROVE LayeredOnly'
    BY <2>5 DEF SaveDelete
  <2>6. ASSUME SaveAdd PROVE LayeredOnly'
    BY <2>6 DEF SaveAdd, GivesUp, Home
  <2>7. ASSUME SaveUnwitness PROVE LayeredOnly'
    BY <2>7 DEF SaveUnwitness
  <2>8. ASSUME SaveWitness PROVE LayeredOnly'
    BY <2>8 DEF SaveWitness, Home
  <2>9. ASSUME ReadBack PROVE LayeredOnly'
    BY <2>9 DEF ReadBack, GivesUp, Home
  <2> QED BY <1>2, <2>1, <2>2, <2>3, <2>4, <2>5, <2>6, <2>7, <2>8, <2>9 DEF Making
<1>3. CASE Erasing
  BY <1>3 DEF Erasing, EraseVault, EraseBlob, EraseWitness, EraseDevice, EraseBio, NoTask
<1>4. CASE Opening
  <2>1. ASSUME NEW p \in Passphrase, NEW r \in BOOLEAN, BeginOpen(p, r) PROVE LayeredOnly'
    BY <2>1 DEF BeginOpen
  <2>2. ASSUME FinishOpen PROVE LayeredOnly'
    BY <2>2 DEF FinishOpen, TypeOK, Task
  <2>3. ASSUME BeginMigrate PROVE LayeredOnly'
    BY <2>3 DEF BeginMigrate, Home
  <2>4. ASSUME EnrollForget \/ EnrollAdd \/ BioForgotten \/ Sleep PROVE LayeredOnly'
    BY <2>4 DEF EnrollForget, EnrollAdd, BioForgotten, Sleep
  <2> QED BY <1>4, <2>1, <2>2, <2>3, <2>4 DEF Opening
<1>5. CASE Phone
  BY <1>5 DEF Phone, Kill, PasscodeOff, PasscodeOn, NoTask
<1>6. CASE UNCHANGED vars
  BY <1>6 DEF vars
<1> QED BY <1>1, <1>2, <1>3, <1>4, <1>5, <1>6 DEF Next

(* sealAndOpen, SealedStore.save, eraseVault: on a phone whose vault was   *)
(* made under a device secret, no kill and no refused call loses what the  *)
(* person was shown, or the half that opens it.                            *)
THEOREM KeysAreKept == ~FromOldBuild /\ ~MayMiss /\ ~MayRearm => (Spec => []KeysSurvive)
<1> SUFFICES ASSUME ~FromOldBuild, ~MayMiss, ~MayRearm PROVE Spec => []KeysSurvive
  OBVIOUS
<1>1. Init => LayeredOnly
  BY DEF Init, LayeredOnly, Saved
<1>2. IInv /\ LayeredOnly /\ [Next]_vars => LayeredOnly'
  BY LayeredStep
<1>3. IInv /\ LayeredOnly => KeysSurvive
  BY DEF IInv, LayeredOnly, LayeredHasHalf, KeysSurvive
<1>4. Spec => []IInv
  BY Invariance
<1> QED BY <1>1, <1>2, <1>3, <1>4, PTL DEF Spec

(* What a migration holds is what the process opened, and from the point   *)
(* the engine has resealed it, that was a vault of the old scheme.         *)
MigratesWhatItOpened ==
  /\ task = [kind |-> task.kind, pass |-> task.pass, secret |-> task.secret,
             half |-> task.half, remember |-> task.remember]
  /\ pc \in {"open", "opened"} => task.kind = "migrate"
  /\ task.kind = "migrate" /\ pc \in Storing \cup {"opened"}
       => task.secret = stored.secret /\ task.pass = stored.pass
  /\ task.kind = "migrate" /\ pc \in {"delete", "add"} => stored.half = None

(* Every step keeps it, with every fault of the phone at work.             *)
LEMMA MigratingKeeps ==
  ASSUME MigratesWhatItOpened, [Next]_vars PROVE MigratesWhatItOpened'
<1> USE DEF MigratesWhatItOpened, Storing, keychain, past
<1>1. CASE Launch
  BY <1>1 DEF Launch, Boot, AcknowledgeVanished
<1>2. CASE Making
  <2>1. ASSUME NEW s \in Secret, NEW p \in Passphrase, BeginMake(s, p)
        PROVE  MigratesWhatItOpened'
    BY <2>1 DEF BeginMake
  <2>2. ASSUME ReadHalf PROVE MigratesWhatItOpened'
    BY <2>2 DEF ReadHalf, GivesUp, Home
  <2>3. ASSUME AddHalf PROVE MigratesWhatItOpened'
    BY <2>3 DEF AddHalf, GivesUp, Home
  <2>4. ASSUME Seal PROVE MigratesWhatItOpened'
    BY <2>4 DEF Seal, OldWay, GivesUp, Home
  <2>5. ASSUME SaveDelete \/ SaveAdd \/ SaveUnwitness PROVE MigratesWhatItOpened'
    BY <2>5 DEF SaveDelete, SaveAdd, SaveUnwitness, GivesUp, Home
  <2>6. ASSUME SaveWitness \/ ReadBack PROVE MigratesWhatItOpened'
    BY <2>6 DEF SaveWitness, ReadBack, GivesUp, Home
  <2> QED BY <1>2, <2>1, <2>2, <2>3, <2>4, <2>5, <2>6 DEF Making
<1>3. CASE Erasing
  BY <1>3 DEF Erasing, EraseVault, EraseBlob, EraseWitness, EraseDevice, EraseBio, NoTask
<1>4. CASE Opening
  <2>1. ASSUME NEW p \in Passphrase, NEW r \in BOOLEAN, BeginOpen(p, r)
        PROVE  MigratesWhatItOpened'
    BY <2>1 DEF BeginOpen
  <2>2. ASSUME FinishOpen PROVE MigratesWhatItOpened'
    BY <2>2 DEF FinishOpen, Unseals
  <2>3. ASSUME BeginMigrate PROVE MigratesWhatItOpened'
    BY <2>3 DEF BeginMigrate, Home
  <2>4. ASSUME EnrollForget \/ EnrollAdd \/ BioForgotten \/ Sleep PROVE MigratesWhatItOpened'
    BY <2>4 DEF EnrollForget, EnrollAdd, BioForgotten, Sleep
  <2> QED BY <1>4, <2>1, <2>2, <2>3, <2>4 DEF Opening
<1>5. CASE Phone
  BY <1>5 DEF Phone, Kill, PasscodeOff, PasscodeOn, NoTask
<1>6. CASE UNCHANGED vars
  BY <1>6 DEF vars
<1> QED BY <1>1, <1>2, <1>3, <1>4, <1>5, <1>6 DEF Next

(* migrateToLayeredScheme: "The secret is not re-drawn".  On any phone,    *)
(* whatever its keychain misses, refuses or is killed in the middle of, a  *)
(* migration writes only the vault just opened, over one of the old kind.  *)
THEOREM MigrationIsFaithful == Spec => MigrationKeepsTheVault
<1> DEFINE Faithful ==
      task.kind = "migrate" /\ pc \in {"delete", "add"} /\ blob' # blob /\ passcode'
        => /\ stored.half = None
           /\ blob' # None => blob'.secret = stored.secret /\ blob'.pass = stored.pass
<1>1. Init => MigratesWhatItOpened
  BY DEF Init, NoTask, MigratesWhatItOpened, Storing
<1>2. MigratesWhatItOpened /\ [Next]_vars => MigratesWhatItOpened'
  BY MigratingKeeps
<1>3. MigratesWhatItOpened /\ [Next]_vars => [Faithful]_vars
  <2> SUFFICES ASSUME MigratesWhatItOpened, Next, task.kind = "migrate",
                      pc \in {"delete", "add"}, blob' # blob, passcode'
               PROVE  Faithful
    OBVIOUS
  <2> USE DEF MigratesWhatItOpened, Storing, keychain
  <2>1. CASE Making
    <3>1. CASE SaveDelete
      BY <3>1 DEF SaveDelete
    <3>2. CASE SaveAdd
      <4>1. \/ blob' = blob
            \/ blob' = [secret |-> task.secret, pass |-> task.pass, half |-> task.half]
        BY <3>2 DEF SaveAdd
      <4> QED BY <4>1
    <3>3. CASE ReadHalf \/ AddHalf \/ Seal \/ SaveUnwitness \/ SaveWitness \/ ReadBack
      BY <3>3 DEF ReadHalf, AddHalf, Seal, SaveUnwitness, SaveWitness, ReadBack
    <3>4. ASSUME NEW s \in Secret, NEW p \in Passphrase, BeginMake(s, p) PROVE Faithful
      BY <3>4 DEF BeginMake
    <3> QED BY <2>1, <3>1, <3>2, <3>3, <3>4 DEF Making
  <2>2. CASE Launch \/ Erasing \/ Opening
    BY <2>2 DEF Launch, Boot, AcknowledgeVanished, Erasing, EraseVault, EraseBlob,
       EraseWitness, EraseDevice, EraseBio, Opening, BeginOpen, FinishOpen, BeginMigrate,
       EnrollForget, EnrollAdd, BioForgotten, Sleep
  <2>3. CASE Phone
    BY <2>3 DEF Phone, Kill, PasscodeOff, PasscodeOn
  <2> QED BY <2>1, <2>2, <2>3 DEF Next
<1> QED BY <1>1, <1>2, <1>3, PTL DEF Spec, MigrationKeepsTheVault

(* Where no task is cut short, a step leaves nothing of a vault that is    *)
(* gone: what is deleted one item at a time is gone when the task ends.    *)
LEMMA BoundToPasscodeKeeps ==
  ASSUME Undisturbed, IInv, Unhurried, [Next]_vars PROVE BoundToPasscode'
<1> USE DEF Undisturbed, IInv, Unhurried, Support, LayeredHasHalf, SetupIsEmpty, Storing,
            Saved, Quiet, keychain, past, BoundToPasscode, InStep
<1>1. CASE Launch
  BY <1>1 DEF Launch, Boot, AcknowledgeVanished
<1>2. CASE Making
  <2>1. ASSUME NEW s \in Secret, NEW p \in Passphrase, BeginMake(s, p) PROVE BoundToPasscode'
    BY <2>1 DEF BeginMake
  <2>2. ASSUME ReadHalf PROVE BoundToPasscode'
    BY <2>2 DEF ReadHalf, Seen, GivesUp, Home, TypeOK, Task, Blob
  <2>3. ASSUME AddHalf PROVE BoundToPasscode'
    BY <2>3 DEF AddHalf, GivesUp, Home, Refusable
  <2>4. ASSUME Seal PROVE BoundToPasscode'
    BY <2>4 DEF Seal, OldWay, GivesUp, Home, Refusable
  <2>5. ASSUME SaveDelete PROVE BoundToPasscode'
    BY <2>5 DEF SaveDelete
  <2>6. ASSUME SaveAdd PROVE BoundToPasscode'
    BY <2>6 DEF SaveAdd, GivesUp, Home, Refusable
  <2>7. ASSUME SaveUnwitness PROVE BoundToPasscode'
    BY <2>7 DEF SaveUnwitness
  <2>8. ASSUME SaveWitness PROVE BoundToPasscode'
    BY <2>8 DEF SaveWitness, Home
  <2>9. ASSUME ReadBack PROVE BoundToPasscode'
    BY <2>9 DEF ReadBack, Unseals, GivesUp, Home, Refusable
  <2> QED BY <1>2, <2>1, <2>2, <2>3, <2>4, <2>5, <2>6, <2>7, <2>8, <2>9 DEF Making
<1>3. CASE Erasing
  <2>1. ASSUME EraseVault PROVE BoundToPasscode'
    <3>1. task'.kind = "erase"
      BY <2>1 DEF EraseVault, NoTask
    <3> QED BY <2>1, <3>1 DEF EraseVault
  <2>2. ASSUME EraseBlob \/ EraseWitness PROVE BoundToPasscode'
    BY <2>2 DEF EraseBlob, EraseWitness
  <2>3. ASSUME EraseDevice PROVE BoundToPasscode'
    BY <2>3 DEF EraseDevice, KeptOrTold
  <2>4. ASSUME EraseBio PROVE BoundToPasscode'
    BY <2>4 DEF EraseBio
  <2> QED BY <1>3, <2>1, <2>2, <2>3, <2>4 DEF Erasing
<1>4. CASE Opening
  <2>1. ASSUME NEW p \in Passphrase, NEW r \in BOOLEAN, BeginOpen(p, r) PROVE BoundToPasscode'
    BY <2>1 DEF BeginOpen, Seen
  <2>2. ASSUME FinishOpen PROVE BoundToPasscode'
    BY <2>2 DEF FinishOpen, Unseals, TypeOK, Task, Blob
  <2>3. ASSUME BeginMigrate PROVE BoundToPasscode'
    BY <2>3 DEF BeginMigrate, Seen, Home
  <2>4. ASSUME EnrollForget \/ EnrollAdd PROVE BoundToPasscode'
    BY <2>4 DEF EnrollForget, EnrollAdd, Refusable
  <2>5. ASSUME BioForgotten \/ Sleep PROVE BoundToPasscode'
    BY <2>5 DEF BioForgotten, Sleep
  <2> QED BY <1>4, <2>1, <2>2, <2>3, <2>4, <2>5 DEF Opening
<1>5. CASE Kill
  BY <1>5 DEF Kill, NoTask
<1>6. CASE PasscodeOff
  BY <1>6 DEF PasscodeOff
<1>7. CASE PasscodeOn
  BY <1>7 DEF PasscodeOn, Writing
<1>8. CASE UNCHANGED vars
  BY <1>8 DEF vars
<1> QED BY <1>1, <1>2, <1>3, <1>4, <1>5, <1>6, <1>7, <1>8 DEF Next, Phone

(* It keeps the process and the keychain speaking of one vault.            *)
LEMMA InStepKeeps ==
  ASSUME Undisturbed, IInv, Unhurried, [Next]_vars PROVE InStep'
<1> USE DEF Undisturbed, IInv, Unhurried, Support, LayeredHasHalf, SetupIsEmpty, Storing,
            Saved, Quiet, keychain, past, InStep, BoundToPasscode
<1>1. CASE Launch
  BY <1>1 DEF Launch, Boot, AcknowledgeVanished
<1>2. CASE Making
  <2>1. ASSUME NEW s \in Secret, NEW p \in Passphrase, BeginMake(s, p) PROVE InStep'
    BY <2>1 DEF BeginMake
  <2>2. ASSUME ReadHalf PROVE InStep'
    BY <2>2 DEF ReadHalf, Seen, GivesUp, Home, TypeOK, Task, Blob
  <2>3. ASSUME AddHalf PROVE InStep'
    BY <2>3 DEF AddHalf, GivesUp, Home, Refusable
  <2>4. ASSUME Seal PROVE InStep'
    BY <2>4 DEF Seal, OldWay, GivesUp, Home, Refusable
  <2>5. ASSUME SaveDelete PROVE InStep'
    BY <2>5 DEF SaveDelete
  <2>6. ASSUME SaveAdd PROVE InStep'
    <3> DEFINE new == [secret |-> task.secret, pass |-> task.pass, half |-> task.half]
    <3>1. pc = "add" /\ new \in Blob
      BY <2>6 DEF SaveAdd, Storing, TypeOK, Support, Task, Blob
    <3>2. new # None /\ new.secret = task.secret
      BY <3>1, SealedVaultAssumption DEF Blob
    <3>3. CASE passcode /\ pc' = "unwitness" /\ blob' = new
      BY <2>6, <3>1, <3>2, <3>3 DEF SaveAdd
    <3>4. CASE ~passcode /\ GivesUp /\ UNCHANGED blob
      BY <2>6, <3>4 DEF SaveAdd, GivesUp, Home
    <3> QED BY <2>6, <3>3, <3>4 DEF SaveAdd, Refusable
  <2>7. ASSUME SaveUnwitness PROVE InStep'
    BY <2>7 DEF SaveUnwitness
  <2>8. ASSUME SaveWitness PROVE InStep'
    BY <2>8 DEF SaveWitness, Home
  <2>9. ASSUME ReadBack PROVE InStep'
    BY <2>9 DEF ReadBack, Unseals, GivesUp, Home, Refusable
  <2> QED BY <1>2, <2>1, <2>2, <2>3, <2>4, <2>5, <2>6, <2>7, <2>8, <2>9 DEF Making
<1>3. CASE Erasing
  BY <1>3 DEF Erasing, EraseVault, EraseBlob, EraseWitness, EraseDevice, EraseBio, NoTask
<1>4. CASE Opening
  <2>1. ASSUME NEW p \in Passphrase, NEW r \in BOOLEAN, BeginOpen(p, r) PROVE InStep'
    BY <2>1 DEF BeginOpen, Seen
  <2>2. ASSUME FinishOpen PROVE InStep'
    BY <2>2 DEF FinishOpen, Unseals, TypeOK, Task, Blob
  <2>3. ASSUME BeginMigrate PROVE InStep'
    BY <2>3 DEF BeginMigrate, Seen, Home
  <2>4. ASSUME EnrollForget \/ EnrollAdd PROVE InStep'
    BY <2>4 DEF EnrollForget, EnrollAdd, Refusable
  <2>5. ASSUME BioForgotten \/ Sleep PROVE InStep'
    BY <2>5 DEF BioForgotten, Sleep
  <2> QED BY <1>4, <2>1, <2>2, <2>3, <2>4, <2>5 DEF Opening
<1>5. CASE Kill
  BY <1>5 DEF Kill, NoTask
<1>6. CASE PasscodeOff
  BY <1>6 DEF PasscodeOff
<1>7. CASE PasscodeOn
  BY <1>7 DEF PasscodeOn, Writing
<1>8. CASE UNCHANGED vars
  BY <1>8 DEF vars
<1> QED BY <1>1, <1>2, <1>3, <1>4, <1>5, <1>6, <1>7, <1>8 DEF Next, Phone

(* It keeps a face opening the vault that is here.                         *)
LEMMA FaceOpensKeeps ==
  ASSUME Undisturbed, IInv, Unhurried, [Next]_vars PROVE FaceOpens'
<1> USE DEF Undisturbed, IInv, Unhurried, Support, LayeredHasHalf, SetupIsEmpty, Storing,
            Saved, Quiet, keychain, past, FaceOpens, StoredPassphraseOpens, BoundToPasscode, InStep
<1>1. CASE Launch
  BY <1>1 DEF Launch, Boot, AcknowledgeVanished
<1>2. CASE Making
  <2>1. ASSUME NEW s \in Secret, NEW p \in Passphrase, BeginMake(s, p) PROVE FaceOpens'
    BY <2>1 DEF BeginMake
  <2>2. ASSUME ReadHalf PROVE FaceOpens'
    BY <2>2 DEF ReadHalf, Seen, GivesUp, Home, TypeOK, Task, Blob
  <2>3. ASSUME AddHalf PROVE FaceOpens'
    BY <2>3 DEF AddHalf, GivesUp, Home, Refusable
  <2>4. ASSUME Seal PROVE FaceOpens'
    BY <2>4 DEF Seal, OldWay, GivesUp, Home, Refusable
  <2>5. ASSUME SaveDelete PROVE FaceOpens'
    BY <2>5 DEF SaveDelete
  <2>6. ASSUME SaveAdd PROVE FaceOpens'
    BY <2>6 DEF SaveAdd, GivesUp, Home, Refusable
  <2>7. ASSUME SaveUnwitness PROVE FaceOpens'
    BY <2>7 DEF SaveUnwitness
  <2>8. ASSUME SaveWitness PROVE FaceOpens'
    BY <2>8 DEF SaveWitness, Home
  <2>9. ASSUME ReadBack PROVE FaceOpens'
    BY <2>9 DEF ReadBack, Unseals, GivesUp, Home, Refusable
  <2> QED BY <1>2, <2>1, <2>2, <2>3, <2>4, <2>5, <2>6, <2>7, <2>8, <2>9 DEF Making
<1>3. CASE Erasing
  BY <1>3 DEF Erasing, EraseVault, EraseBlob, EraseWitness, EraseDevice, EraseBio, NoTask
<1>4. CASE Opening
  <2>1. ASSUME NEW p \in Passphrase, NEW r \in BOOLEAN, BeginOpen(p, r) PROVE FaceOpens'
    BY <2>1 DEF BeginOpen, Seen
  <2>2. ASSUME FinishOpen PROVE FaceOpens'
    BY <2>2 DEF FinishOpen, Unseals, TypeOK, Task, Blob
  <2>3. ASSUME BeginMigrate PROVE FaceOpens'
    BY <2>3 DEF BeginMigrate, Seen, Home
  <2>4. ASSUME EnrollForget \/ EnrollAdd PROVE FaceOpens'
    BY <2>4 DEF EnrollForget, EnrollAdd, Refusable
  <2>5. ASSUME BioForgotten \/ Sleep PROVE FaceOpens'
    BY <2>5 DEF BioForgotten, Sleep
  <2> QED BY <1>4, <2>1, <2>2, <2>3, <2>4, <2>5 DEF Opening
<1>5. CASE Kill
  BY <1>5 DEF Kill, NoTask
<1>6. CASE PasscodeOff
  BY <1>6 DEF PasscodeOff
<1>7. CASE PasscodeOn
  BY <1>7 DEF PasscodeOn, Writing
<1>8. CASE UNCHANGED vars
  BY <1>8 DEF vars
<1> QED BY <1>1, <1>2, <1>3, <1>4, <1>5, <1>6, <1>7, <1>8 DEF Next, Phone

(* It leaves no blob of the old scheme behind an opening.                  *)
LEMMA OldMeansMigratingKeeps ==
  ASSUME Undisturbed, IInv, Unhurried, [Next]_vars PROVE OldMeansMigrating'
<1> USE DEF Undisturbed, IInv, Unhurried, Support, LayeredHasHalf, SetupIsEmpty, Storing,
            Saved, Quiet, keychain, past, OldMeansMigrating, BoundToPasscode, InStep
<1>1. CASE Launch
  BY <1>1 DEF Launch, Boot, AcknowledgeVanished
<1>2. CASE Making
  <2>1. ASSUME NEW s \in Secret, NEW p \in Passphrase, BeginMake(s, p) PROVE OldMeansMigrating'
    BY <2>1 DEF BeginMake
  <2>2. ASSUME ReadHalf PROVE OldMeansMigrating'
    BY <2>2 DEF ReadHalf, Seen, GivesUp, Home, TypeOK, Task, Blob
  <2>3. ASSUME AddHalf PROVE OldMeansMigrating'
    BY <2>3 DEF AddHalf, GivesUp, Home, Refusable
  <2>4. ASSUME Seal PROVE OldMeansMigrating'
    BY <2>4 DEF Seal, OldWay, GivesUp, Home, Refusable
  <2>5. ASSUME SaveDelete PROVE OldMeansMigrating'
    BY <2>5 DEF SaveDelete
  <2>6. ASSUME SaveAdd PROVE OldMeansMigrating'
    BY <2>6 DEF SaveAdd, GivesUp, Home, Refusable
  <2>7. ASSUME SaveUnwitness PROVE OldMeansMigrating'
    BY <2>7 DEF SaveUnwitness
  <2>8. ASSUME SaveWitness PROVE OldMeansMigrating'
    BY <2>8 DEF SaveWitness, Home
  <2>9. ASSUME ReadBack PROVE OldMeansMigrating'
    BY <2>9 DEF ReadBack, Unseals, GivesUp, Home, Refusable
  <2> QED BY <1>2, <2>1, <2>2, <2>3, <2>4, <2>5, <2>6, <2>7, <2>8, <2>9 DEF Making
<1>3. CASE Erasing
  BY <1>3 DEF Erasing, EraseVault, EraseBlob, EraseWitness, EraseDevice, EraseBio, NoTask
<1>4. CASE Opening
  <2>1. ASSUME NEW p \in Passphrase, NEW r \in BOOLEAN, BeginOpen(p, r) PROVE OldMeansMigrating'
    BY <2>1 DEF BeginOpen, Seen
  <2>2. ASSUME FinishOpen PROVE OldMeansMigrating'
    BY <2>2 DEF FinishOpen, Unseals, TypeOK, Task, Blob
  <2>3. ASSUME BeginMigrate PROVE OldMeansMigrating'
    BY <2>3 DEF BeginMigrate, Seen, Home
  <2>4. ASSUME EnrollForget \/ EnrollAdd PROVE OldMeansMigrating'
    BY <2>4 DEF EnrollForget, EnrollAdd, Refusable
  <2>5. ASSUME BioForgotten \/ Sleep PROVE OldMeansMigrating'
    BY <2>5 DEF BioForgotten, Sleep
  <2> QED BY <1>4, <2>1, <2>2, <2>3, <2>4, <2>5 DEF Opening
<1>5. CASE Kill
  BY <1>5 DEF Kill, NoTask
<1>6. CASE PasscodeOff
  BY <1>6 DEF PasscodeOff
<1>7. CASE PasscodeOn
  BY <1>7 DEF PasscodeOn, Writing
<1>8. CASE UNCHANGED vars
  BY <1>8 DEF vars
<1> QED BY <1>1, <1>2, <1>3, <1>4, <1>5, <1>6, <1>7, <1>8 DEF Next, Phone

(* And it keeps what the person was shown, or tells them.                  *)
LEMMA KeptOrToldKeeps ==
  ASSUME Undisturbed, IInv, Unhurried, [Next]_vars PROVE KeptOrTold'
<1> USE DEF Undisturbed, IInv, Unhurried, Support, LayeredHasHalf, SetupIsEmpty, Storing,
            Saved, Quiet, keychain, past, KeptOrTold, BoundToPasscode, InStep
<1>1. CASE Launch
  BY <1>1 DEF Launch, Boot, AcknowledgeVanished
<1>2. CASE Making
  <2>1. ASSUME NEW s \in Secret, NEW p \in Passphrase, BeginMake(s, p) PROVE KeptOrTold'
    BY <2>1 DEF BeginMake
  <2>2. ASSUME ReadHalf PROVE KeptOrTold'
    BY <2>2 DEF ReadHalf, Seen, GivesUp, Home, TypeOK, Task, Blob
  <2>3. ASSUME AddHalf PROVE KeptOrTold'
    BY <2>3 DEF AddHalf, GivesUp, Home, Refusable
  <2>4. ASSUME Seal PROVE KeptOrTold'
    BY <2>4 DEF Seal, OldWay, GivesUp, Home, Refusable
  <2>5. ASSUME SaveDelete PROVE KeptOrTold'
    BY <2>5 DEF SaveDelete
  <2>6. ASSUME SaveAdd PROVE KeptOrTold'
    <3> DEFINE new == [secret |-> task.secret, pass |-> task.pass, half |-> task.half]
    <3>1. pc = "add" /\ new \in Blob
      BY <2>6 DEF SaveAdd, Storing, TypeOK, Support, Task, Blob
    <3>2. new # None /\ new.secret = task.secret
      BY <3>1, SealedVaultAssumption DEF Blob
    <3>3. CASE passcode /\ pc' = "unwitness" /\ blob' = new
      BY <2>6, <3>1, <3>2, <3>3 DEF SaveAdd
    <3>4. CASE ~passcode /\ GivesUp /\ UNCHANGED blob
      BY <2>6, <3>4 DEF SaveAdd, GivesUp, Home
    <3> QED BY <2>6, <3>3, <3>4 DEF SaveAdd, Refusable
  <2>7. ASSUME SaveUnwitness PROVE KeptOrTold'
    BY <2>7 DEF SaveUnwitness
  <2>8. ASSUME SaveWitness PROVE KeptOrTold'
    BY <2>8 DEF SaveWitness, Home
  <2>9. ASSUME ReadBack PROVE KeptOrTold'
    BY <2>9 DEF ReadBack, Unseals, GivesUp, Home, Refusable
  <2> QED BY <1>2, <2>1, <2>2, <2>3, <2>4, <2>5, <2>6, <2>7, <2>8, <2>9 DEF Making
<1>3. CASE Erasing
  BY <1>3 DEF Erasing, EraseVault, EraseBlob, EraseWitness, EraseDevice, EraseBio, NoTask
<1>4. CASE Opening
  <2>1. ASSUME NEW p \in Passphrase, NEW r \in BOOLEAN, BeginOpen(p, r) PROVE KeptOrTold'
    BY <2>1 DEF BeginOpen, Seen
  <2>2. ASSUME FinishOpen PROVE KeptOrTold'
    BY <2>2 DEF FinishOpen, Unseals, TypeOK, Task, Blob
  <2>3. ASSUME BeginMigrate PROVE KeptOrTold'
    BY <2>3 DEF BeginMigrate, Seen, Home
  <2>4. ASSUME EnrollForget \/ EnrollAdd PROVE KeptOrTold'
    BY <2>4 DEF EnrollForget, EnrollAdd, Refusable
  <2>5. ASSUME BioForgotten \/ Sleep PROVE KeptOrTold'
    BY <2>5 DEF BioForgotten, Sleep
  <2> QED BY <1>4, <2>1, <2>2, <2>3, <2>4, <2>5 DEF Opening
<1>5. CASE Kill
  BY <1>5 DEF Kill, NoTask
<1>6. CASE PasscodeOff
  BY <1>6 DEF PasscodeOff
<1>7. CASE PasscodeOn
  BY <1>7 DEF PasscodeOn, Writing
<1>8. CASE UNCHANGED vars
  BY <1>8 DEF vars
<1> QED BY <1>1, <1>2, <1>3, <1>4, <1>5, <1>6, <1>7, <1>8 DEF Next, Phone

(* And it keeps the witness beside what the app works on.                  *)
LEMMA WitnessedKeeps ==
  ASSUME Undisturbed, IInv, Unhurried, [Next]_vars PROVE Witnessed'
<1> USE DEF Undisturbed, IInv, Unhurried, Support, LayeredHasHalf, SetupIsEmpty, Storing,
            Saved, Quiet, keychain, past, Witnessed, KeptOrTold, BoundToPasscode, InStep
<1>1. CASE Launch
  BY <1>1 DEF Launch, Boot, AcknowledgeVanished
<1>2. CASE Making
  <2>1. ASSUME NEW s \in Secret, NEW p \in Passphrase, BeginMake(s, p) PROVE Witnessed'
    BY <2>1 DEF BeginMake
  <2>2. ASSUME ReadHalf PROVE Witnessed'
    BY <2>2 DEF ReadHalf, Seen, GivesUp, Home, TypeOK, Task, Blob
  <2>3. ASSUME AddHalf PROVE Witnessed'
    BY <2>3 DEF AddHalf, GivesUp, Home, Refusable
  <2>4. ASSUME Seal PROVE Witnessed'
    BY <2>4 DEF Seal, OldWay, GivesUp, Home, Refusable
  <2>5. ASSUME SaveDelete PROVE Witnessed'
    BY <2>5 DEF SaveDelete
  <2>6. ASSUME SaveAdd PROVE Witnessed'
    <3> DEFINE new == [secret |-> task.secret, pass |-> task.pass, half |-> task.half]
    <3>1. pc = "add" /\ new \in Blob
      BY <2>6 DEF SaveAdd, Storing, TypeOK, Support, Task, Blob
    <3>2. new # None /\ new.secret = task.secret
      BY <3>1, SealedVaultAssumption DEF Blob
    <3>3. CASE passcode /\ pc' = "unwitness" /\ blob' = new
      BY <2>6, <3>1, <3>2, <3>3 DEF SaveAdd
    <3>4. CASE ~passcode /\ GivesUp /\ UNCHANGED blob
      BY <2>6, <3>4 DEF SaveAdd, GivesUp, Home
    <3> QED BY <2>6, <3>3, <3>4 DEF SaveAdd, Refusable
  <2>7. ASSUME SaveUnwitness PROVE Witnessed'
    BY <2>7 DEF SaveUnwitness
  <2>8. ASSUME SaveWitness PROVE Witnessed'
    BY <2>8 DEF SaveWitness, Home
  <2>9. ASSUME ReadBack PROVE Witnessed'
    BY <2>9 DEF ReadBack, Unseals, GivesUp, Home, Refusable
  <2> QED BY <1>2, <2>1, <2>2, <2>3, <2>4, <2>5, <2>6, <2>7, <2>8, <2>9 DEF Making
<1>3. CASE Erasing
  BY <1>3 DEF Erasing, EraseVault, EraseBlob, EraseWitness, EraseDevice, EraseBio, NoTask
<1>4. CASE Opening
  <2>1. ASSUME NEW p \in Passphrase, NEW r \in BOOLEAN, BeginOpen(p, r) PROVE Witnessed'
    BY <2>1 DEF BeginOpen, Seen
  <2>2. ASSUME FinishOpen PROVE Witnessed'
    BY <2>2 DEF FinishOpen, Unseals, TypeOK, Task, Blob
  <2>3. ASSUME BeginMigrate PROVE Witnessed'
    BY <2>3 DEF BeginMigrate, Seen, Home
  <2>4. ASSUME EnrollForget \/ EnrollAdd PROVE Witnessed'
    BY <2>4 DEF EnrollForget, EnrollAdd, Refusable
  <2>5. ASSUME BioForgotten \/ Sleep PROVE Witnessed'
    BY <2>5 DEF BioForgotten, Sleep
  <2> QED BY <1>4, <2>1, <2>2, <2>3, <2>4, <2>5 DEF Opening
<1>5. CASE Kill
  BY <1>5 DEF Kill, NoTask
<1>6. CASE PasscodeOff
  BY <1>6 DEF PasscodeOff
<1>7. CASE PasscodeOn
  BY <1>7 DEF PasscodeOn, Writing
<1>8. CASE UNCHANGED vars
  BY <1>8 DEF vars
<1> QED BY <1>1, <1>2, <1>3, <1>4, <1>5, <1>6, <1>7, <1>8 DEF Next, Phone

(* And a vault that is here was shown, or not told of yet.                 *)
LEMMA AccountedKeeps ==
  ASSUME Undisturbed, IInv, Unhurried, [Next]_vars PROVE Accounted'
<1> USE DEF Undisturbed, IInv, Unhurried, Support, SetupIsEmpty, Storing, Saved, Accounted, Vault,
            Held, Between, Carried, KeptOrTold, Witnessed
<1>1. CASE Launch
  BY <1>1 DEF Launch, Boot, AcknowledgeVanished, keychain, past
<1>2. CASE Making
  <2>1. ASSUME NEW s \in Secret, NEW p \in Passphrase, BeginMake(s, p) PROVE Accounted'
    BY <2>1 DEF BeginMake, keychain, past
  <2>2. ASSUME ReadHalf PROVE Accounted'
    BY <2>2 DEF ReadHalf, GivesUp, Home, TypeOK, Task
  <2>3. ASSUME AddHalf \/ Seal PROVE Accounted'
    BY <2>3 DEF AddHalf, Seal, GivesUp, Home, Refusable, keychain, past
  <2>4. ASSUME SaveDelete PROVE Accounted'
    <3>1. /\ pc = "delete" /\ pc' = "add" /\ blob' = None
          /\ UNCHANGED <<witness, task, stored, kept, vanished, passcode>>
      BY <2>4 DEF SaveDelete, past
    <3>2. CASE task.kind = "make"
      BY <3>1, <3>2
    <3>3. CASE task.kind = "migrate"
      <4>1. stored \in Blob /\ stored.secret # None /\ Held # None
        BY <3>1, <3>3 DEF TypeOK, Blob
      <4> QED BY <3>1, <3>3, <4>1
    <3> QED BY <3>1, <3>2, <3>3
  <2>5. ASSUME SaveAdd PROVE Accounted'
    BY <2>5 DEF SaveAdd, past, GivesUp, Home, Refusable
  <2>6. ASSUME SaveUnwitness \/ SaveWitness PROVE Accounted'
    <3>1. task.kind = "migrate" => stored # None /\ stored.secret # None
      BY <2>6 DEF SaveUnwitness, SaveWitness, TypeOK, Blob
    <3> QED BY <2>6, <3>1 DEF SaveUnwitness, SaveWitness, Home, past
  <2>7. ASSUME ReadBack PROVE Accounted'
    BY <2>7 DEF ReadBack, GivesUp, Home, keychain, TypeOK, Blob
  <2> QED BY <1>2, <2>1, <2>2, <2>3, <2>4, <2>5, <2>6, <2>7 DEF Making
<1>3. CASE Erasing
  BY <1>3 DEF Erasing, EraseVault, EraseBlob, EraseWitness, EraseDevice, EraseBio, keychain, past
<1>4. CASE Opening
  <2>1. ASSUME NEW p \in Passphrase, NEW r \in BOOLEAN, BeginOpen(p, r) PROVE Accounted'
    BY <2>1 DEF BeginOpen, keychain, past
  <2>2. ASSUME FinishOpen PROVE Accounted'
    BY <2>2 DEF FinishOpen, TypeOK, Blob
  <2>3. ASSUME BeginMigrate PROVE Accounted'
    BY <2>3 DEF BeginMigrate, Home, keychain, past
  <2>4. ASSUME EnrollForget \/ EnrollAdd \/ BioForgotten \/ Sleep PROVE Accounted'
    BY <2>4 DEF EnrollForget, EnrollAdd, BioForgotten, Sleep, keychain, past
  <2> QED BY <1>4, <2>1, <2>2, <2>3, <2>4 DEF Opening
<1>5. CASE Phone
  BY <1>5 DEF Phone, Kill, PasscodeOff, PasscodeOn, Quiet, Writing, NoTask, keychain, past
<1>6. CASE UNCHANGED vars
  BY <1>6 DEF vars
<1> QED BY <1>1, <1>2, <1>3, <1>4, <1>5, <1>6 DEF Next

(* On a phone that cuts no task short, every state is undisturbed.         *)
LEMMA QuietInvariance == Undisturbed => (Spec => [](IInv /\ Unhurried))
<1> SUFFICES ASSUME Undisturbed PROVE Spec => [](IInv /\ Unhurried)
  OBVIOUS
<1>1. Init => Unhurried
  BY DEF Init, Unhurried, BoundToPasscode, InStep, FaceOpens, StoredPassphraseOpens,
     OldMeansMigrating, KeptOrTold, Witnessed, Accounted, Vault, Held, Between,
     Carried, Storing, Saved, NoTask, Quiet
<1>2. IInv /\ Unhurried /\ [Next]_vars => Unhurried'
  BY BoundToPasscodeKeeps, InStepKeeps, FaceOpensKeeps, OldMeansMigratingKeeps,
     KeptOrToldKeeps, WitnessedKeeps, AccountedKeeps DEF Unhurried
<1>3. Spec => []IInv
  BY Invariance DEF Undisturbed
<1> QED BY <1>1, <1>2, <1>3, PTL DEF Spec

(* SealedStore.save, migrateToLayeredScheme: where no task is cut short, a *)
(* vault of either scheme is kept, whatever the passcode does.             *)
THEOREM QuietKeysAreKept == Undisturbed => (Spec => []KeysSurvive)
<1>1. IInv /\ Unhurried => KeysSurvive
  BY DEF IInv, Unhurried, KeptOrTold, LayeredHasHalf, KeysSurvive
<1> QED BY QuietInvariance, <1>1, PTL

(* boot: a vault that went with the passcode is told of before setup.      *)
THEOREM VanishingIsAlwaysTold == Undisturbed => (Spec => []VanishingIsTold)
<1>1. IInv /\ Unhurried => VanishingIsTold
  BY DEF Unhurried, KeptOrTold, VanishingIsTold
<1> QED BY QuietInvariance, <1>1, PTL

(* eraseVault: setup finds no item of an earlier vault.                    *)
THEOREM SetupStartsClean == Undisturbed => (Spec => []SetupIsClean)
<1>1. IInv /\ Unhurried => SetupIsClean
  BY DEF IInv, Unhurried, SetupIsEmpty, BoundToPasscode, Quiet, SetupIsClean
<1> QED BY QuietInvariance, <1>1, PTL

(* BiometricUnlock.enroll: what a face releases opens this vault.          *)
THEOREM FaceOpensTheVault == Undisturbed => (Spec => []StoredPassphraseOpens)
<1>1. IInv /\ Unhurried => StoredPassphraseOpens
  BY DEF Unhurried, FaceOpens
<1> QED BY QuietInvariance, <1>1, PTL

(* Launching finds the vault that is here, or tells of one that is not.    *)
LEMMA LaunchKeepsThePromise ==
  ASSUME Undisturbed, IInv, Unhurried, Launch PROVE [K!Change]_(K!state)
<1> USE DEF Undisturbed, IInv, Support, Unhurried, Storing, Saved, K!state, Vault, Held, Lost,
            Between, Carried
<1>1. CASE Boot
  <2>1. pc = "off" \/ pc = "refused"
    BY <1>1 DEF Boot
  <2>2. CASE blob # None /\ stored' = blob
    BY <1>1, <2>1, <2>2 DEF Boot, keychain, past, K!Find, K!Change, Witnessed, KeptOrTold
  <2>3. CASE blob = None
    BY <1>1, <2>1, <2>3 DEF Boot, keychain, past, K!Close, K!Change, Witnessed, KeptOrTold
  <2> QED BY <1>1, <2>2, <2>3 DEF Boot
<1>2. CASE AcknowledgeVanished
  BY <1>2 DEF AcknowledgeVanished, Witnessed, K!Tell, K!Close, K!Change
<1> QED BY <1>1, <1>2 DEF Launch

(* A making gives the phone a vault at its last step, and a migration puts *)
(* back the one it took the blob of.                                       *)
LEMMA MakingKeepsThePromise ==
  ASSUME Undisturbed, IInv, Unhurried, Making PROVE [K!Change]_(K!state)
<1> USE DEF Undisturbed, IInv, Support, Unhurried, Storing, Saved, K!state, Vault, Held, Lost,
            Between, Carried
<1>1. ASSUME NEW s \in Secret, NEW p \in Passphrase, BeginMake(s, p) PROVE UNCHANGED K!state
  BY <1>1 DEF BeginMake, keychain, past, SetupIsEmpty, Witnessed
<1>2. ASSUME ReadHalf PROVE UNCHANGED K!state
  BY <1>2 DEF ReadHalf, GivesUp, Home, TypeOK, Task
<1>3. ASSUME AddHalf PROVE UNCHANGED K!state
  BY <1>3 DEF AddHalf, GivesUp, Home, Refusable, past
<1>4. ASSUME Seal PROVE UNCHANGED K!state
  BY <1>4 DEF Seal, GivesUp, Home, keychain, past
<1>5. ASSUME SaveDelete PROVE [K!Change]_(K!state)
  <2>1. pc = "delete" /\ pc' = "add" /\ blob' = None
        /\ UNCHANGED <<witness, passcode, task, stored, kept, vanished>>
    BY <1>5 DEF SaveDelete, past
  <2>2. CASE task.kind = "make"
    BY <2>1, <2>2
  <2>3. CASE task.kind = "migrate"
    <3>1. /\ witness /\ stored \in Blob /\ stored # None /\ stored.secret # None
          /\ task.secret = stored.secret
      BY <2>1, <2>3 DEF TypeOK, Blob, Witnessed, InStep
    <3>2. CASE ~passcode
      BY <2>1, <2>3, <3>1, <3>2 DEF BoundToPasscode
    <3>3. CASE passcode /\ blob = None
      <4>1. Held = stored.secret /\ Held # None /\ kept = None
        BY <2>1, <2>3, <3>1, <3>3 DEF KeptOrTold
      <4>2. vanished
        BY <4>1 DEF Accounted
      <4> QED BY <2>1, <2>3, <3>1, <3>3, <4>1, <4>2 DEF K!WriteBack, K!Change
    <3>4. CASE passcode /\ blob # None
      BY <2>1, <2>3, <3>1, <3>4 DEF InStep
    <3> QED BY <3>2, <3>3, <3>4
  <2> QED BY <2>1, <2>2, <2>3
<1>6. ASSUME SaveAdd PROVE UNCHANGED K!state
  BY <1>6 DEF SaveAdd, past, GivesUp, Home, Refusable, Witnessed, KeptOrTold, TypeOK, Task, Blob
<1>7. ASSUME SaveUnwitness \/ SaveWitness PROVE UNCHANGED K!state
  <2>1. CASE SaveUnwitness
    BY <2>1 DEF SaveUnwitness, past
  <2>2. CASE SaveWitness /\ task.kind = "make"
    BY <2>2 DEF SaveWitness, past
  <2>3. CASE SaveWitness /\ task.kind = "migrate"
    <3> DEFINE new == [secret |-> task.secret, pass |-> task.pass, half |-> task.half]
    <3>1. pc = "witness" /\ new \in Blob
      BY <2>3 DEF SaveWitness, TypeOK, Task, Blob
    <3>2. /\ stored' = new /\ new # None /\ new.secret = task.secret /\ stored # None
          /\ task.secret = stored.secret /\ witness' = TRUE
          /\ pc' \in {"home", "forget"} /\ UNCHANGED <<blob, task, passcode, vanished>>
      BY <2>3, <3>1 DEF SaveWitness, past, Home, Witnessed, Blob
    <3> QED BY <2>3, <3>1, <3>2
  <2> QED BY <1>7, <2>1, <2>2, <2>3 DEF SaveWitness
<1>8. ASSUME ReadBack PROVE [K!Change]_(K!state)
  BY <1>8 DEF ReadBack, keychain, GivesUp, Home, Witnessed, KeptOrTold, K!Make, K!Change, TypeOK, Task, Blob
<1> QED BY <1>1, <1>2, <1>3, <1>4, <1>5, <1>6, <1>7, <1>8 DEF Making

(* An erase is over for a person when it begins.                           *)
LEMMA ErasingKeepsThePromise ==
  ASSUME Undisturbed, IInv, Unhurried, Erasing PROVE [K!Change]_(K!state)
<1> USE DEF Undisturbed, IInv, Support, Unhurried, Storing, Saved, K!state, Vault, Held, Lost,
            Between, Carried
<1>1. ASSUME EraseVault PROVE [K!Change]_(K!state)
  BY <1>1 DEF EraseVault, keychain, NoTask, K!Erase, K!Change, TypeOK, Blob
<1>2. ASSUME EraseBlob \/ EraseWitness PROVE UNCHANGED K!state
  BY <1>2 DEF EraseBlob, EraseWitness, past
<1>3. ASSUME EraseDevice \/ EraseBio PROVE UNCHANGED K!state
  BY <1>3 DEF EraseDevice, EraseBio, past, Witnessed
<1> QED BY <1>1, <1>2, <1>3 DEF Erasing

(* Opening, remembering and forgetting a passphrase, and sleeping leave    *)
(* the vault as it is.                                                     *)
LEMMA OpeningKeepsThePromise ==
  ASSUME Undisturbed, IInv, Unhurried, Opening PROVE UNCHANGED K!state
<1> USE DEF Undisturbed, IInv, Support, Unhurried, Storing, Saved, K!state, Vault, Held, Lost,
            Between, Carried
<1>1. ASSUME NEW p \in Passphrase, NEW r \in BOOLEAN, BeginOpen(p, r) PROVE UNCHANGED K!state
  BY <1>1 DEF BeginOpen, keychain, past
<1>2. ASSUME FinishOpen PROVE UNCHANGED K!state
  BY <1>2 DEF FinishOpen
<1>3. ASSUME BeginMigrate PROVE UNCHANGED K!state
  BY <1>3 DEF BeginMigrate, Home, keychain, past
<1>4. ASSUME EnrollForget \/ EnrollAdd PROVE UNCHANGED K!state
  BY <1>4 DEF EnrollForget, EnrollAdd, past
<1>5. ASSUME BioForgotten \/ Sleep PROVE UNCHANGED K!state
  BY <1>5 DEF BioForgotten, Sleep, keychain, past
<1> QED BY <1>1, <1>2, <1>3, <1>4, <1>5 DEF Opening

(* What the phone does takes the vault and says so, or closes the app.     *)
LEMMA PhoneKeepsThePromise ==
  ASSUME Undisturbed, IInv, Unhurried, Phone PROVE [K!Change]_(K!state)
<1> USE DEF Undisturbed, IInv, Support, Unhurried, Storing, Saved, K!state, Vault, Held, Lost,
            Between, Carried
<1>1. ASSUME Kill PROVE [K!Change]_(K!state)
  BY <1>1 DEF Kill, Quiet, NoTask, keychain, past, K!Close, K!Change
<1>2. ASSUME PasscodeOff PROVE [K!Change]_(K!state)
  BY <1>2 DEF PasscodeOff, KeptOrTold, Witnessed, Accounted, K!Take, K!Change, TypeOK, Task, Blob
<1>3. ASSUME PasscodeOn PROVE UNCHANGED K!state
  BY <1>3 DEF PasscodeOn, Writing, keychain, past
<1> QED BY <1>1, <1>2, <1>3 DEF Phone

(* sealAndOpen, migrateToLayeredScheme, eraseVault, boot: where no task is *)
(* cut short, the vault at rest keeps the promise of Keeper.               *)
THEOREM Refinement == Undisturbed => (Spec => KeepsTheVault)
<1> SUFFICES ASSUME Undisturbed PROVE Spec => KeepsTheVault
  OBVIOUS
<1>1. Init => K!Begin
  BY DEF Init, NoTask, Blob, Storing, Saved, Vault, Held, Lost, Between, Carried, K!Begin
<1>2. ASSUME IInv /\ Unhurried, [Next]_vars PROVE [K!Change]_(K!state)
  <2>1. CASE UNCHANGED vars
    BY <2>1 DEF vars, K!state, Vault, Held, Lost, Between, Carried
  <2> QED BY <1>2, <2>1, LaunchKeepsThePromise, MakingKeepsThePromise, ErasingKeepsThePromise,
             OpeningKeepsThePromise, PhoneKeepsThePromise DEF Next
<1>3. IInv /\ Unhurried /\ [Next]_vars => [K!Change]_(K!state)
  BY <1>2
<1> QED BY QuietInvariance, <1>1, <1>3, PTL DEF Spec, KeepsTheVault, K!Promise

(* SealedStore, BiometricUnlock: on any phone a task is over after so many *)
(* calls, whatever they answer.                                            *)
THEOREM TasksAreBounded == Spec => TasksEnd
<1> DEFINE Nearer == CallsLeft(pc) > 0 /\ pc' # pc =>
             pc' \in Quiet \cup Writing \cup {"off"} /\ CallsLeft(pc') < CallsLeft(pc)
<1>1. ASSUME Next PROVE Nearer
  <2> USE DEF Quiet, Writing, Storing, Saved, CallsLeft
  <2>1. CASE Launch
    BY <2>1 DEF Launch, Boot, AcknowledgeVanished
  <2>2. CASE Making
    <3>1. ASSUME NEW s \in Secret, NEW p \in Passphrase, BeginMake(s, p) PROVE Nearer
      BY <3>1 DEF BeginMake
    <3>2. CASE ReadHalf \/ AddHalf \/ Seal
      BY <3>2 DEF ReadHalf, AddHalf, Seal, GivesUp, Home
    <3>3. CASE SaveDelete \/ SaveUnwitness
      BY <3>3 DEF SaveDelete, SaveUnwitness
    <3>5. CASE SaveAdd
      BY <3>5 DEF SaveAdd, GivesUp, Home
    <3>4. CASE SaveWitness
      BY <3>4 DEF SaveWitness, Home
    <3>6. CASE ReadBack
      BY <3>6 DEF ReadBack, GivesUp, Home
    <3> QED BY <2>2, <3>1, <3>2, <3>3, <3>4, <3>5, <3>6 DEF Making
  <2>3. CASE Erasing
    BY <2>3 DEF Erasing, EraseVault, EraseBlob, EraseWitness, EraseDevice, EraseBio
  <2>4. CASE Opening
    BY <2>4 DEF Opening, BeginOpen, FinishOpen, BeginMigrate, EnrollForget, EnrollAdd,
       BioForgotten, Sleep, Home
  <2>5. CASE Phone
    BY <2>5 DEF Phone, Kill, PasscodeOff, PasscodeOn
  <2> QED BY <1>1, <2>1, <2>2, <2>3, <2>4, <2>5 DEF Next
<1>2. [Next]_vars => [Nearer]_vars
  BY <1>1
<1> QED BY <1>2, PTL DEF Spec, TasksEnd
=============================================================================
