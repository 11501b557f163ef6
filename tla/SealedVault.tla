----------------------------- MODULE SealedVault -----------------------------
(***************************************************************************)
(* The vault at rest: the keychain items of Support/SealedStore.swift and  *)
(* BiometricUnlock.swift, and every path of Model/Vault.swift that writes  *)
(* them.  The keychain has no transactions, so a step is one call on it:   *)
(* the process may be killed between any two, an add may be refused, and a *)
(* read may come back with nothing although the item is there.             *)
(*                                                                         *)
(* Sealing is abstract: a blob is what opening it needs and what it holds. *)
(* Paths that write run one at a time, so the process has one pc.          *)
(***************************************************************************)
EXTENDS Naturals

CONSTANTS Secret,       \* what a vault can hold
          Passphrase,   \* what a person can type
          Half,         \* the device secrets this phone can ever draw
          None,         \* nil
          FromOldBuild, \* the phone may hold a vault of a build without device secrets
          MayKill,      \* the process can be killed in the middle of a task
          MayRefuse,    \* the keychain or the engine can refuse
          MayMiss,      \* a read can fail for an item that is there
          MayRearm      \* the passcode can go off and on again within one task

ASSUME SealedVaultAssumption ==
  /\ {FromOldBuild, MayKill, MayRefuse, MayMiss, MayRearm} \subseteq BOOLEAN
  /\ None \notin Secret \cup Passphrase \cup Half
                 \cup [secret : Secret, pass : Passphrase, half : Half \cup {None}]

VARIABLES blob,     \* the sealed vault
          witness,  \* the byte that says there was one
          device,   \* the device half of the passphrase
          bio,      \* the passphrase kept behind Face ID
          passcode, \* the phone has a passcode
          pc,       \* where the process is
          task,     \* what the running task holds
          stored,   \* the blob the process holds in memory
          kept,     \* history: the secret a person was shown to have here
          vanished  \* history: a vault was lost to the passcode and nobody said so

keychain == <<blob, witness, device, bio>>
past     == <<kept, vanished>>
vars     == <<blob, witness, device, bio, passcode, pc, task, stored, kept, vanished>>

Blob == [secret : Secret, pass : Passphrase, half : Half \cup {None}]
Task == [kind : {"none", "make", "migrate", "erase"}, pass : Passphrase \cup {None},
         secret : Secret \cup {None}, half : Half \cup {None}, remember : BOOLEAN]
NoTask == [kind |-> "none", pass |-> None, secret |-> None, half |-> None, remember |-> FALSE]

Quiet   == {"setup", "unlock", "home", "refused", "vanished"}
Storing == {"half", "drawn", "seal", "delete", "add"}
Saved   == {"unwitness", "witness"}
Writing == Storing \cup Saved \cup
           {"readback", "eraseBlob", "eraseWitness", "eraseDevice", "eraseBio",
            "open", "opened", "forget", "enroll"}

(* What a read of the device secret answers.                               *)
Seen == IF MayMiss THEN {device, None} ELSE {device}

(* When SecItemAdd of an item bound to the passcode may be refused.        *)
Refusable == MayRefuse \/ ~passcode

(* Mutant: a device half that is there has to be the one that sealed.      *)
UnsealsOneWay(b, p, h) == b.pass = p /\ b.half = h

(* The two attempts of openVault: with the device half it read, and, when  *)
(* there was one, without it.                                              *)
Unseals(b, p, h) == b.pass = p /\ b.half \in {h, None}

Init ==
  /\ bio = None /\ device = None /\ pc = "off" /\ task = NoTask /\ stored = None
  /\ vanished = FALSE
  /\ \/ /\ blob = None /\ witness = FALSE /\ kept = None /\ passcode \in BOOLEAN
     \/ /\ FromOldBuild /\ passcode = TRUE /\ witness = TRUE
        /\ blob \in [secret : Secret, pass : Passphrase, half : {None}]
        /\ kept = blob.secret

-----------------------------------------------------------------------------
(* Launch.                                                                 *)

(* A hit, a clean miss told apart by the witness, or anything else.        *)
Boot ==
  /\ pc \in {"off", "refused"}
  /\ \/ blob # None /\ pc' = "unlock" /\ stored' = blob
     \/ blob = None /\ witness /\ pc' = "vanished" /\ stored' = None
     \/ blob = None /\ (~witness \/ MayMiss) /\ pc' = "setup" /\ stored' = None
     \/ blob # None /\ MayMiss /\ pc' = "refused" /\ stored' = None
  /\ UNCHANGED <<keychain, passcode, task, past>>

AcknowledgeVanished ==
  /\ pc = "vanished" /\ pc' = "setup"
  /\ witness' = FALSE /\ stored' = None /\ vanished' = FALSE
  /\ UNCHANGED <<blob, device, bio, passcode, task, kept>>

-----------------------------------------------------------------------------
(* sealAndOpen, for a new secret or one restored from words, and           *)
(* migrateToLayeredScheme, which share the store's calls.                  *)

(* A vault that answers refuses the making; one that does not read is no   *)
(* reason to refuse it.                                                    *)
BeginMake(s, p) ==
  /\ pc = "setup" /\ (blob = None \/ MayMiss)
  /\ pc' = "half"
  /\ task' = [kind |-> "make", pass |-> p, secret |-> s, half |-> None, remember |-> FALSE]
  /\ UNCHANGED <<keychain, passcode, stored, past>>

(* An opened vault goes home, by way of keeping the passphrase if asked.   *)
Home == IF task.remember THEN "forget" ELSE "home"

(* Where a task goes when a step of it fails.                              *)
GivesUp == pc' = IF task.kind = "make" THEN "eraseBlob" ELSE Home

(* What 32 random bytes can be: nothing this phone already uses.           *)
Fresh == {h \in Half : h # device /\ \A b \in {blob, stored} \ {None} : b.half # h}

(* deviceSecretHex: an existing secret is used, else one is drawn.         *)
ReadHalf ==
  /\ pc = "half"
  /\ \E h \in Seen :
       \/ /\ h # None /\ pc' = "seal" /\ task' = [task EXCEPT !.half = h]
          /\ UNCHANGED device
       \/ /\ h = None /\ device' = None
          /\ \E fresh \in Fresh : task' = [task EXCEPT !.half = fresh]
          /\ pc' = "drawn"
       \/ h = None /\ MayRefuse /\ GivesUp /\ UNCHANGED <<device, task>>
  /\ UNCHANGED <<blob, witness, bio, passcode, stored, kept, vanished>>

AddHalf ==
  /\ pc = "drawn"
  /\ \/ passcode /\ device' = task.half /\ pc' = "seal"
     \/ Refusable /\ GivesUp /\ UNCHANGED device
  /\ UNCHANGED <<blob, witness, bio, passcode, task, stored, past>>

(* Mutant: a migration draws a new secret for the blob it writes.          *)
SealAnew ==
  /\ pc = "seal" /\ pc' = "delete"
  /\ \E s \in Secret : task' = [task EXCEPT !.secret = s]
  /\ UNCHANGED <<keychain, passcode, stored, past>>

(* A making has no old blob to unseal.                                     *)
OldWay == IF task.kind = "make" THEN TRUE ELSE stored.half = None

(* The engine's create or restore, whose words may be wrong, or reseal,    *)
(* which unseals the old blob under the passphrase alone first.            *)
Seal ==
  /\ pc = "seal" /\ UNCHANGED task
  /\ IF task.kind = "make" \/ MayRefuse
     THEN GivesUp \/ (OldWay /\ pc' = "delete")
     ELSE IF OldWay THEN pc' = "delete" ELSE GivesUp
  /\ UNCHANGED <<keychain, passcode, stored, past>>

(* SealedStore.save: delete, add, and the witness the same way.            *)
SaveDelete ==
  /\ pc = "delete" /\ pc' = "add" /\ blob' = None
  /\ UNCHANGED <<witness, device, bio, passcode, task, stored, past>>

SaveAdd ==
  /\ pc = "add"
  /\ \/ /\ passcode /\ pc' = "unwitness"
        /\ blob' = [secret |-> task.secret, pass |-> task.pass, half |-> task.half]
     \/ Refusable /\ GivesUp /\ UNCHANGED blob
  /\ UNCHANGED <<witness, device, bio, passcode, task, stored, past>>

SaveUnwitness ==
  /\ pc = "unwitness" /\ pc' = "witness" /\ witness' = FALSE
  /\ UNCHANGED <<blob, device, bio, passcode, task, stored, past>>

(* Mutant: the save forgets its witness.                                   *)
SaveWithoutWitness ==
  /\ pc = "witness" /\ UNCHANGED witness
  /\ IF task.kind = "make" THEN pc' = "readback" /\ UNCHANGED stored
     ELSE /\ pc' = Home
          /\ stored' = [secret |-> task.secret, pass |-> task.pass, half |-> task.half]
  /\ UNCHANGED <<blob, device, bio, passcode, task, past>>

(* The witness needs no passcode, and nobody asks whether it was kept.     *)
SaveWitness ==
  /\ pc = "witness" /\ witness' \in (IF MayRefuse THEN BOOLEAN ELSE {TRUE})
  /\ IF task.kind = "make" THEN pc' = "readback" /\ UNCHANGED stored
     ELSE /\ pc' = Home
          /\ stored' = [secret |-> task.secret, pass |-> task.pass, half |-> task.half]
  /\ UNCHANGED <<blob, device, bio, passcode, task, past>>

(* Mutant: what was sealed is taken for what is stored.                    *)
ReadBackTrusting ==
  /\ pc = "readback" /\ pc' = "home" /\ kept' = task.secret
  /\ stored' = [secret |-> task.secret, pass |-> task.pass, half |-> task.half]
  /\ UNCHANGED <<keychain, passcode, task, vanished>>

(* The blob is read back and opened before anything says there is a vault. *)
ReadBack ==
  /\ pc = "readback"
  /\ \/ /\ blob # None /\ Unseals(blob, task.pass, task.half)
        /\ pc' = "home" /\ stored' = blob /\ kept' = blob.secret
     \/ (blob = None \/ MayMiss \/ MayRefuse) /\ GivesUp /\ UNCHANGED <<stored, kept>>
  /\ UNCHANGED <<keychain, passcode, task, vanished>>

-----------------------------------------------------------------------------
(* Erasing: after a failed making, or from Settings.                       *)

EraseVault ==
  /\ pc = "home" /\ pc' = "eraseBlob" /\ task' = [NoTask EXCEPT !.kind = "erase"]
  /\ kept' = None /\ vanished' = FALSE
  /\ UNCHANGED <<keychain, passcode, stored>>

(* Mutant: the device half goes first.                                     *)
EraseDeviceFirst ==
  /\ pc = "eraseBlob" /\ pc' = "eraseWitness" /\ device' = None
  /\ UNCHANGED <<blob, witness, bio, passcode, task, stored, past>>

(* Mutant: a failed making leaves what it had stored.                      *)
EraseOnlyOnRequest ==
  /\ pc = "eraseBlob" /\ pc' = "eraseWitness"
  /\ blob' = IF task.kind = "erase" THEN None ELSE blob
  /\ UNCHANGED <<witness, device, bio, passcode, task, stored, past>>

EraseBlob ==
  /\ pc = "eraseBlob" /\ pc' = "eraseWitness" /\ blob' = None
  /\ UNCHANGED <<witness, device, bio, passcode, task, stored, past>>

EraseWitness ==
  /\ pc = "eraseWitness" /\ pc' = "eraseDevice" /\ witness' = FALSE
  /\ UNCHANGED <<blob, device, bio, passcode, task, stored, past>>

EraseDevice ==
  /\ pc = "eraseDevice" /\ device' = None
  /\ IF task.kind = "erase" THEN pc' = "eraseBio" /\ UNCHANGED stored
                            ELSE pc' = "setup" /\ stored' = None
  /\ UNCHANGED <<blob, witness, bio, passcode, task, past>>

EraseBio ==
  /\ pc = "eraseBio" /\ pc' = "setup" /\ bio' = None /\ stored' = None
  /\ UNCHANGED <<blob, witness, device, passcode, task, past>>

-----------------------------------------------------------------------------
(* Unlocking.                                                              *)

(* openVault, typed (and perhaps to be remembered) or recalled by a face:  *)
(* the device half is read before the derivation.                          *)
BeginOpen(p, remember) ==
  /\ pc = "unlock" /\ pc' = "open"
  /\ \E h \in Seen : task' = [kind |-> "migrate", pass |-> p, secret |-> None, half |-> h,
                              remember |-> remember /\ bio = None]
  /\ UNCHANGED <<keychain, passcode, stored, past>>

(* Mutant: a refusal goes on to the remembering too.                       *)
RememberAnyway ==
  /\ pc = "open" /\ UNCHANGED <<task, keychain, passcode, stored, past>>
  /\ pc' = IF task.remember THEN "forget"
           ELSE IF Unseals(stored, task.pass, task.half) THEN "opened" ELSE "unlock"

(* Mutant: what was opened is not carried to the reseal.                   *)
FinishOpenEmpty ==
  /\ pc = "open" /\ UNCHANGED <<task, keychain, passcode, stored, past>>
  /\ pc' = IF Unseals(stored, task.pass, task.half) THEN "opened" ELSE "unlock"

(* A stored passphrase that is refused is dropped; a typed one is not.     *)
FinishOpen ==
  /\ pc = "open"
  /\ IF Unseals(stored, task.pass, task.half)
     THEN /\ pc' = "opened" /\ task' = [task EXCEPT !.secret = stored.secret]
          /\ kept' = IF blob = None THEN kept ELSE blob.secret
          /\ UNCHANGED bio
     ELSE /\ pc' = "unlock" /\ UNCHANGED <<task, kept>>
          /\ bio' \in {bio} \cup (IF bio = task.pass THEN {None} ELSE {})
  /\ UNCHANGED <<blob, witness, device, passcode, stored, vanished>>

(* migrateToLayeredScheme runs only where no device secret answers: after  *)
(* one was cut short behind AddHalf, no later opening migrates.            *)
BeginMigrate ==
  /\ pc = "opened"
  /\ \E h \in Seen : pc' = IF h = None THEN "half" ELSE Home
  /\ UNCHANGED <<keychain, passcode, task, stored, past>>

(* BiometricUnlock.enroll: forget, then add.                               *)
EnrollForget ==
  /\ pc = "forget" /\ pc' = "enroll" /\ bio' = None
  /\ UNCHANGED <<blob, witness, device, passcode, task, stored, past>>

EnrollAdd ==
  /\ pc = "enroll" /\ pc' = "home"
  /\ \/ passcode /\ bio' = task.pass
     \/ Refusable /\ UNCHANGED bio
  /\ UNCHANGED <<blob, witness, device, passcode, task, stored, past>>

(* Settings' STOP USING FACE ID, or a face enrolled outside the app.       *)
BioForgotten ==
  /\ bio # None /\ pc \in {"home", "unlock", "off"} /\ bio' = None
  /\ UNCHANGED <<blob, witness, device, passcode, pc, task, stored, past>>

Sleep ==
  /\ pc = "home" /\ pc' = "unlock"
  /\ UNCHANGED <<keychain, passcode, task, stored, past>>

-----------------------------------------------------------------------------
(* The phone.                                                              *)

Kill ==
  /\ pc \in Quiet \/ (MayKill /\ pc \in Writing)
  /\ pc' = "off" /\ task' = NoTask /\ stored' = None
  /\ UNCHANGED <<keychain, passcode, past>>

(* External: turning the passcode off deletes every item bound to it.      *)
PasscodeOff ==
  /\ passcode /\ passcode' = FALSE
  /\ blob' = None /\ device' = None /\ bio' = None
  /\ kept' = None /\ vanished' = (vanished \/ kept # None)
  /\ UNCHANGED <<witness, pc, task, stored>>

PasscodeOn ==
  /\ ~passcode /\ passcode' = TRUE
  /\ pc \notin Writing \/ MayRearm
  /\ UNCHANGED <<keychain, pc, task, stored, past>>

Launch  == Boot \/ AcknowledgeVanished
Making  == \/ \E s \in Secret, p \in Passphrase : BeginMake(s, p)
           \/ ReadHalf \/ AddHalf \/ Seal \/ SaveDelete \/ SaveAdd
           \/ SaveUnwitness \/ SaveWitness \/ ReadBack
Erasing == EraseVault \/ EraseBlob \/ EraseWitness \/ EraseDevice \/ EraseBio
Opening == \/ \E p \in Passphrase, r \in BOOLEAN : BeginOpen(p, r)
           \/ FinishOpen \/ BeginMigrate \/ EnrollForget \/ EnrollAdd
           \/ BioForgotten \/ Sleep
Phone   == Kill \/ PasscodeOff \/ PasscodeOn

Next == Launch \/ Making \/ Erasing \/ Opening \/ Phone

Spec == Init /\ [][Next]_vars
-----------------------------------------------------------------------------
(* Properties.                                                             *)

(* Every variable keeps its type. *)
TypeOK ==
  /\ blob \in Blob \cup {None} /\ stored \in Blob \cup {None}
  /\ witness \in BOOLEAN /\ passcode \in BOOLEAN /\ vanished \in BOOLEAN
  /\ device \in Half \cup {None}
  /\ bio \in Passphrase \cup {None} /\ kept \in Secret \cup {None}
  /\ pc \in Quiet \cup Writing \cup {"off"} /\ task \in Task

(* sealAndOpen, migrateToLayeredScheme, SealedStore.erase: whatever is cut *)
(* short, a blob sealed under a device half is never without that half.    *)
LayeredHasHalf == blob # None => blob.half \in {None, device}

(* beginCreate: "Every failure leaves the device exactly as it was: setup  *)
(* can be walked again".  No vault is left where setup would refuse to     *)
(* make another or the next launch would find one.                         *)
SetupIsEmpty == pc = "setup" => blob = None

(* openVault: the marker and the blob are two items with no transaction    *)
(* between them, and a person whose passphrase is right is never told it   *)
(* is wrong because a migration was cut short.                             *)
RightPassphraseOpens ==
  pc = "open" /\ blob = stored /\ task.pass = stored.pass
    => Unseals(stored, task.pass, task.half)

(* The vault a person was shown is on this phone, and what is on this      *)
(* phone opens it, until they erase it or turn the passcode off.           *)
KeysSurvive ==
  kept # None /\ pc # "add" => /\ blob # None /\ blob.secret = kept
                               /\ blob.half \in {None, device}

(* SealedStore: a vault that went with the passcode is explained before    *)
(* setup is offered again.                                                 *)
VanishingIsTold == pc = "setup" => ~vanished

(* migrateToLayeredScheme: "The secret is not re-drawn: it is the same     *)
(* vault".  Whatever call of it is refused or cut short, a migration only  *)
(* ever writes the vault just opened, over one sealed the old way.         *)
MigrationKeepsTheVault ==
  [][task.kind = "migrate" /\ pc \in {"delete", "add"} /\ blob' # blob /\ passcode'
       => /\ stored.half = None
          /\ blob' # None => blob'.secret = stored.secret /\ blob'.pass = stored.pass]_vars

(* eraseVault, SealedStore.erase: nothing of one vault waits for the next. *)
SetupIsClean == pc = "setup" => blob = None /\ device = None /\ bio = None

(* BiometricUnlock.enroll: what a face releases opens this vault.          *)
StoredPassphraseOpens == bio # None /\ blob # None => blob.pass = bio

(* A making, an opening with its migration and an erase are chains of      *)
(* keychain calls that give up or go on, with refusals, missed reads and   *)
(* the passcode in between; none goes back and tries again.                *)
CallsLeft(c) ==
  IF c = "open" THEN 14     ELSE IF c = "opened" THEN 13    ELSE IF c = "half" THEN 12 ELSE
  IF c = "drawn" THEN 11    ELSE IF c = "seal" THEN 10      ELSE IF c = "delete" THEN 9 ELSE
  IF c = "add" THEN 8       ELSE IF c = "unwitness" THEN 7  ELSE IF c = "witness" THEN 6 ELSE
  IF c = "readback" THEN 5  ELSE IF c = "eraseBlob" THEN 4  ELSE IF c = "eraseWitness" THEN 3 ELSE
  IF c \in {"eraseDevice", "forget"} THEN 2 ELSE IF c \in {"eraseBio", "enroll"} THEN 1 ELSE 0
TasksEnd ==
  [][CallsLeft(pc) > 0 /\ pc' # pc =>
       pc' \in Quiet \cup Writing \cup {"off"} /\ CallsLeft(pc') < CallsLeft(pc)]_vars

(* What the invariants of every phone rest on: where the process is says   *)
(* whether there is a blob, and which device half it is working with.      *)
Support ==
  /\ pc \in {"setup", "vanished", "eraseWitness", "eraseDevice", "eraseBio"} => blob = None
  /\ pc \in Storing /\ task.kind = "make" => blob = None
  /\ pc \in Storing \cup Saved => task.kind \in {"make", "migrate"}
  /\ pc \in {"open", "opened", "forget", "enroll"} => task.kind = "migrate"
  /\ pc = "readback" => task.kind = "make"
  /\ task.kind \in {"make", "migrate"} => task.pass # None
  /\ task.kind = "make" => task.secret # None
  /\ task.kind = "migrate" /\ pc \in Storing \cup Saved \cup {"opened"} => task.secret # None
  /\ task.kind = "migrate" /\ pc \in Storing \cup Saved => stored # None
  /\ pc \in {"unlock", "open", "opened", "forget", "enroll", "home"} => stored # None
  /\ pc = "drawn" => device = None
  /\ pc \in (Storing \ {"half"}) \cup Saved => task.half # None
  /\ pc \in {"seal", "delete", "add"} /\ passcode => device = task.half
  /\ pc = "open" /\ blob # None => task.half = device

(* The inductive invariant of a phone whose reads do not miss and whose    *)
(* passcode stays off for as long as a task runs.                          *)
IInv == TypeOK /\ Support /\ LayeredHasHalf /\ SetupIsEmpty /\ RightPassphraseOpens

(* And of one that never held a vault of the old kind.                     *)
LayeredOnly ==
  /\ blob # None => blob.half # None
  /\ stored # None => stored.half # None
  /\ pc \in {"delete", "add", "unwitness", "witness", "readback"} => task.kind = "make"
  /\ kept # None => blob # None /\ blob.secret = kept
  /\ pc \in Saved \cup {"readback", "eraseBlob"} => kept = None

(* A phone that cuts no task short.                                        *)
Undisturbed == ~MayKill /\ ~MayRefuse /\ ~MayMiss /\ ~MayRearm

(* The further invariant of such a phone.  What is bound to the passcode   *)
(* goes with it, and where there is no vault at rest nothing of one is     *)
(* left.                                                                   *)
BoundToPasscode ==
  /\ ~passcode => blob = None /\ device = None /\ bio = None
  /\ pc \in Quiet \cup {"off", "open", "opened", "forget", "enroll"} /\ blob = None
       => device = None /\ bio = None
  /\ pc = "eraseBio" => device = None
  /\ task.kind = "make" /\ pc \in Storing \cup Saved \cup
                         {"readback", "eraseBlob", "eraseWitness", "eraseDevice"}
       => bio = None

(* The blob in memory is the one at rest, until it is replaced; the task   *)
(* of a migration holds what that blob held.                               *)
InStep ==
  /\ blob # None /\ pc \in {"unlock", "open", "opened", "forget", "enroll", "home"}
                          \cup Storing
       => stored = blob
  /\ pc \in Saved \cup {"readback"} /\ blob # None
       => blob = [secret |-> task.secret, pass |-> task.pass, half |-> task.half]
  /\ pc \in Saved \cup {"readback"} /\ passcode => blob # None
  /\ pc = "readback" => task.half # None
  /\ pc = "open" /\ passcode => task.half = device
  /\ pc = "opened" => task.pass = stored.pass /\ task.secret = stored.secret
  /\ pc = "opened" /\ passcode /\ device = None => stored.half = None
  /\ task.kind = "migrate" /\ pc \in Storing
       => task.pass = stored.pass /\ task.secret = stored.secret
  /\ task.kind = "migrate" /\ pc \in Storing /\ passcode => stored.half = None
  /\ pc \in {"forget", "enroll"} /\ passcode => blob # None /\ blob.pass = task.pass

(* A face opens the vault that is here, or the one being written again.    *)
FaceOpens ==
  /\ StoredPassphraseOpens
  /\ task.kind = "migrate" /\ pc \in Storing /\ bio # None => bio = stored.pass

(* A device half beside a blob of the old scheme is a migration under way. *)
OldMeansMigrating ==
  /\ pc \in {"home", "forget", "enroll"} /\ blob # None => blob.half # None
  /\ pc \notin {"seal", "delete"} /\ blob # None /\ device # None => blob.half # None

(* What a person was shown is here, with its witness, or they are told.    *)
KeptOrTold ==
  /\ kept # None => IF pc = "add" THEN kept = task.secret /\ task.kind = "migrate"
                    ELSE blob # None /\ blob.secret = kept
  /\ kept # None => passcode
  /\ blob # None \/ kept # None \/ vanished => witness \/ pc \in Saved
  /\ vanished => witness \/ pc = "witness"
  /\ kept # None => witness \/ pc = "witness"
  /\ pc = "readback" => witness
  /\ task.kind = "make" /\ pc \in Storing \cup Saved \cup {"readback"}
       => kept = None /\ ~vanished
  /\ pc \in {"setup", "eraseBlob", "eraseWitness", "eraseDevice", "eraseBio"}
       => kept = None /\ ~vanished
  /\ pc \in {"eraseBlob", "eraseWitness", "eraseDevice", "eraseBio"}
       => task.kind \in {"make", "erase"}

(* What the app works on has its witness, setup has none, nothing is held  *)
(* before there is a vault to open, and a migration still writes the vault *)
(* that was in memory.                                                     *)
Witnessed ==
  /\ pc \in {"off", "refused", "vanished", "setup"} => stored = None
  /\ pc \in {"setup", "eraseDevice", "eraseBio"} => ~witness
  /\ pc \in {"unlock", "open", "opened", "forget", "enroll", "home"} => witness
  /\ task.kind = "migrate" /\ pc \in Storing => witness
  /\ task.kind = "migrate" /\ pc \in Saved => task.secret = stored.secret

(* A vault that is being made or erased is not one a person has; between   *)
(* the two calls of a migration's save only the process has it.            *)
Between == \/ task.kind = "make" /\ pc \in Storing \cup Saved \cup {"readback"}
           \/ pc \in {"eraseBlob", "eraseWitness", "eraseDevice", "eraseBio"}
Carried == pc = "add" /\ task.kind = "migrate" /\ passcode

Vault == IF Between THEN None
         ELSE IF Carried THEN task.secret
         ELSE IF blob = None THEN None ELSE blob.secret
Held  == IF Between \/ stored = None THEN None ELSE stored.secret
Lost  == Vault = None /\ vanished

(* A vault that is here or in memory is one a person was shown, or one     *)
(* they have not been told of.                                             *)
Accounted == Vault # None \/ Held # None => kept # None \/ vanished

Unhurried == /\ BoundToPasscode /\ InStep /\ FaceOpens /\ OldMeansMigrating
             /\ KeptOrTold /\ Witnessed /\ Accounted

-----------------------------------------------------------------------------
(* Two items written one call at a time, each deleted before it is added   *)
(* again, and a passcode that can take one of them at any moment, while    *)
(* the app goes on with what it has in memory: the phone still keeps the   *)
(* promise of Keeper.                                                      *)
K == INSTANCE Keeper WITH vault <- Vault, held <- Held, lost <- Lost
KeepsTheVault == K!Promise
=============================================================================
