---------------------------- MODULE VaultSigning ----------------------------
(***************************************************************************)
(* The vault while it is running: the screens of Model/Vault.swift and the *)
(* rules of Model/Flow.swift between them, the engine session of           *)
(* src/bridge/host.ts behind them, and the three things that move a screen *)
(* without a tap: the camera, delayed calls, and a derivation that ends.   *)
(*                                                                         *)
(* A payload is what a finished scan hands over.  A transaction is a       *)
(* payload and the keys it was described with: whose inputs and whose      *)
(* change the screen says they are depends on both.                        *)
(***************************************************************************)
CONSTANTS Payload,      \* what an animation can carry
          Kind,         \* the envelope's kind of each
          Owner,        \* whose coins each spends: "vault", "demo" or "other"
          Fatal,        \* those whose description refuses
          DemoTx,       \* the built-in demonstration
          None          \* nil

Kinds  == {"PSBT", "XMRUNSIGNED", "XMROUTPUTS", "XMRFILE"}
Wallet == {"vault", "demo"}
Tx     == [payload : Payload, keys : Wallet]

ASSUME VaultSigningAssumption ==
  /\ Kind \in [Payload -> Kinds] /\ Owner \in [Payload -> Wallet \cup {"other"}]
  /\ DemoTx \in Payload /\ Kind[DemoTx] = "PSBT"
  /\ None \notin Payload \cup Tx

VARIABLES route,     \* the screen, what it is about, and the signature it shows
          session,   \* whose keys the engine holds
          described, \* the Bitcoin description the engine keeps for an approval
          moneroSet, \* the Monero one
          pending,   \* the bytes the shell keeps for signing
          demo,      \* a demonstration is being walked
          feed,      \* its frames are still arriving
          lens,      \* an acquiring camera can still deliver
          timers,    \* delayed calls not yet run
          opening,   \* an unlock in flight
          creating,  \* a creation in flight
          creation,  \* what the setup screens were told of it
          hasVault, awake

engine == <<session, described, moneroSet>>
work   == <<timers, opening, creating, creation, hasVault, awake>>
vars   == <<route, session, described, moneroSet, pending, demo, feed, lens,
            timers, opening, creating, creation, hasVault, awake>>

Tabs     == {"home", "scanner", "export", "settings"}
Signed   == {"signed", "signedQR"}
Carrying == {"review", "destination", "approve"} \cup Signed
Reading  == {"scanner", "acquiring"}
Walk     == Carrying \cup {"acquiring", "refused"}
Plain    == Tabs \cup {"launch", "setup", "entropy", "created", "verify", "unlock", "airgap",
                       "acquiring", "refused", "keyImages", "xmrFile",
                       "bitcoin", "monero", "recovery"}

At(r)        == [at |-> r, tx |-> None, result |-> None]
About(r, tx) == [at |-> r, tx |-> tx, result |-> None]
Route == [at : Plain, tx : {None}, result : {None}]
         \cup [at : Carrying \ Signed, tx : Tx, result : {None}]
         \cup [at : Signed, tx : Tx, result : Tx]

(* The screens a lever leads to, from each screen.                         *)
Levers ==
  {"home", "airgap", "export", "scanner", "settings"} \X Tabs
  \cup {"home"} \X {"bitcoin", "monero"}
  \cup {"settings"} \X {"airgap", "verify", "recovery", "bitcoin", "monero"}
  \cup {"bitcoin", "monero"} \X {"export", "home"}
  \cup {"recovery", "keyImages", "xmrFile", "signedQR"} \X {"home"}
  \cup {"created"} \X {"home", "recovery"}

(* And those that carry what they are about.                               *)
Onward == {<<"review", "destination">>, <<"destination", "review">>,
           <<"review", "approve">>, <<"signed", "signedQR">>}

Init ==
  /\ route = At("launch") /\ session = "none" /\ described = None /\ moneroSet = None
  /\ pending = None /\ demo = FALSE /\ feed = FALSE /\ lens = FALSE /\ timers = {}
  /\ opening = "no" /\ creating = "no" /\ creation = "idle"
  /\ hasVault \in BOOLEAN /\ awake = TRUE

-----------------------------------------------------------------------------
(* Moving.                                                                 *)

(* Mutant: a refusal is a screen like the others.                          *)
AllowedFromRefused(from, to) ==
  /\ to = "approve"  => from \in {"review", "destination"}
  /\ to = "signed"   => from \in {"approve", "signedQR"}
  /\ to = "signedQR" => from = "signed"
  /\ to = "review"   => from \in Reading \cup {"destination", "review"}
  /\ to \in {"keyImages", "xmrFile"} => from \in Reading
  /\ to = "destination" => from = "review"
  /\ to = "refused" => from \in Reading \cup Carrying
  /\ to = "unlock"  => from = "launch"
  /\ to # "launch"

Allowed(from, to) ==
  /\ from = "refused" => to \in {"scanner", "home"}
  /\ to = "approve"   => from \in {"review", "destination"}
  /\ to = "signed"    => from \in {"approve", "signedQR"}
  /\ to = "signedQR"  => from = "signed"
  /\ to = "review"    => from \in Reading \cup {"destination", "review"}
  /\ to \in {"keyImages", "xmrFile"} => from \in Reading
  /\ to = "destination" => from = "review"
  /\ to = "refused" => from \in Reading \cup Carrying
  /\ to = "unlock"  => from = "launch"
  /\ to # "launch"

Move(r) == route' = IF Allowed(route.at, r.at) THEN r ELSE route

(* Vault.lock and the engine's: a reset scanner leaves the rest of the     *)
(* demonstration's frames useless.                                         *)
Lock ==
  /\ session' = "none" /\ described' = None /\ moneroSet' = None
  /\ pending' = None /\ feed' = FALSE

(* Mutant: a demonstration that leads home just goes there.                *)
GoOnInDemo(r) == Move(r) /\ demo' = FALSE /\ UNCHANGED <<engine, pending, feed>>

(* A demonstration that leads home or to another scan ends locked.         *)
Go(r) ==
  IF demo /\ r.at \in {"home", "scanner"}
  THEN route' = At("unlock") /\ demo' = FALSE /\ Lock
  ELSE Move(r) /\ UNCHANGED <<demo, engine, pending, feed>>

(* The levers that only move.                                              *)
Press ==
  /\ awake
  /\ \E lever \in Levers : lever[1] = route.at /\ Go(At(lever[2]))
  /\ UNCHANGED <<lens, work>>

(* Mutant: a detour forgets what it was about.                             *)
PressOnwardEmpty ==
  /\ awake
  /\ \E lever \in Onward : lever[1] = route.at /\ Move([route EXCEPT !.at = lever[2], !.tx = None])
  /\ UNCHANGED <<engine, pending, demo, feed, lens, work>>

PressOnward ==
  /\ awake
  /\ \E lever \in Onward : lever[1] = route.at /\ Move([route EXCEPT !.at = lever[2]])
  /\ UNCHANGED <<engine, pending, demo, feed, lens, work>>

(* The radio check, which first run and Settings share.                    *)
Verified ==
  /\ awake /\ route.at = "verify"
  /\ Move(At(IF hasVault THEN "airgap" ELSE "setup"))
  /\ UNCHANGED <<engine, pending, demo, feed, lens, work>>

(* The refusal screen's one lever.                                         *)
ScanAgain ==
  /\ awake /\ route.at = "refused"
  /\ IF demo THEN Go(At("scanner"))
             ELSE /\ pending' = None /\ feed' = FALSE
                  /\ Move(At("scanner")) /\ UNCHANGED <<demo, engine>>
  /\ UNCHANGED <<lens, work>>

-----------------------------------------------------------------------------
(* The demonstration and the camera.                                       *)

(* Mutant: the demonstration's keys are put over whatever was open.        *)
AcquiringUnlocked(walking) ==
  IF route.at = "acquiring" \/ ~Allowed(route.at, "acquiring") THEN UNCHANGED <<route, engine, feed, lens>>
  ELSE IF ~walking
       THEN route' = At("acquiring") /\ lens' = TRUE /\ UNCHANGED <<engine, feed>>
       ELSE /\ route' = At("acquiring") /\ session' = "demo" /\ feed' = TRUE
            /\ UNCHANGED <<described, moneroSet, lens>>

(* go(.acquiring), and the screen's appearance: a camera, or the engine's  *)
(* demonstration, which takes the place of whatever session was open.      *)
Acquiring(walking) ==
  IF route.at = "acquiring" \/ ~Allowed(route.at, "acquiring") THEN UNCHANGED <<route, engine, feed, lens>>
  ELSE IF ~walking
       THEN route' = At("acquiring") /\ lens' = TRUE /\ UNCHANGED <<engine, feed>>
       ELSE /\ described' = None /\ moneroSet' = None /\ UNCHANGED lens
            /\ \/ route' = At("acquiring") /\ session' = "demo" /\ feed' = TRUE
               \/ route' = At("refused") /\ session' = "none" /\ feed' = FALSE

(* From the scanner, two screens away from any camera still closing.       *)
BeginDemo ==
  /\ awake /\ route.at = "scanner" /\ ~demo /\ ~lens
  /\ demo' = TRUE /\ Acquiring(TRUE)
  /\ UNCHANGED <<pending, work>>

(* Every frame the viewfinder recognises asks for the acquiring screen     *)
(* half a second later.                                                    *)
Recognised ==
  /\ awake /\ route.at = "scanner" /\ timers' = timers \cup {"acquiring"}
  /\ UNCHANGED <<route, engine, pending, demo, feed, lens, opening, creating, creation,
                 hasVault, awake>>

(* One of those calls, perhaps not the last.                               *)
FireAcquiring ==
  /\ "acquiring" \in timers /\ timers' \in {timers, timers \ {"acquiring"}}
  /\ Acquiring(demo)
  /\ UNCHANGED <<pending, demo, opening, creating, creation, hasVault, awake>>

(* A view that left the screen keeps its camera until it is torn down.     *)
LensCloses ==
  /\ lens /\ route.at # "acquiring" /\ lens' = FALSE
  /\ UNCHANGED <<route, engine, pending, demo, feed, work>>

(* What a description is kept as.                                          *)
Read(p) == [payload |-> p, keys |-> session]

(* A PSBT.  A refused one may have been described all the same.            *)
OfferPsbt(p) ==
  /\ pending' = p /\ UNCHANGED <<session, moneroSet>>
  /\ IF session = "none" THEN Move(At("refused")) /\ UNCHANGED described
     ELSE IF p \in Fatal THEN Move(At("refused")) /\ described' \in {described, Read(p)}
     ELSE Move(About("review", Read(p))) /\ described' = Read(p)

OfferMonero(p) ==
  /\ UNCHANGED <<pending, session, described>>
  /\ IF session = "none" \/ p \in Fatal THEN Move(At("refused")) /\ UNCHANGED moneroSet
     ELSE Move(About("review", Read(p))) /\ moneroSet' = Read(p)

(* What is answered or only read.                                          *)
OfferToRead(p, screen) ==
  /\ UNCHANGED <<engine, pending>>
  /\ Move(At(IF session = "none" \/ p \in Fatal THEN "refused" ELSE screen))

(* The frame that completes a payload.                                     *)
Offer(p) ==
  /\ (awake /\ lens) \/ (feed /\ p = DemoTx)
  /\ \/ Kind[p] = "PSBT" /\ OfferPsbt(p)
     \/ Kind[p] = "XMRUNSIGNED" /\ OfferMonero(p)
     \/ Kind[p] = "XMROUTPUTS" /\ OfferToRead(p, "keyImages")
     \/ Kind[p] = "XMRFILE" /\ OfferToRead(p, "xmrFile")
  /\ UNCHANGED <<demo, feed, lens, work>>

(* A code the scanner can name and will not read.                          *)
NamedRefusal ==
  /\ awake /\ lens /\ Move(At("refused"))
  /\ UNCHANGED <<engine, pending, demo, feed, lens, work>>

-----------------------------------------------------------------------------
(* Signing: the hold at the end of the approval screen.                    *)

(* Mutant: the engine signs the bytes it was handed.                       *)
SignsWhatItIsHanded(tx) ==
  /\ session # "none" /\ described # None /\ pending # None
  /\ pending = described.payload /\ described.keys = session
  /\ pending \notin Fatal /\ Owner[pending] = session

(* host.sign and signPsbt: the digest approved is of the bytes described,  *)
(* and of these bytes, and they were described against these keys.         *)
Signs(tx) ==
  /\ session # "none" /\ described # None /\ pending # None
  /\ described.payload = tx.payload
  /\ pending = described.payload /\ described.keys = session
  /\ pending \notin Fatal /\ Owner[pending] = session

CompleteSigning ==
  /\ awake /\ route.at = "approve" /\ Kind[route.tx.payload] = "PSBT"
  /\ \/ /\ Signs(route.tx)
        /\ Move([at |-> "signed", tx |-> route.tx, result |-> [payload |-> pending, keys |-> session]])
     \/ Move(At("refused"))
  /\ UNCHANGED <<engine, pending, demo, feed, lens, work>>

(* moneroSign: one approval buys one signature.                            *)
CompleteMoneroSigning ==
  /\ awake /\ route.at = "approve" /\ Kind[route.tx.payload] = "XMRUNSIGNED"
  /\ \/ /\ session # "none" /\ moneroSet # None /\ moneroSet.payload = route.tx.payload
        /\ Owner[moneroSet.payload] = session
        /\ Move([at |-> "signed", tx |-> route.tx,
                 result |-> [payload |-> moneroSet.payload, keys |-> session]])
        /\ moneroSet' = None
     \/ Move(At("refused")) /\ UNCHANGED moneroSet
  /\ UNCHANGED <<session, described, pending, demo, feed, lens, work>>

-----------------------------------------------------------------------------
(* Unlocking, making and erasing.  No vault is made, and none opened after *)
(* setup, within the half second of a call that was delayed before it.     *)

(* LaunchView.proceed, with every check green.                             *)
Proceed ==
  /\ route.at = "launch" /\ Move(At(IF hasVault THEN "unlock" ELSE "setup"))
  /\ UNCHANGED <<engine, pending, demo, feed, lens, work>>

BeginOpen ==
  /\ awake /\ route.at = "unlock" /\ hasVault /\ opening = "no" /\ opening' = "deriving"
  /\ UNCHANGED <<route, engine, pending, demo, feed, lens, timers, creating, creation, hasVault, awake>>

(* host.unlock closes whatever was open first.                             *)
Opens == session' = "vault" /\ described' = None /\ moneroSet' = None /\ feed' = FALSE

(* The engine's unlock, off the main thread.                               *)
EngineOpens ==
  /\ opening = "deriving" /\ "created" \notin timers
  /\ \/ opening' = "opened" /\ Opens
     \/ opening' = "no" /\ UNCHANGED <<engine, feed>>
  /\ UNCHANGED <<route, pending, demo, lens, timers, creating, creation, hasVault, awake>>

(* The rest of openVault, after the migration it awaits.                   *)
Opened ==
  /\ opening = "opened" /\ opening' = "no" /\ Go(At("home"))
  /\ UNCHANGED <<lens, timers, creating, creation, hasVault, awake>>

(* beginCreate and beginRestore.  Setup outlasts an unlock in flight.      *)
BeginCreate ==
  /\ awake /\ route.at = "setup" /\ creation \notin {"working", "done"}
  /\ creating = "no" /\ opening = "no"
  /\ creating' = "deriving" /\ creation' = "working" /\ Move(At("entropy"))
  /\ UNCHANGED <<engine, pending, demo, feed, lens, timers, opening, hasVault, awake>>

(* sealAndOpen, which makes no vault where there is one.                   *)
EngineCreates ==
  /\ creating = "deriving" /\ timers = {}
  /\ \/ ~hasVault /\ creating' = "opened" /\ Opens
     \/ creating' = "failed" /\ UNCHANGED <<engine, feed>>
  /\ UNCHANGED <<route, pending, demo, lens, timers, opening, creation, hasVault, awake>>

FinishCreate ==
  /\ creating \in {"opened", "failed"} /\ creating' = "no"
  /\ creation' = (IF creating = "opened" THEN "done" ELSE "failed")
  /\ hasVault' = (hasVault \/ creating = "opened")
  /\ UNCHANGED <<route, engine, pending, demo, feed, lens, timers, opening, awake>>

TryAgain ==
  /\ awake /\ route.at = "entropy" /\ creation = "failed" /\ Move(At("setup"))
  /\ UNCHANGED <<engine, pending, demo, feed, lens, work>>

(* EntropyView.advance, and the call it delays.                            *)
Advance ==
  /\ route.at = "entropy" /\ creation = "done" /\ timers' = timers \cup {"created"}
  /\ UNCHANGED <<route, engine, pending, demo, feed, lens, opening, creating, creation,
                 hasVault, awake>>

FireCreated ==
  /\ "created" \in timers /\ timers' = timers \ {"created"} /\ Move(At("created"))
  /\ UNCHANGED <<engine, pending, demo, feed, lens, opening, creating, creation, hasVault, awake>>

EraseVault ==
  /\ awake /\ route.at = "recovery"
  /\ Lock /\ hasVault' = FALSE /\ creation' = "idle" /\ Move(At("setup"))
  /\ UNCHANGED <<demo, lens, timers, opening, creating, awake>>

-----------------------------------------------------------------------------
(* Leaving the foreground.                                                 *)

(* Mutant: a demonstration goes on behind the lock.                        *)
SleepInDemo ==
  /\ awake /\ awake' = FALSE
  /\ Lock /\ creation' = "idle"
  /\ route' = IF hasVault /\ route.at # "launch" THEN At("unlock") ELSE route
  /\ lens' = (lens \/ (demo /\ ~hasVault /\ route.at = "acquiring"))
  /\ UNCHANGED <<demo, timers, opening, creating, hasVault>>

(* Vault.sleep, with whatever derivation or delayed call is in the air.    *)
Sleep ==
  /\ awake /\ awake' = FALSE
  /\ Lock /\ creation' = "idle" /\ demo' = FALSE
  /\ route' = IF hasVault /\ route.at # "launch" THEN At("unlock") ELSE route
  /\ lens' = (lens \/ (demo /\ ~hasVault /\ route.at = "acquiring"))
  /\ UNCHANGED <<timers, opening, creating, hasVault>>

Wake ==
  /\ ~awake /\ awake' = TRUE
  /\ UNCHANGED <<route, engine, pending, demo, feed, lens, timers, opening, creating,
                 creation, hasVault>>

Moving   == Press \/ PressOnward \/ Verified \/ ScanAgain
Scanning == BeginDemo \/ Recognised \/ FireAcquiring \/ LensCloses
            \/ (\E p \in Payload : Offer(p)) \/ NamedRefusal
Signing  == CompleteSigning \/ CompleteMoneroSigning
Keys     == Proceed \/ BeginOpen \/ EngineOpens \/ Opened \/ BeginCreate \/ EngineCreates
            \/ FinishCreate \/ TryAgain \/ Advance \/ FireCreated \/ EraseVault
Away     == Sleep \/ Wake

Next == Moving \/ Scanning \/ Signing \/ Keys \/ Away

Spec == Init /\ [][Next]_vars
-----------------------------------------------------------------------------
(* Properties.                                                             *)

(* Every variable keeps its type, and a screen has what it is about. *)
TypeOK ==
  /\ route \in Route /\ session \in Wallet \cup {"none"}
  /\ described \in Tx \cup {None} /\ moneroSet \in Tx \cup {None}
  /\ pending \in Payload \cup {None} /\ timers \subseteq {"acquiring", "created"}
  /\ {demo, feed, lens, hasVault, awake} \subseteq BOOLEAN
  /\ opening \in {"no", "deriving", "opened"}
  /\ creating \in {"no", "deriving", "opened", "failed"}
  /\ creation \in {"idle", "working", "done", "failed"}

(* completeSigning, sign, signPsbt: whatever the camera delivered behind   *)
(* the approval, what was signed are the bytes that were on the screen,    *)
(* with the keys they were described against.                              *)
SignedIsWhatWasApproved == route.at \in Signed => route.result = route.tx

(* lockInternal: an approval never outlives the session that described it. *)
ApprovalBelongsToSession ==
  /\ described # None => described.keys = session
  /\ moneroSet # None => moneroSet.keys = session

(* go, endDemo: "no screen outside the walk may run against those keys".   *)
DemoKeysStayInDemo == session = "demo" => demo /\ route.at \in Walk

(* Flow rule 3: from a refusal the scanner or home, or a lock; no frame    *)
(* still coming and no delayed call leads anywhere else.                   *)
RefusalIsDeadEnd ==
  [][route.at = "refused" => route'.at \in {"refused", "scanner", "home", "unlock"}]_vars

(* sleep: "Locking is the one transition that must win from every state".  *)
LockWins == ~awake => session = "none"

(* What they rest on.  A transaction on the screen was described with the  *)
(* keys the engine holds now, if it holds an approval or may be given one. *)
Coherent ==
  /\ lens => ~demo
  /\ session = "demo" => demo
  /\ feed => session = "demo"
  /\ route.at \in Carrying =>
       /\ lens => route.tx.keys = "vault"
       /\ feed => route.tx.keys = "demo"
       /\ described # None \/ moneroSet # None => route.tx.keys = session

(* The call that shows a created vault is the last thing in the air.       *)
InOrder ==
  /\ "created" \in timers =>
       /\ timers = {"created"} /\ route.at \in {"entropy", "unlock"}
       /\ opening # "opened" /\ creating = "no" /\ creation \in {"done", "idle"}
  /\ route.at = "entropy" =>
       /\ opening = "no"
       /\ creating = "opened" \/ creation = "done" => timers \subseteq {"created"}
  /\ creation = "done" => creating = "no"

(* The inductive invariant. *)
IInv == /\ TypeOK /\ SignedIsWhatWasApproved /\ ApprovalBelongsToSession
        /\ DemoKeysStayInDemo /\ Coherent /\ InOrder

(* lock, sleep: what a lock holds even where it loses the race of LockWins. *)
(* Until the app is back no approval is kept, no bytes wait to be signed   *)
(* and nothing of a demonstration is left...                               *)
NothingToSignWhileAway ==
  ~awake => /\ described = None /\ moneroSet = None /\ pending = None
            /\ session # "demo" /\ ~demo /\ ~feed

(* ...and keys open behind it only as the end of an unlock or of a         *)
(* creation that was deriving when the app was left: no frame, no delayed  *)
(* call and no further attempt opens them.                                 *)
OnlyADerivationWarms ==
  [][~awake =>
       /\ session' # session => session' = "vault" /\ "deriving" \in {opening, creating}
       /\ opening' = "deriving" => opening = "deriving"
       /\ creating' = "deriving" => creating = "deriving"]_vars

(* What stands on the screen, as Approval sees it.                         *)
Stage(at) == CASE at \in {"review", "destination"} -> "reading"
               [] at = "approve" -> "asked"
               [] at \in Signed -> "signed"
               [] at = "refused" -> "refused"
               [] OTHER -> "away"

(* A camera that delivers behind every screen, calls that run half a       *)
(* second late, keys that open or close under a screen: the vault keeps    *)
(* the promise of Approval all the same.                                   *)
Screen == INSTANCE Approval WITH
  Keys <- Wallet, Practice <- "demo",
  stage <- Stage(route.at), shown <- route.tx, signature <- route.result, open <- session
KeepsTheApproval == Screen!Promise
=============================================================================
