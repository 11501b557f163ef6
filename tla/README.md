# Labyrinth: a verification development

Labyrinth is two programs that share no network. The **vault** (`ios/LabyrinthVault`,
a Swift interface over the TypeScript engine of `src/` running in JavaScriptCore)
holds the seed on a phone without a radio. The **wallet** (`wallet/`, React Native)
watches the chain, builds payments, shows them to the vault's camera, reads
signatures back from the vault's screen and publishes them; it can also hold keys of
its own, behind Face ID. A **worker** (`worker/`) relays the wallet's requests to
nodes and exchanges.

This directory holds TLA+ models of the parts where order matters, the TLC
configurations that check them on small instances, and proofs that TLAPS checks for
every instance. Paths below are relative to the repository root.

| module | models | with it |
|---|---|---|
| `SendSession` | the wallet's send flow | `MCSendSession`, `SendSession_*.cfg`, `SendSessionProofs` |
| `PaymentPromise` | what that flow promises about a payment (abstract) | implemented by `SendSession` |
| `VaultSigning` | the running vault: screens, engine session, approvals, lock and unlock | `MCVaultSigning`, `VaultSigning_*.cfg`, `VaultSigningProofs` |
| `Approval` | what those screens promise about a transaction (abstract) | implemented by `VaultSigning` |
| `SealedVault` | the vault at rest: keychain items and every path that writes them | `MCSealedVault`, `SealedVault_*.cfg`, `SealedVaultProofs` |
| `Keeper` | what a phone promises about the vault on it (abstract) | implemented by `SealedVault` where no task is cut short |
| `Airgap` | the camera between the two: scanner, LV1 collector, BC-UR fountain collector | `MCAirgap`, `Airgap_frames.cfg`, `AirgapProofs` |
| `Transfer` | what that camera promises (abstract) | implemented by `Airgap` |
| `Watching` | the wallet's Monero accounts, their watchers, the resumable walk, key images, stored positions | `MCWatching`, `Watching_*.cfg`, `WatchingProofs` |
| `Discovery` | the wallet's Bitcoin view: the gap-limit walk, its coins, the change index | `MCDiscovery`, `Discovery_*.cfg`, `DiscoveryProofs` |
| `SpendingKeys` | the wallet's one record of keys: making, restoring, forgetting, reading back | `MCSpendingKeys`, `SpendingKeys_kept.cfg`, `SpendingKeysProofs` |

To repeat a run: `tlc -config SealedVault_killed.cfg MCSealedVault`. To repeat the
proofs: `tlapm SealedVaultProofs.tla`.

## 1. Inventory

### Vault

| part | state | operations | interacts with | hard | correct when |
|---|---|---|---|---|---|
| **Screens and routes**: `Model/Vault.swift`, `Model/Flow.swift`, `Screens/*`, `App.swift` | route, pending bytes, demonstration flag, creation stage, unlock in flight | go, offer, completeSigning, scanAgain, beginCreate, openVault, eraseVault, sleep, boot | engine (calls, some off the main thread), sealed store, camera, scene phase | derivations that end after the app was left; moves delayed by half a second; frames that arrive behind another screen | what is signed is what was shown; a refusal is a dead end; a lock wins |
| **Engine bridge**: `src/bridge/host.ts`, `Support/Engine.swift` | open session, approval digests of each chain, the Monero set, the scanner | unlock, create, restore, demo, describe, sign, moneroDescribe, moneroSign, lock, reseal | Swift side through one serial object; airgap; keys | the demonstration and an unlock replace the open session | an approval dies with the session that described it; one Monero approval buys one signature |
| **Sealed store**: `Support/SealedStore.swift`, `BiometricUnlock.swift`, `Passphrase.swift`, the making, migrating and erasing paths of `Model/Vault.swift`, `src/keys/seal.ts` | four keychain items: blob, witness, device secret, passphrase behind Face ID | save, load, erase, deviceSecretHex, enroll, forget, sealAndOpen, migrateToLayeredScheme | the keychain, which has no transactions | kills between two calls; refused adds; failed reads; the passcode being turned off | keys survive, no half is lost, a right passphrase opens, an erase leaves nothing |
| **Airgap transport**: `src/airgap/*` | parts so far, fountain pieces, mixed pieces | encodeParts, offer, reset | both cameras | frames lost, repeated, reordered, or of two animations | assembles the sender's payload or nothing |
| **Keys and signing arithmetic**: `src/keys/*` | none across calls | PSBT reading and signing, descriptors, Monero construction | engine bridge | arithmetic, parsing | its test vectors |

### Wallet

| part | state | operations | interacts with | hard | correct when |
|---|---|---|---|---|---|
| **Send flow**: `core/session.ts`, `state/store.tsx`, `screens/Send*.tsx`, `core/hotsign.ts`, `core/signgate.ts` | reducer session (step, draft, account, verdict, txid), calls in flight, vault link | prepare, transmit, hand over, read back, sign here, verify, broadcast, back, close | a Monero node while planning, Face ID, the camera, the publishing node | callbacks that dispatch into a session other than the one they captured; a selection that moves under a draft; lost answers | only what matched and was signed by the owner of the keys is published; a vault account is never signed here; a mismatch is terminal; nothing stays pinned |
| **Persistence, accounts, keys**: `state/persist.ts`, `state/*Store.ts`, `core/accounts.ts`, `core/keyvault.ts`, `core/pairing.ts` | one JSON file, two keychain records | load, save, keepHot, acceptPairing, forget, forgetEverything | launch, every setter | the launch load against early edits; kills between keychain and file; an account id reused | nothing forgotten comes back; nothing kept is overwritten by an older value |
| **Chain watching**: `core/watchers.ts`, `core/watcher.ts`, `core/moneroscan.ts`, `core/keyimages.ts`, `core/hotimages.ts` | scan positions, found outputs, key images imported, spent, pending | refreshAll, scan (resumable, capped), import images, mark pending, reconcile | nodes; send flow (coins locked after a broadcast) | a scan that stops half way through a block; reorganisations; a refresh asked for during one | each output counted once; a coin in flight is not selected again |
| **Bitcoin discovery**: `core/discover.ts`, `core/findcoins.ts`, `core/build.ts` | next index per chain, change offset of this launch | discover, nextReceiveAddress, change address | Esplora, send flow | the gap limit; the change index ahead of the scan | no used address is hidden by a bound; change is not reused |
| **Swaps**: `core/swap.ts`, `core/swaptrack.ts`, `net/swapproxy.ts` | one pending order | quote, create, deposit, status, dismiss | worker, send flow | a status answer for an order that was replaced | the status shown is of the order shown |
| **Networking**: `net/*` | oblivious key configuration | send with a deadline, route, refresh keys | nodes, worker | retries after a key change; a deadline racing an answer | one's own node is never proxied; no fallback that was not asked for |
| **Backup and vault file**: `core/backup.ts`, `core/vaultfile.ts`, `core/monerofile.ts` | creation checklist | begin, confirm words, keep | keyvault | order of confirmations | nothing is kept before its words were confirmed |

### Worker

| part | state | operations | hard | correct when |
|---|---|---|---|---|
| **Gateway, relays, rate limit, prices**: `worker/src/*` | a counter per caller and minute, cached prices, key list | open, seal, relay, checkLimit, currentPrices | requests that read one counter together (the code documents the overshoot); key rotation | only listed hosts are reached; a lost counter never stops service |

Also in the repository and without run-time state of this system: the test oracles
(`oracle/`), the site, design files, scripts and release tooling.

`PROJECT.json` lists the same components with their status, and under `hazards` each
place where the code is exposed, with the properties that watch it or the reason
none does yet.

## 2. Plan

The order is by what a mistake would cost.

1. `SendSession`, `PaymentPromise` – done. A payment published wrongly is final.
2. `SealedVault` – done. A blob lost is the wallet lost.
3. `VaultSigning` – done. What the screen says must be what is signed.
4. `Airgap`, `Transfer` – done. Parts of two payloads are never joined, and peeling
   loses nothing.
5. `SpendingKeys` – done for the record of keys. The JSON file is modelled where
   something else rests on it: the scan positions, in `Watching`. Its validation, the
   nodes kept in it and the pairing's keychain item are left.
6. `Watching` – done for accounts, watchers, walk, key images and the end of a
   refresh. Left: the coins locked after a broadcast (`KeyImageBook`'s pending marks)
   and reorganisations.
7. `Discovery` – done for one account. Left: `findcoins.ts`, and the swap's
   `SwapTracker`, whose one hazard is listed.
8. `RateLimit` and the gateway's key rotation, `ObliviousClient` (left), with the
   documented overshoot as a bound, not as an error.

Composition: 1 and 3 meet in 4. Today each of 1 and 3 models the other side as an
external action, and 4 shows what the camera between them hands over. 2 and 3 meet in
`hasVault`, `opening` and `creating`: 3 takes from 2 that an unlock or a making either
succeeds or leaves things as they were. 3 has no vault that vanished: that screen is
2's. 5 and 6 meet in `KeepHot` and `Forget`, whose keychain half is 5's; 6 and 7 share
the one refresh of `store.tsx` and split it by chain; 7 and 1 meet in `prepareDraft`.

## 3. The wallet's send flow: `SendSession`

**State.** `session` is the reducer's state of `core/session.ts`, one field per field
that a guard or a property reads; each `On...` operator is one event of `reduce` and
is the identity where the code ignores the event. A draft stands for the transaction
it describes, and altered signed bytes are the value `None`, which no draft equals.
The `wire` variable is the heart of the model: `acceptWirePayload` is a memoised
callback whose dependency list leaves out the session, so it verifies against the
session of the last time one of its dependencies changed. `planning`, `prompts` and
`casts` are asynchronous calls in flight, each a record of what its closure captured
(`Captured`, `OwnCast`).
`wanted` and `present` are the accounts screen. `acctOf`, `shown`, `signedHere`,
`signedAway`, `passed` and `accepted` are history: the program does not keep them,
the properties do.

**Actions.** One per handler: building (`PrepareBitcoin`, `StartPlan`, `PlanLands`),
the vault's handoff (`BeginTransmit`, `HandOver`, `ReadBack`, `ScanTxSigned`,
`StandInAnswers` of development builds), the hot signer (`SignOnThisDevice`,
`PromptRefused`, `PromptAllowed`), publishing (`Broadcast`, `CastAccepted`,
`CastFailed`) and the rest of the phone (`Back`, `Close`, `DepositForSwap`,
`SelectAccount`, `SetNodes`, `AddAccount`, `ForgetAccount`, `Relaunch`). A
timed-out broadcast may or may not have reached the node. `VaultSigns` is external:
the person approves, on the other device, a payment whose frames were shown.

**Abstracted.** The compose fields, the choice of coins and fees, the wording of
errors, the counters of the receive screen, and the signing arithmetic. A watcher
that answers slowly appears as a plan or a cast that lands late. A returned signature
may be a mismatch although it is the right one: a Monero transaction is matched by key
images, and a watcher that is gone or was rebuilt since the draft knows none of them
(`store.tsx:883-886`). An exception is not modelled: what throws inside
`signOnThisDevice` past its `finally` (`store.tsx:986-1016`) or inside the answer to a
broadcast (`store.tsx:1058-1076`) is caught by nobody and dispatches nothing, so
`SigningSettles` and `BroadcastSettles` say nothing of a signer or a handler that throws.

**Bounds.** Two payments and two accounts, one that signs here and one paired with a
vault. Two payments are what a stale closure needs (one captured, one live); two
accounts are what a moving selection needs. A draft is built at most once, which is
the only bound on the length of a behaviour's history: every set of calls in flight
is finite without one. `DraftSymmetry` is in the MC module and is used by no
configuration, as most of them check temporal formulas.

| run | shows |
|---|---|
| `send_safety` | on both accounts with the stand-in vault: `LastVerifiedCameFromVault` (the vault link records only what the vault signed), `VaultCoinsNeverSignedHere`, `DraftKeepsItsAccount`; the whole flow implements `PaymentPromise` (`KeepsThePromise`); `DoneNamesItsPayment` (the done screen shows the id of the payment it is about, unless the call of another payment is in the air beside its own); and neither the prompt nor the broadcast pins a payment (`SigningSettles`, `BroadcastSettles`) |

**Abstract specification.** `PaymentPromise` has no screens, calls or sessions: a
payment is built for one account, signed by this phone only if the account's keys are
here and by the vault only if they are not, matched only after it was signed, and
handed to a node only after it matched. `SendSession` implements it under the
identity on the shared variables.

**Fairness.** Only two obligations, both on calls in flight: a prompt is answered
(iOS dismisses a Face ID prompt that nobody answers), and a broadcast ends
(`net/http.ts` gives every request a deadline). No person is obliged to press
anything, and the vault is obliged to nothing.

**Waiting.** `SigningSettles` and `BroadcastSettles` rest on two facts that need no
fairness and are theorems: a step that only waits has the call it waits for in flight,
a broadcast its own (`WaitsForSomething`), and the first answer to come ends the wait,
be it the answer to an earlier call (`AnswersEndTheWait`). What is left to the model checker is that an
answer comes.

**Known divergences**, met while modelling; `IInv` and the properties above hold in
spite of them.

- A scan runs the callback of an earlier render. After a change of account or node
  during an earlier payment, scanning that payment's signature puts the *later* one in
  `ready`: `store.tsx:1206` compares with the draft it captured, `session.ts:222-230`
  dispatches into the live session, while `session.ts:15` says that only a session
  whose own signature matched is ready. What is then published is still the earlier,
  matched transaction (theorem `OnlyMatchedIsAccepted`; it is a part of `PaymentPromise`);
  the screen names another.
- After a refused Face ID prompt, `Send.tsx:722-723` says that the transaction is
  still here; `back` from that screen discards the draft.
- A scan while the closure holds no draft is acknowledged as received and dropped
  (`store.tsx:1173`).
- An earlier broadcast's answer ends a later payment's broadcast when both are in the air
  (`store.tsx:1067`). A payment is signed and published, a swap deposit is started while
  its answer is awaited, and that second payment is signed and published too: the first
  answer to come is dispatched into the session on the screen, whosever it is. So the
  done screen of the second shows the id of the first, and the second may still fail
  unseen. Without its second alternative `DoneNamesItsPayment` fails on this path, in
  eleven states. What a node is given is not touched by it, and `PaymentPromise`, which
  has no screens, does not see it; neither does it see the first divergence above.

## 4. The running vault: `VaultSigning`

**State.** `route` is the screen with the transaction it is about and the signature
it shows; `session` says whose keys the engine holds: the vault's, the
demonstration's, or none; `described` and `moneroSet` are the approvals the engine
keeps, and `pending` the bytes the shell keeps for signing. A transaction is a payload
*and* the keys it was described with, because whose inputs and whose change the
screen claims depends on both. `demo` and `feed` are the demonstration and its
frames, `lens` an acquiring camera that can still deliver, `timers` the calls queued
with `asyncAfter`, `opening` and `creating` the derivations off the main thread,
`creation` the stage the setup screens read, `awake` the scene phase.

**Actions.** `Allowed` is the table of `Model/Flow.swift`; `Move` ignores what it
refuses, as `go` does; `Go` adds what `go` does in a demonstration. `Levers` and
`Onward` list which control on which screen leads where. `Offer` is the frame that
completes a payload of any of four kinds; `CompleteSigning` and
`CompleteMoneroSigning` are the hold at the end of the approval screen with the
engine's checks (`Signs`): the approved digest is of the described bytes, of the bytes
handed in, and they were described against the open session's keys. Each derivation
is three actions – begin, the engine's half, the shell's half – because the app can be
left between any two. `Sleep` is the whole of `sleep()`.

**Bounds and named approximations.** Six payloads: a payment of each chain, the
demonstration, one that refuses, a key image request, a Monero file. Each is the only
one of its kind whose handling differs. Further:

- a camera view stays alive until `LensCloses`, which may come later than SwiftUI would
  tear it down. So frames arrive behind the review and approval screens, and the
  engine's digest checks are exercised and not bypassed;
- making a vault takes longer than a delayed call (half a second against walking
  setup, choosing a passphrase and the derivation): `EngineCreates` requires
  `timers = {}`. So does an unlock that follows setup: `EngineOpens` requires that the
  call which shows a created vault has run. An unlock may end with the scanner's
  delayed call still queued;
- one creation at a time, and none while an unlock is in flight (setup is several
  screens away); a demonstration begins two screens from any camera still closing;
- the setup stages are four: setup, entropy, created, verify. A relaunch is `Init`.

The app can be left at any moment, with a derivation or a delayed call in the air.

| run | shows |
|---|---|
| `vault_flow` | with the app left at any moment: the screens implement `Approval` (`KeepsTheApproval`); `ApprovalBelongsToSession`, `DemoKeysStayInDemo`, `RefusalIsDeadEnd`; and `OnlyADerivationWarms`: behind the lock no frame, no delayed call and no new attempt opens keys, only a derivation that was under way |
| `vault_warm` | **fails**: `LockWins` |

**Abstract specification.** `Approval` has no routes, cameras, calls or kinds of payload:
there is a transaction on the screen, read or asked for approval or signed, and there
are open keys. A transaction comes on the screen only with the keys it was described
with; it is replaced while it is read and never once its approval is asked for; what is
signed is that transaction, with those keys still open; a refusal is left before
anything else is read. Keys open and close under any screen, except that those of the
demonstration open only where neither a transaction nor a refusal stands. `Stage` maps
the routes; a transaction's detour to its destination is no step of `Approval`. It
contains `SignedIsWhatWasApproved`, which is proved as well.

**What fails, and why.** `sleep` locks an engine that has nothing open yet, and the
unlock in flight opens it afterwards, in the background (`LockWins`). The same race
the other way round: an unlock whose engine half ended before the app was left, and
whose shell half runs after it, calls `go(.home)` from the passphrase screen, which the
flow table allows, over an engine that `sleep` has locked (`Vault.swift:842` against
`926-927`). What a lock does hold is proved: until the app is back no approval is kept,
no bytes wait to be signed and nothing of a demonstration is left
(`NothingToSignWhileAway`), and the race above is the only way keys open behind it
(`OnlyADerivationWarms`).

No liveness is stated: each wait of the vault is on a person or on a derivation whose
failure has its own branch, and nothing of it retries.

## 5. The vault at rest: `SealedVault`

**State.** The four keychain items `blob`, `witness`, `device` and `bio`; whether the
phone has a `passcode`, to which all but the witness are bound; `pc` and `task`, where
the one writing path is and what it holds; `stored`, the blob in memory. Sealing is
abstract: a blob is the passphrase and the device half that open it, and the secret
inside. `kept` and `vanished` are history: the secret the person was shown to have
here, and whether a vault went with the passcode and nobody said so.

**Actions.** One keychain call per step. `SealedStore.save` is `SaveDelete`,
`SaveAdd`, `SaveUnwitness`, `SaveWitness`; a making goes on to `ReadBack`; a failed
making erases, item by item, through the same actions as an erase from Settings.
`deviceSecretHex` is `ReadHalf` and `AddHalf`; `openVault` is `BeginOpen`,
`FinishOpen`, the migration of `BeginMigrate` and the enrolment of a passphrase.
`Kill`, `PasscodeOff` and `PasscodeOn` are the phone's.

**The phone.** Four constants say what the phone may do in the middle of a task:
`MayKill` (the process ends), `MayRefuse` (an add or the engine fails), `MayMiss` (a
read fails for an item that is there), `MayRearm` (the passcode goes off and comes
back within one task); `FromOldBuild` says it may hold a vault from before device
secrets. Each property is checked under the strongest phone it holds on, and the
statement of that phone is part of the result:

| run | phone | shows |
|---|---|---|
| `seal_killed` | old build, kills, refusals | `LayeredHasHalf`, `SetupIsEmpty`, `RightPassphraseOpens`, and `MigrationKeepsTheVault`: a migration only ever writes the vault just opened, over one of the old scheme |
| `seal_quiet` | old build, no task cut short | the vault at rest implements `Keeper` (`KeepsTheVault`); `KeysSurvive`, `StoredPassphraseOpens` |
| `seal_migration` | old build, kills | **fails**: `KeysSurvive` |

Quiet does not mean that nothing goes wrong: in `seal_quiet` the passcode may go off
in the middle of any task and refuse the next add, the process may be killed on any
resting screen, and a face or a passphrase may be forgotten at any time.

**What fails, and why.** `seal_migration`: the save of a migration deletes the only
blob before it adds the new one, and a kill between the two leaves none. With
`MayMiss`, `LayeredHasHalf` fails: `existingDeviceSecret` (`SealedStore.swift:212`)
answers nil for every status but success, so a read that fails after an unlock is taken
for a vault of the old scheme, and its device secret is deleted and replaced before the
reseal can refuse (`Vault.swift:861-867`).

**A migration is tried once.** `Vault.swift:868-871` says that after an interruption
"the next unlock works and migrates again", line 877 that after a failure "the next
unlock tries again". The unlock works (`RightPassphraseOpens`); it does not migrate. The
first keychain call of a migration stores the device secret, and the guard at line 897
returns whenever one is stored: after a kill or a refusal at any later call the blob
stays sealed the old way (`BeginMigrate`, whose guard this is), and only a new making
would change that. No property claims otherwise.

**Abstract specification.** `Keeper` has three variables: the vault that can be opened
here, what the running app holds of it, and whether one was lost and nobody was told.
A vault is made only where there is none and none is untold of; the app finds it,
closes, erases it; the passcode takes it; a person is told. A vault being made or
erased is not one a person has (`Between`), and between the two calls of a migration's
save only the process has it (`Carried`). One action of `Keeper` was not expected: an
app that stays open when the passcode takes an old-scheme vault still has the blob in
memory, opens it, and its migration writes it down again (`WriteBack`), the same vault.
No run passes without any one of `Keeper`'s actions. `SealedVault` implements it only
on a phone that cuts no task short; that is the hypothesis of the theorem, and the
table below shows that each part of it but `MayRearm` is needed. `KeepsTheVault`
contains `VanishingIsTold`, and fails on the phones on which that does.

A task is a chain of keychain calls that gives up or goes on (`TasksEnd`): `CallsLeft`
counts what is left of it, on any phone, whatever the calls answer.

Which property needs which phone was found by turning on one constant at a time over
`seal_quiet`, with the definitions no run checks (`SetupIsClean`, `VanishingIsTold`)
beside those of its run. A property not named in a row holds there.

| constant | fails with a vault of the old scheme | fails without one |
|---|---|---|
| `MayKill` | `KeysSurvive`, `VanishingIsTold`, `SetupIsClean`, `StoredPassphraseOpens` | `VanishingIsTold`, `SetupIsClean`, `StoredPassphraseOpens` |
| `MayRefuse` | `KeysSurvive`, `VanishingIsTold`, `SetupIsClean`, `StoredPassphraseOpens` | `VanishingIsTold` |
| `MayMiss` | `LayeredHasHalf`, `RightPassphraseOpens`, `KeysSurvive`, `VanishingIsTold` | the same |
| `MayRearm` | `LayeredHasHalf`, `RightPassphraseOpens`, `KeysSurvive`, `SetupIsClean`, `StoredPassphraseOpens` | the same |

Most of the table has one of four causes: the save's delete before its add; an erase
that nothing resumes; a witness that is written after the blob and that nobody asks
about; and a device secret whose absence is read as the age of the vault. The first
has a run of its own, as the source states the opposite.

**Bounds.** Two secrets, two passphrases, three draws of a device half. Two of the
first two tell "the vault just opened" from another; a third half is one to draw while
one is stored and one is in memory. All three sets are symmetric and no run with
`SYMMETRY` checks liveness. Two vaults can follow each other in one behaviour without
bound.

## 6. The camera between them: `Airgap` and `Transfer`

**State.** Two collectors stand side by side, as in `scanner.ts`. The LV1 collector
(`envelope.ts`) has the digest it is collecting for (`held`), the `total` the first part
stated, and the `parts`. The BC-UR collector (`ur.ts`) has the message (`msg`), the
known fragments (`simple`), the mixtures (`mixed`), the pieces still to be worked off
(`queue`), and `hand` and `todo`, the piece `takeMixed` is reducing and what is left
to reduce it by. A piece is the set of fragments it is filed under and, separately,
the content it holds, so that a reduction of one without the other would show.
`settled` is the animation the camera stays on, `out` what the last frame returned.

**Actions.** `OfferPart`, `OfferWhole`, `OfferFrame` and `Junk` are what one frame can
be; `TakeSimple`, `TakeMixed`, `ReduceHand`, `PlaceHand` and `Finish` are the loop that
frame starts, one reduction per step. Inside one call nothing else runs: `busy` keeps
the camera out until `Finish`. The small steps are there because the order in which a
set is walked is left open.

A turn of the loop looks at a piece or opens a mixture, and loses nothing known on the
way (`OfferAdvances`).

**The camera.** It misses frames, sees one many times, sees two animations at once, and
misreads: an LV1 part may carry another total, another body of the same payload or
nothing that parses, a fountain frame may carry one wrong fragment. A misread that the
text of a frame would not survive (its digest, its header) is another frame. A UR text
that does not parse is answered with the message already whole, if one is (`ur.ts:307`),
so `Junk` may hand that payload over once more.

| run | shows |
|---|---|
| `airgap_frames` | `PiecesAreTrue`: without a misread every piece is the XOR of what it is filed under. `NothingLeftToPeel`: between two frames nothing can be reduced further. `KeepsTheRelay`: the collectors implement `Transfer`. `FramesAddUp`: a camera that stays on one animation gets its payload |

**Abstract specification.** `Transfer` keeps pieces only out of frames that were shown,
may lose any of them at any time, and hands over the payload of the last frame only
when all of that payload's pieces are kept. It does not know of totals, digests,
mixtures or checksums. The mapping takes as kept the parts that read right, and of the
fountain's pieces the fragments they cover; once a message is done, only those of its
fragments whose content is right.

**Fairness.** A frame's loop ends (`Drain`), and the animation goes round (`wire.ts`,
`UrEncoder.nextPart`), so a camera that has settled sooner or later reads a part it
still needs. That is strong fairness, as the need comes and goes with the loop.
`FramesAddUp` has one exception, `Wedged`: a misread total on the *first* part of a
payload is believed, and every right part is refused from then on (`envelope.ts:348`)
until the scan is started again or another payload is seen.

**Bounds and approximations.** Two LV1 payloads of two parts, a fountain message of
three fragments and one of two, and one that fits in a frame and is not one byte
string. Three fragments are the least for which one mixture is reduced by another and
then by a known fragment. Misread totals go to three. One misread per fountain message:
a second would only
spoil what is spoilt. Neither the kind letter of an LV1 part, which its
digest does not cover, nor the limits on a message's size are modelled. A completed LV1
collector keeps its parts, so a repeated frame hands the payload over again, as in the
code.

## 7. The Monero accounts: `Watching`

**State.** `owned` is what the pairing and the keychain say each account id holds.
`keys` is the memo the watchers are built from; `current` the watchers on the screen;
`detached` those a refresh set out with and that have been replaced since. A watcher
has its outputs, key images, which of them are settled, the spends it knows, and how
far it has walked. `starts` (in the file too) and `session` are the positions a walk is
resumed from. `pass` is a refresh in flight, `walk` the account it is working on. `tip`
and `spentAt` are the chain. `covered` is history: the blocks walked with each wallet's
keys since launch.

**Actions.** What the person does: `AcceptMonero`, `AcceptBitcoin`, `KeepHot`, `Forget`,
`SetNode`, `ForgetStored`, `Relaunch`, `ImportKeyImages`. A refresh is `BeginRefresh`,
then for each account `StartWalk`, `ReadBatch` and `CloseBlock` for each block,
`EndWalk`, and `Settle` for the backward look at images never asked about; then
`EndRefresh`. One step per answer of the node, so everything the person does happens
between two answers. `Unanswered` and `EndWalk` are the failures: a node that is down,
not set or behind, and an answer that failed or came short, at any point of a block.

| run | shows |
|---|---|
| `watch_refresh` | `WalkedWhole`: a watcher holds exactly its wallet's outputs of the blocks it walked. `ResumedWhereWalked`: no watcher alive, on the screen or held by a refresh, started above the birth it was built for but over blocks walked with this wallet's keys. `SettledSpendsAreKnown`: an image counts as settled only when a spend in a walked block is known. `RefreshEnds` |
| `watch_resumed` | **fails**: `ResumedWithItsFindings` |

**What fails, and why.** `watchers.ts:111-114` lets a position be resumed only "when the
outputs that go with it are still here", and tests that by identity. A Monero account
is paired and refreshed, then the Bitcoin key of the same vault is scanned. The pair
is a new account, so its watcher is built anew, and the position is the identical
object, so the new watcher resumes at the walked height with none of the outputs found
below it. They are missing until the app is launched again.

A refresh is never taken back by what is done meanwhile (`RefreshAdvances`): it ends, an
account is done with, or that account's walk begins, reads more of a block, passes it
or goes on to ask about images. It passes no more blocks than the budget
(`BudgetIsKept`), and those do not change under it (`BlocksStand`).

Three smaller things the model has as the code has them: an address accepted again with
an earlier birth (`pairing.ts:90-91`) finds its watcher carried over
(`watchers.ts:143`, `188`), which keeps the start it was built with, so the blocks from
the new birth to that start are never walked by it, while `watchers.ts:116-120` reasons as
if an earlier birth always brought a new start (`ResumedWhereWalked` is about the birth a
watcher was built for, its history field `birth`, and says nothing of a later one); a refresh in flight writes back
the position of an account that was forgotten meanwhile, although
`store.tsx:1327-1330` says nothing stale is written back (`ResumedWhereWalked` holds all
the same, as the position is of another wallet or of the same one); and a refresh asked
for while one is in flight is dropped (`store.tsx:666`).

**Fairness.** Only the refresh: every request is answered or ends at its deadline.

**Bounds and approximations.** Two wallets may stand under the vault's id and one under
the hot one; three outputs, two in one block, so a block can be answered in part; two
blocks; one block per refresh, so a walk needs two; three things the person does. A
failure needs at most three (pair, pair again or forget, restore), and the number of
refreshes is not bounded. That one wallet stands under both ids is excluded by the
assumption. A launch loads file and keychain in one step. Coinbase outputs are not
scanned by the code. Spends by this wallet and its pending marks, a birth that was not
stated, and reorganisations are not modelled. The run stops where the moves do, so it
does not check deadlock.

## 8. The Bitcoin view: `Discovery`

**State.** The account's `coins` on the chain; the snapshot on the screen (`snap`);
`ahead`, the offset of drafts since the last refresh; the `draft`; and `scan`, the
refresh in flight with the branch, the batch, the addresses not yet answered, the used
ones and the coins. A view also carries, as history, the addresses used and the coins
unspent when its walk began.

**Actions.** `Answer` is one address of a batch, in any order; `CloseBatch` folds the
batch in order, as `walkBranch` does, and goes on to the next batch, the change branch
or the coins; `Fetch` is the coins of one address; `Refused` is any failure, and a
branch cut at the cap. Between any two of them somebody pays, a draft is prepared
(`Prepare`) or published (`Publish`), the keys or the node change (`Rebuild`), the
screen is drawn from a finished view before the refresh has ended (`Redraw`).

| run | shows |
|---|---|
| `discovery_walk` | `BalanceIsWhole`: a view has every coin that lay within the gap from the walk's beginning to its end. `ChangeStaysInReach`: of the first `Gap` drafts after a refresh none has its change where a walk would not look. `ChangeIsFresh`: no draft, however many went before, has its change at an address that was used, within the gap, when the walk it reads began |
| `discovery_reused` | **fails**: `ChangeIsNotReused` |

No step takes a walk back either (`WalkAdvances`): it ends, one address of its batch is
answered, or the next batch begins further up the chain.

**What fails, and why.** `store.tsx:720-722` clears the offset at the end of a refresh
because "the scan has now seen whatever the last drafts spent". A refresh that was
refused, and one that began before the draft was published, clear it too. The next
payment's change lands on the address of the one before. No coin is lost; two payments
are linked.

**What is past the gap.** `nextChangeIndex` adds the offset uncapped (`build.ts:179`),
`prepareDraft` counts every draft (`store.tsx:802-804`), and a refresh runs when a node
is set and when the person pulls for one, and on no timer. So the draft after the first
`Gap` (20 in the code) since a refresh can send its change past the last address a walk
asks about: that coin is in no balance until something nearer is used, although
`build.ts:156-157` says that starting at zero keeps every one inside the window. A later
walk does not see that address used, and a later draft can send its change there again,
against `build.ts:175-177`. Both are why the two properties carry their qualifications:
`ChangeStaysInReach` for every draft and `ChangeIsFresh` for every used address fail with
this configuration, after 22 and 44 states. The draft's history field `near` tells the
first `Gap` from the rest.

**Bounds and approximations.** A gap of three, batches of two and a cap of five, so that
a gap closes inside a batch, across two, and not at all; people pay to the first
address, to the edge of the gap and to one that the cap cuts off. `MaxAhead`, the number
of drafts between two refreshes, bounds the state space and nothing else: it is one more
than the gap, so the draft that leaves the gap is in the run, and no theorem assumes
anything of it. Amounts, fees and confirmations are abstracted: a selection is any set of coins shown. A stale snapshot may select a
coin just spent; the node refuses it. Answers that fail and a walk cut at the cap are
one action, as the code refuses the walk in both cases. The run does not check
deadlock: payments stop at their bound.

## 9. The wallet's record of keys: `SpendingKeys`

**State.** `stored` is the keychain's record and `hot` the app's copy. `read` is what
became of the read at launch, `sheet` the creation on the screen, `call` the keychain
call in flight. `drawn` and `paper` are history: the seeds this phone made, and the
phrases somebody has in writing.

**Actions.** `BeginCreation`, `Reveal`, `Keep`, `CloseSheet` (Backup.tsx, backup.ts);
`Restore` of either chain, which folds the phrase into what the app holds
(`withRestored`); `Forget`. Every keychain call is three steps: asked, carried out,
returned from. `Relaunch` may come between any two, and `CallRefused` instead of the
second.

| run | shows |
|---|---|
| `keys_kept` | `NothingHeldUnwritten`: no key is in the keychain or in use whose words nobody has in writing. `ScansFromBirth`: a seed this phone did not make is scanned from the beginning, by whatever sequence the record came about. `KeepsTheOther`: the keychain loses a chain's key only to a forgetting, to a restore of that chain, or after a launch whose read missed |

The last clause of `KeepsTheOther` is a real way to lose a key, and the only one: a
launch read that fails, or a record that does not parse, loads as "no record"
(`store.tsx:437`). The creation screen then no longer refuses, and a restore starts
from nothing; either overwrites what is stored. `keyvault.ts:485` says "Restoring one
chain must never quietly discard the other", `Backup.tsx:88-89` that the screen
"refuses rather than overwrites".

**Bounds and approximations.** Three Monero seeds and two Bitcoin phrases, symmetric: one
seed drawn, one restored over it, one more. A phrase and its key are one thing. Fresh
entropy names no wallet that exists. A person is slower than the keychain (`Answered`:
nothing is begun before the launch read and the last call returned; the screens also
wait for the file and the pairing, which are asked for later). The backup screen adds
nothing here, as it shows what is on paper already; its Face ID prompt is the one of
`SendSession`.

## 10. What is proved

Every theorem holds for any values of the constants that satisfy the module's
`...Assumption`: any number of payments, accounts, payloads, secrets, wallets, outputs
or seeds, any gap, batch, budget and cap. All safety invariants and action properties
of the passing runs are proved, the four refinements included; the liveness properties
are not, but what they rest on is (below).

**`SendSessionProofs`.** `Invariance`: `Spec => []IInv`. The safety properties are not
inductive by themselves: that nothing unmatched is accepted needs that every cast in
flight is of a matched draft; that no vault coin is signed here needs that every
prompt in flight is for a signing account, which needs that the live draft has the
account it was built for. `Support` states these, and `IInv` is `Support` with the
properties. The proof has a lemma per group of handlers and, for the handlers that
only move the session, `MoveKeeps`. From `Invariance` follow `TypeCorrect`,
`OnlyMatchedIsAccepted`, `Airgap`, `DraftsStayHome`, `VerdictsBelong`, `LinkIsTrue` and
`NothingWaitsInVain`, which is inductive on top of `IInv`; `AnAnswerEndsTheWait` and
`MismatchStays` are action properties by cases on `Next`; `DoneIsNamed` is one as well:
only an answered call finishes a broadcast, the own call is in the air by
`NothingWaitsInVain`, so the answer is the own one or two payments' calls are; `Refinement` maps each step
to a step of `PaymentPromise` or a stutter and is where `IInv` is used in the primed
state.

**`VaultSigningProofs`.** `Invariance`, with the app left at any moment. The
invariant adds `Coherent` – a transaction on the screen was described with the keys
the engine holds now, if it holds an approval or a camera may give it one – and
`InOrder`, which places the one delayed call of setup. Without `Coherent` the digest
of an approval could be of the right bytes under the wrong keys. From it follow
`Typing`, `ScreenIsWhatIsSigned`, `ApprovalsDieWithTheSession` and `DemoIsContained`;
`RefusalEnds` is an action property; `Refinement` maps each step to a step of `Approval`
or a stutter: the moves that leave a screen, a camera that starts and a change of keys
under a screen that stays are a lemma each, and `Coherent` is what makes a signature a
step of `Approval` – it says that the keys open now are those of the screen.
`BehindTheLock` (`NothingToSignWhileAway`, inductive by itself) and `OnlyTheRaceWarms`
(`OnlyADerivationWarms`) say what a lock holds where `LockWins` fails.

**`SealedVaultProofs`** has three phones.

- Without `MayMiss` and `MayRearm`, with kills and refusals allowed: `Invariance`, from
  which `Typing`, `BlobHasItsHalf`, `SetupFindsNothing` and `PassphraseIsEnough`.
  `Support` ties `pc` to what is in the keychain and to the half the task holds:
  `LayeredHasHalf` at the blob's add needs that the stored half is still the task's.
  `KeysAreKept` adds, for a phone that never held a vault of the old scheme, that
  `KeysSurvive`, by the further invariant `LayeredOnly`: a migration never reaches its
  save. Together with `seal_migration` this says where keys can be lost: in the
  migration's save.
- Any phone: `MigrationIsFaithful`, by a small invariant of its own (the task of a
  migration holds the secret and the passphrase of the blob in memory).
- `Undisturbed`, a phone that cuts no task short: `QuietInvariance` adds `Unhurried` to
  `IInv`. Its parts are that items bound to the passcode go with it and nothing of a
  vault outlives its blob at rest (`BoundToPasscode`), that process and keychain speak
  of one vault (`InStep`), that a device half beside an old blob is a migration under
  way (`OldMeansMigrating`), and that what a person was shown is here with its witness
  or they are told (`KeptOrTold`), that what the app works on has its witness
  (`Witnessed`), and that what is here or in memory was shown or is yet to be told of
  (`Accounted`). From it follow `QuietKeysAreKept`, `VanishingIsAlwaysTold`,
  `SetupStartsClean`, `FaceOpensTheVault`, and `Refinement`: every
  step is a step of `Keeper` or a stutter. The last two invariants are there for it:
  without `Witnessed` a making could begin over a vault that is untold of, without
  `Accounted` the passcode could take one that nothing remembers.

`TasksAreBounded` (`TasksEnd`) needs neither an invariant nor a hypothesis on the phone:
`CallsLeft` goes down with every step of a task.

**`AirgapProofs`.** `Invariance`, for any payloads cut into any number of parts. The
invariant adds what holds in the middle of a frame (`LoopInv`): no mixture holds a
known fragment while one is missing, and the piece in hand holds none it was already
reduced by. From it follow `TypeCorrect`, `PeelingIsTrue`, `PeelingIsComplete`, and
`KeepsTransfer`: every step of the collectors is a step of `Transfer` or a stutter.
`EveryTurnIsNearer` (`OfferAdvances`) and `OnlySoManyTurns` (what is to be looked at,
opened and known is finite) are together why the loop of a frame ends.

**`WatchingProofs`.** `Invariance` adds to the properties that a walk in flight has
collected exactly its blocks so far, that what is on the screen belongs to the account
that is held, and that what a refresh will write down at its end is of the wallet and
the birth it walked (a refresh may end on watchers and accounts that have gone). From
it follow `TypeCorrect`, `NoOutputIsSkipped`, `NothingIsResumedUnwalked`,
`SettledSpendsKnown`, `RefreshOnlyAdvances` (`RefreshAdvances`), `WalksAreBudgeted`
(`BudgetIsKept`) and `WalkedBlocksStand` (`BlocksStand`).

**`DiscoveryProofs`.** `Invariance`, for any gap, batch and cap. A walk of which some
answers are in has found every address that was used, within the gap, when it began: by
the least counterexample, a branch that closed has no owed address past its end. From
it follow `TypeCorrect`, `NoCoinIsHidden`; and, whatever `MaxAhead` is, `ChangeIsFound` (the first
`Gap` drafts) and `ChangeGoesPastTheSeen` (every draft). `WalksAdvance` (`WalkAdvances`) and `OnlySoManyAnswers` (the
addresses a walk still waits for are finitely many) are why a walk ends.

**`SpendingKeysProofs`.** `Invariance` adds that app and keychain agree from the launch
read on (`Agrees`) and that what is on its way into the keychain is as good as what is
there (`Carried`). From it follow `TypeCorrect`, `PaperFirst`, `NoPastIsCutOff` and, as
an action property, `OtherChainIsKept`.

**Only model-checked.** `SigningSettles`, `BroadcastSettles`, `FramesAddUp` and
`RefreshEnds`. Each says that something happens, so each rests on fairness, which is
about what is enabled, and neither fairness nor enabledness is in the prover's reach.
The counting that goes with it is an induction over finite sets, whose theorem in the
library takes a predicate as a parameter, which the prover cannot instantiate. What is
proved is everything else of the argument: that a wait has its call (`NothingWaitsInVain`)
and the answer ends it (`AnAnswerEndsTheWait`), that each step of a loop, a walk, a
refresh or a task takes it on and none takes it back, and that there is only so much of
it. `FramesAddUp` rests besides on an animation that goes round.

## 11. Not modelled

- **Swaps.** Three providers' wire formats and one remembered order. A status answer
  for an order that was replaced while the request was in flight shows under the new
  one (`store.tsx:1316`); it is in the hazard list.
- **Networking and the worker.** Requests with deadlines and a stateless relay; where
  an answer matters to a flow, that flow's module lets it fail, come late or come
  short. The rate counter is approximate by design (`ratelimit.ts:104`).
- **The rest of the wallet's file**: its validation, the nodes, the swap that FORGET
  EVERYTHING leaves in it; and the vault file, a pure function from a file to a value.
- **The encodings**: bytewords, CBOR, base32, base43, BBQr.
- Curve arithmetic, hashing, sealing and transaction construction (`src/keys`), whose
  correctness is not a matter of order and which has test vectors; rendering, wording
  and haptics; the demonstration's fixtures; test oracles, site and release tooling.

Timing appears only as order, save for the assumptions on delayed calls, prompts and
deadlines named above.
