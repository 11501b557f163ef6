-------------------------- MODULE SendSessionProofs --------------------------
(***************************************************************************)
(* Proofs about SendSession for any number of payments and accounts: the   *)
(* inductive invariant IInv, the invariants it implies, that a mismatch is *)
(* terminal, and that every step of the flow is a step of PaymentPromise   *)
(* or leaves its variables alone.                                          *)
(***************************************************************************)
EXTENDS SendSession, TLAPS

USE SendSessionAssumption

(* The selection is an account this phone has, when it is one at all. *)
LEMMA SelectedIsPresent ==
  ASSUME TypeOK, Selected # None PROVE Selected \in present /\ Selected \in Account
<1>1. CASE wanted \in present
  BY <1>1 DEF TypeOK, Selected
<1>2. CASE wanted \notin present
  BY <1>2 DEF TypeOK, Selected
<1> QED BY <1>1, <1>2

(* What a returned verdict does to a session: nothing, or it settles it. *)
LEMMA ReturnedSession ==
  ASSUME NEW s \in Session, NEW v \in Verdict
  PROVE  LET r == OnReturned(s, v)
         IN  /\ r \in Session /\ r.draft = s.draft /\ r.account = s.account
             /\ \/ r = s
                \/ /\ s.step \in {"receive", "signing"} /\ r.verified = v
                   /\ r.step = IF v.ok THEN "ready" ELSE "mismatch"
  BY DEF OnReturned, At, Session, Step, Verdict

(* Building a payment keeps the invariant, whoever captured the account. *)
LEMMA BuiltKeeps ==
  ASSUME IInv, NEW d \in Draft, NEW a \in Account, Built(d, a),
         UNCHANGED <<phone, wire, prompts, casts, audit, past>>,
         planning' \in SUBSET Account
  PROVE  IInv'
<1> USE DEF phone, audit, past
<1>1. /\ session' = [session EXCEPT !.step = "review", !.draft = d, !.account = a]
      /\ session.step = "compose"
  BY DEF Built, OnPrepared, At
<1>2. session' \in Session
  BY <1>1 DEF IInv, TypeOK, Session, Step
<1>3. acctOf' \in [Draft -> Account \cup {None}] /\ acctOf'[d] = a
      /\ \A e \in Draft : acctOf[e] # None => acctOf'[e] = acctOf[e]
  BY DEF Built, IInv, TypeOK
<1>4. TypeOK'
  BY <1>2, <1>3 DEF IInv, TypeOK
<1>5. session'.step = "review" /\ session'.draft = d /\ session'.account = a
      /\ session'.verified = session.verified
  BY <1>1 DEF IInv, TypeOK, Session
<1>6. session.verified = None /\ ~Signed(session)'
  BY <1>1, <1>5 DEF IInv, VerdictWhereItBelongs, Signed
<1>7. \A c \in prompts : c \in Job /\ c.draft \in Draft /\ c.account \in SigningAccount
                         /\ c.account = acctOf[c.draft] /\ c.account # None
  BY DEF IInv, TypeOK, Job, Support, DraftKeepsItsAccount
<1>8. Support'
  BY <1>3, <1>5, <1>6, <1>7 DEF IInv, Support, TypeOK
<1>9. VerdictWhereItBelongs'
  BY <1>5, <1>6 DEF IInv, VerdictWhereItBelongs
<1>10. AcceptedWasMatched' /\ OnePromptAtATime' /\ LastVerifiedCameFromVault'
  BY DEF IInv, AcceptedWasMatched, OnePromptAtATime, LastVerifiedCameFromVault
<1>11. VaultCoinsNeverSignedHere'
  BY <1>3 DEF IInv, TypeOK, VaultCoinsNeverSignedHere
<1>12. DraftKeepsItsAccount'
  BY <1>3, <1>5, <1>7 DEF IInv, DraftKeepsItsAccount
<1> QED BY <1>4, <1>8, <1>9, <1>10, <1>11, <1>12 DEF IInv

(* Bytes compared with a draft in the vault's closure keep the invariant   *)
(* when only what the vault signed can match.                              *)
LEMMA ApplyKeeps ==
  ASSUME IInv, NEW d \in Draft, NEW tx \in Draft \cup {None},
         ApplyFromVault(d, tx),
         tx = d => d \in signedAway',
         signedAway' \in SUBSET Draft, signedAway \subseteq signedAway',
         UNCHANGED <<acctOf, phone, wire, calls, shown, signedHere, accepted>>
  PROVE  IInv'
<1> USE DEF phone, calls
<1> PICK ok \in {tx = d, FALSE} :
      /\ session' = OnReturned(session, [ok |-> ok, of |-> d])
      /\ link' = IF link = "unpaired" THEN link ELSE "ready"
      /\ lastVerified' = IF link # "unpaired" /\ ok THEN d ELSE lastVerified
      /\ passed' = IF ok THEN passed \cup {d} ELSE passed
  BY Zenon DEF ApplyFromVault
<1> DEFINE v == [ok |-> ok, of |-> d]
<1>1. ok \in BOOLEAN /\ (ok => d \in signedAway')
  OBVIOUS
<1>2. v \in Verdict /\ v # None /\ v.ok = ok /\ v.of = d
  BY <1>1 DEF Verdict
<1> HIDE DEF v
<1>3. /\ session' \in Session /\ session'.draft = session.draft
      /\ session'.account = session.account
      /\ \/ session' = session
         \/ /\ session.step \in {"receive", "signing"} /\ session'.verified = v
            /\ session'.step = IF v.ok THEN "ready" ELSE "mismatch"
  BY <1>2, ReturnedSession DEF IInv, TypeOK, v
<1>4. TypeOK'
  BY <1>1, <1>3 DEF IInv, TypeOK
<1>5. Signed(session)' => \/ session' = session
                          \/ ok /\ session'.verified.of = d
  BY <1>2, <1>3 DEF Signed
<1>6. Support'
  <2>1. Signed(session)' => session'.verified.of \in passed'
    BY <1>5 DEF IInv, Support, Signed
  <2> QED BY <1>3, <2>1 DEF IInv, Support
<1>7. VerdictWhereItBelongs'
  BY <1>2, <1>3 DEF IInv, VerdictWhereItBelongs, Signed
<1>8. AcceptedWasMatched' /\ LastVerifiedCameFromVault'
  BY <1>1 DEF IInv, AcceptedWasMatched, LastVerifiedCameFromVault
<1>9. VaultCoinsNeverSignedHere' /\ OnePromptAtATime' /\ DraftKeepsItsAccount'
  BY <1>3 DEF IInv, VaultCoinsNeverSignedHere, OnePromptAtATime, DraftKeepsItsAccount
<1> QED BY <1>4, <1>6, <1>7, <1>8, <1>9 DEF IInv

(* A step that moves the session without a new draft or a new verdict, and *)
(* lets calls in flight end, keeps the invariant if it respects the places *)
(* a draft and a verdict belong.                                           *)
LEMMA MoveKeeps ==
  ASSUME IInv,
         session' \in Session,
         \/ session'.draft = None /\ session'.verified = None
         \/ /\ session'.draft = session.draft /\ session'.account = session.account
            /\ session'.verified = session.verified,
         session'.step \in {"review", "transmit", "signing", "awaiting", "receive"}
           => session'.draft # None,
         VerdictWhereItBelongs',
         wanted' \in Account \cup {None}, present' \in SUBSET Account,
         wire' \in {wire, session.draft, None},
         planning' \in SUBSET Account, prompts' \subseteq prompts, casts' \subseteq casts,
         link' \in {"ready", "inSession", "unpaired"}, lastVerified' \in {lastVerified, None},
         accepted \subseteq accepted', accepted' \subseteq passed,
         UNCHANGED <<acctOf, shown, signedHere, signedAway, passed>>
  PROVE  IInv'
<1>1. wire' \in Draft \cup {None}
  BY DEF IInv, TypeOK, Session
<1>2. TypeOK'
  BY <1>1 DEF IInv, TypeOK, AcceptedWasMatched
<1>4. Signed(session)' => /\ Signed(session)
                         /\ session'.verified = session.verified
  BY DEF Signed
<1>5. Support'
  BY <1>4 DEF IInv, Support
<1>6. AcceptedWasMatched' /\ VaultCoinsNeverSignedHere' /\ LastVerifiedCameFromVault'
  BY DEF IInv, AcceptedWasMatched, VaultCoinsNeverSignedHere, LastVerifiedCameFromVault
<1>7. DraftKeepsItsAccount' /\ OnePromptAtATime'
  BY DEF IInv, DraftKeepsItsAccount, OnePromptAtATime
<1> QED BY <1>2, <1>5, <1>6, <1>7 DEF IInv

-----------------------------------------------------------------------------
(* Each group of actions keeps the invariant.                              *)

(* Building a payment keeps the invariant, wherever its plan lands. *)
LEMMA BuildingKeeps == ASSUME IInv, Building PROVE IInv'
<1>1. ASSUME NEW d \in Draft, PrepareBitcoin(d) PROVE IInv'
  BY <1>1, SelectedIsPresent, BuiltKeeps DEF IInv, TypeOK, PrepareBitcoin, calls
<1>2. CASE StartPlan
  BY <1>2, MoveKeeps, SelectedIsPresent
     DEF StartPlan, IInv, TypeOK, Support, VerdictWhereItBelongs, AcceptedWasMatched,
         Signed, phone, audit, past
<1>3. ASSUME NEW a \in Account, NEW d \in Draft, PlanLands(a, d) PROVE IInv'
  <2>1. planning' \in SUBSET Account
    BY <1>3 DEF PlanLands, IInv, TypeOK
  <2>2. CASE Built(d, a)
    BY <1>3, <2>1, <2>2, BuiltKeeps DEF PlanLands, phone, audit, past
  <2>3. CASE UNCHANGED <<session, acctOf>>
    BY <1>3, <2>1, <2>3, MoveKeeps
       DEF PlanLands, IInv, TypeOK, Support, VerdictWhereItBelongs, AcceptedWasMatched,
           Signed, phone, audit, past
  <2> QED BY <1>3, <2>2, <2>3 DEF PlanLands
<1> QED BY <1>1, <1>2, <1>3 DEF Building

(* The handoff with the vault keeps it, whatever bytes are scanned. *)
LEMMA HandoffKeeps == ASSUME IInv, Handoff PROVE IInv'
<1> USE DEF phone, calls, audit, past
<1>1. CASE BeginTransmit
  <2>1. /\ session.step = "review" /\ session.draft \in Draft
        /\ session' = [session EXCEPT !.step = "transmit", !.transmission = session.draft]
    BY <1>1 DEF BeginTransmit, OnTransmit, At, IInv, TypeOK, Support, Session
  <2>2. /\ session' \in Session /\ session'.step = "transmit"
        /\ session'.draft = session.draft /\ session'.account = session.account
        /\ session'.verified = session.verified
    BY <2>1 DEF IInv, TypeOK, Session, Step
  <2>3. TypeOK'
    BY <1>1, <2>1, <2>2 DEF BeginTransmit, IInv, TypeOK
  <2>4. VerdictWhereItBelongs'
    BY <2>1, <2>2 DEF IInv, VerdictWhereItBelongs
  <2>5. acctOf[session.draft] # None
    BY <2>1 DEF IInv, Support, DraftKeepsItsAccount
  <2>6. Support'
    BY <1>1, <2>1, <2>2, <2>5 DEF BeginTransmit, IInv, Support, Signed
  <2>7. DraftKeepsItsAccount' /\ OnePromptAtATime' /\ VaultCoinsNeverSignedHere'
    BY <1>1, <2>2
       DEF BeginTransmit, IInv, DraftKeepsItsAccount, OnePromptAtATime, VaultCoinsNeverSignedHere
  <2>8. AcceptedWasMatched' /\ LastVerifiedCameFromVault'
    BY <1>1 DEF BeginTransmit, IInv, AcceptedWasMatched, LastVerifiedCameFromVault
  <2> QED BY <2>3, <2>4, <2>6, <2>7, <2>8 DEF IInv
<1>2. CASE HandOver
  BY <1>2, MoveKeeps
     DEF HandOver, OnHandedOver, At, IInv, TypeOK, Session, Step, Support,
         VerdictWhereItBelongs, AcceptedWasMatched, Signed
<1>3. CASE ReadBack
  BY <1>3, MoveKeeps
     DEF ReadBack, OnReadBack, At, IInv, TypeOK, Session, Step, Support,
         VerdictWhereItBelongs, AcceptedWasMatched, Signed
<1>4. ASSUME NEW d \in Draft, VaultSigns(d) PROVE IInv'
  BY <1>4
     DEF VaultSigns, IInv, TypeOK, Support, VerdictWhereItBelongs, AcceptedWasMatched, Signed,
         VaultCoinsNeverSignedHere, DraftKeepsItsAccount, OnePromptAtATime, LastVerifiedCameFromVault
<1>5. ASSUME NEW tx \in Draft \cup {None}, ScanTxSigned(tx) PROVE IInv'
  <2>1. CASE wire = None
    BY <1>5, <2>1
       DEF ScanTxSigned, IInv, TypeOK, Support, VerdictWhereItBelongs, AcceptedWasMatched, Signed,
           VaultCoinsNeverSignedHere, DraftKeepsItsAccount, OnePromptAtATime, LastVerifiedCameFromVault
  <2>2. CASE wire # None
    <3>1. wire \in Draft
      BY <2>2 DEF IInv, TypeOK
    <3>2. /\ ApplyFromVault(wire, tx)
          /\ tx \in signedAway \cup {None}
          /\ UNCHANGED <<acctOf, wanted, present, wire, planning, prompts, casts,
                         shown, signedHere, signedAway, accepted>>
      BY <1>5, <2>2 DEF ScanTxSigned
    <3> QED BY <1>5, <3>1, <3>2, ApplyKeeps DEF IInv, TypeOK
  <2> QED BY <2>1, <2>2
<1>6. CASE StandInAnswers
  <2>1. session.step = "receive" /\ session.draft \in Draft
    BY <1>6 DEF StandInAnswers, IInv, Support, TypeOK, Session
  <2>2. CASE session' = OnFailed(session) /\ EndSession /\ UNCHANGED <<lastVerified, passed, signedAway>>
    <3>1. /\ session' = [session EXCEPT !.step = "failed"]
          /\ link' \in {link, "ready"}
      BY <2>1, <2>2 DEF OnFailed, At, Step, EndSession
    <3>2. /\ session' \in Session /\ session'.step = "failed"
          /\ session'.draft = session.draft /\ session'.account = session.account
          /\ session'.verified = session.verified
      BY <3>1 DEF IInv, TypeOK, Session, Step
    <3> QED BY <1>6, <2>2, <3>1, <3>2, MoveKeeps
           DEF StandInAnswers, IInv, TypeOK, VerdictWhereItBelongs, AcceptedWasMatched
  <2>3. CASE ApplyFromVault(session.draft, None) /\ UNCHANGED signedAway
    BY <1>6, <2>1, <2>3, ApplyKeeps DEF StandInAnswers, IInv, TypeOK
  <2>4. CASE /\ ApplyFromVault(session.draft, session.draft)
             /\ signedAway' = signedAway \cup {session.draft}
    BY <1>6, <2>1, <2>4, ApplyKeeps DEF StandInAnswers, IInv, TypeOK
  <2> QED BY <1>6, <2>2, <2>3, <2>4 DEF StandInAnswers
<1> QED BY <1>1, <1>2, <1>3, <1>4, <1>5, <1>6 DEF Handoff

(* Signing here keeps it: one prompt, on the account of the draft. *)
LEMMA HotSignerKeeps == ASSUME IInv, HotSigner PROVE IInv'
<1> USE DEF phone, calls, audit, past
<1>1. CASE SignOnThisDevice
  <2>1. /\ session.step = "review" /\ session.draft \in Draft
        /\ session.account = acctOf[session.draft] /\ session.account \in SigningAccount
        /\ session' = [session EXCEPT !.step = "signing"]
        /\ Captured(session) = [draft |-> session.draft, account |-> session.account]
    BY <1>1 DEF SignOnThisDevice, SignsHere, OnSignHere, At, Captured, IInv, TypeOK, Support,
                DraftKeepsItsAccount, Session
  <2>2. /\ session' \in Session /\ session'.step = "signing"
        /\ session'.draft = session.draft /\ session'.account = session.account
        /\ session'.verified = session.verified
    BY <2>1 DEF IInv, TypeOK, Session, Step
  <2> DEFINE job == Captured(session)
  <2>a. job \in Job /\ job.draft = session.draft /\ job.account = session.account
    BY <2>1 DEF Job
  <2> HIDE DEF job
  <2>b. prompts' = IF prompts = {} THEN {job} ELSE prompts
    BY <1>1 DEF SignOnThisDevice, job
  <2>3. /\ prompts' \in SUBSET Job
        /\ prompts' = prompts
           \/ (prompts' = {job} /\ job.draft = session.draft /\ job.account = session.account)
    BY <2>a, <2>b DEF IInv, TypeOK
  <2>4. TypeOK'
    BY <1>1, <2>1, <2>2, <2>3 DEF SignOnThisDevice, IInv, TypeOK
  <2>5. VerdictWhereItBelongs'
    BY <2>1, <2>2 DEF IInv, VerdictWhereItBelongs
  <2>6. Support'
    BY <1>1, <2>1, <2>2, <2>3 DEF SignOnThisDevice, IInv, Support, Signed
  <2>7. DraftKeepsItsAccount' /\ OnePromptAtATime' /\ VaultCoinsNeverSignedHere'
    BY <1>1, <2>1, <2>2, <2>3
       DEF SignOnThisDevice, IInv, DraftKeepsItsAccount, OnePromptAtATime, VaultCoinsNeverSignedHere
  <2>8. AcceptedWasMatched' /\ LastVerifiedCameFromVault'
    BY <1>1 DEF SignOnThisDevice, IInv, AcceptedWasMatched, LastVerifiedCameFromVault
  <2> QED BY <2>4, <2>5, <2>6, <2>7, <2>8 DEF IInv
<1>2. ASSUME NEW c \in Job, PromptRefused(c) PROVE IInv'
  BY <1>2, MoveKeeps
     DEF PromptRefused, OnFailed, At, IInv, TypeOK, Session, Step, VerdictWhereItBelongs,
         AcceptedWasMatched, Support
<1>3. ASSUME NEW c \in Job, PromptAllowed(c) PROVE IInv'
  <2>1. /\ c \in prompts /\ c.draft \in Draft /\ acctOf[c.draft] \in SigningAccount
    BY <1>3 DEF PromptAllowed, Job, IInv, Support, DraftKeepsItsAccount
  <2>2. PICK ok \in BOOLEAN :
          /\ session' = OnReturned(session, [ok |-> ok, of |-> c.draft])
          /\ passed' = IF ok THEN passed \cup {c.draft} ELSE passed
    BY <1>3, Zenon DEF PromptAllowed
  <2> DEFINE v == [ok |-> ok, of |-> c.draft]
  <2>3. v \in Verdict /\ v # None /\ v.ok = ok /\ v.of = c.draft
    BY <2>1 DEF Verdict
  <2> HIDE DEF v
  <2>4. /\ session' \in Session /\ session'.draft = session.draft
        /\ session'.account = session.account
        /\ \/ session' = session
           \/ /\ session.step \in {"receive", "signing"} /\ session'.verified = v
              /\ session'.step = IF v.ok THEN "ready" ELSE "mismatch"
    BY <2>2, <2>3, ReturnedSession DEF IInv, TypeOK, v
  <2>5. TypeOK'
    BY <1>3, <2>1, <2>2, <2>4 DEF PromptAllowed, IInv, TypeOK
  <2>6. Signed(session)' => session'.verified.of \in passed'
    BY <2>2, <2>3, <2>4 DEF IInv, Support, Signed
  <2>7. Support'
    BY <1>3, <2>2, <2>4, <2>6 DEF PromptAllowed, IInv, Support
  <2>8. VerdictWhereItBelongs'
    BY <2>3, <2>4 DEF IInv, VerdictWhereItBelongs, Signed
  <2>9. AcceptedWasMatched' /\ LastVerifiedCameFromVault' /\ VaultCoinsNeverSignedHere'
    BY <1>3, <2>1, <2>2
       DEF PromptAllowed, IInv, AcceptedWasMatched, LastVerifiedCameFromVault, VaultCoinsNeverSignedHere
  <2>10. OnePromptAtATime' /\ DraftKeepsItsAccount'
    BY <1>3, <2>4 DEF PromptAllowed, IInv, OnePromptAtATime, DraftKeepsItsAccount
  <2> QED BY <2>5, <2>7, <2>8, <2>9, <2>10 DEF IInv
<1> QED BY <1>1, <1>2, <1>3 DEF HotSigner

(* Publishing keeps it: a cast carries what matched. *)
LEMMA PublisherKeeps == ASSUME IInv, Publisher PROVE IInv'
<1> USE DEF phone, calls, audit, past
<1>1. CASE Broadcast
  <2>1. /\ session.step = "ready" /\ session.verified \in Verdict
        /\ session.verified.of \in passed /\ session.verified.of \in Draft
    BY <1>1 DEF Broadcast, CanBroadcast, Signed, IInv, TypeOK, Session, Support, Verdict
  <2>2. /\ session' \in Session /\ session'.step \in {"broadcasting", "failed"}
        /\ session'.draft = session.draft /\ session'.account = session.account
        /\ session'.verified = session.verified
    BY <1>1, <2>1 DEF Broadcast, OnBroadcast, OnFailed, At, IInv, TypeOK, Session, Step
  <2>3. /\ casts \subseteq casts' /\ casts' \in SUBSET Job
        /\ \A c \in casts' : c \in casts \/ c.draft = session.verified.of
    BY <1>1, <2>1 DEF Broadcast, OwnCast, IInv, TypeOK, Job
  <2>4. TypeOK'
    BY <1>1, <2>2, <2>3 DEF Broadcast, IInv, TypeOK
  <2>5. Support'
    BY <1>1, <2>1, <2>2, <2>3 DEF Broadcast, IInv, Support, Signed
  <2>6. VerdictWhereItBelongs'
    BY <2>1, <2>2 DEF IInv, VerdictWhereItBelongs, Signed
  <2>7. /\ AcceptedWasMatched' /\ LastVerifiedCameFromVault' /\ VaultCoinsNeverSignedHere'
        /\ OnePromptAtATime' /\ DraftKeepsItsAccount'
    BY <1>1, <2>2
       DEF Broadcast, IInv, AcceptedWasMatched, LastVerifiedCameFromVault, VaultCoinsNeverSignedHere,
           OnePromptAtATime, DraftKeepsItsAccount
  <2> QED BY <2>4, <2>5, <2>6, <2>7 DEF IInv
<1>2. ASSUME NEW c \in Job, CastAccepted(c) PROVE IInv'
  <2>1. c.draft \in passed /\ c.draft \in Draft
    BY <1>2 DEF CastAccepted, IInv, Support, Job
  <2>2. /\ session' \in Session
        /\ session'.draft = session.draft /\ session'.account = session.account
        /\ session'.verified = session.verified
        /\ \/ session'.step = session.step
           \/ session.step = "broadcasting" /\ session'.step = "done"
    BY <1>2, <2>1 DEF CastAccepted, OnPublished, At, IInv, TypeOK, Session, Step
  <2>3. VerdictWhereItBelongs'
    BY <2>2 DEF IInv, VerdictWhereItBelongs, Signed
  <2> QED BY <1>2, <2>1, <2>2, <2>3, MoveKeeps
         DEF CastAccepted, IInv, TypeOK, AcceptedWasMatched, Support
<1>3. ASSUME NEW c \in Job, CastFailed(c) PROVE IInv'
  <2>1. c.draft \in passed
    BY <1>3 DEF CastFailed, IInv, Support
  <2> QED BY <1>3, <2>1, MoveKeeps
         DEF CastFailed, OnFailed, At, IInv, TypeOK, Session, Step, VerdictWhereItBelongs,
             AcceptedWasMatched, Support
<1> QED BY <1>1, <1>2, <1>3 DEF Publisher

(* The ways out, and accounts that come and go, keep it. *)
LEMMA PhoneKeeps == ASSUME IInv, Phone PROVE IInv'
<1> USE DEF phone, calls, audit, past
<1>1. START \in Session /\ START.step = "compose" /\ START.draft = None /\ START.verified = None
  BY DEF START, Session, Step
<1>2. CASE Back
  <2>1. link' \in {link, "ready"}
    BY <1>2 DEF Back, EndSession
  <2>2. session.step \in {"review", "transmit", "awaiting", "receive", "signing", "failed"}
    BY <1>2 DEF Back
  <2>3. CASE session.step = "review"
    <3>1. session' = [session EXCEPT !.step = "compose", !.draft = None, !.account = None]
      BY <1>2, <2>3 DEF Back, OnBack
    <3>2. session' \in Session /\ session'.step = "compose" /\ session'.draft = None
          /\ session'.verified = None
      BY <2>3, <3>1 DEF IInv, TypeOK, Session, Step, VerdictWhereItBelongs
    <3> QED BY <1>2, <2>1, <3>2, MoveKeeps
           DEF Back, IInv, TypeOK, VerdictWhereItBelongs, AcceptedWasMatched
  <2>4. CASE session.step \in {"transmit", "awaiting", "receive", "signing"}
    <3>1. /\ session' \in Session /\ session'.step \in {"review", "transmit", "awaiting"}
          /\ session'.draft = session.draft /\ session'.account = session.account
          /\ session'.verified = session.verified
      BY <1>2, <2>4 DEF Back, OnBack, IInv, TypeOK, Session, Step
    <3> QED BY <1>2, <2>1, <2>4, <3>1, MoveKeeps
           DEF Back, IInv, TypeOK, VerdictWhereItBelongs, AcceptedWasMatched, Support
  <2>5. CASE session.step = "failed" /\ Signed(session)
    <3>1. /\ session' \in Session /\ session'.step = "ready"
          /\ session'.draft = session.draft /\ session'.account = session.account
          /\ session'.verified = session.verified
      BY <1>2, <2>5 DEF Back, OnBack, IInv, TypeOK, Session, Step
    <3> QED BY <1>2, <2>1, <2>5, <3>1, MoveKeeps
           DEF Back, IInv, TypeOK, VerdictWhereItBelongs, AcceptedWasMatched, Signed
  <2>6. CASE session.step = "failed" /\ ~Signed(session)
    <3>1. session' = START
      BY <1>2, <2>6 DEF Back, OnBack
    <3> QED BY <1>1, <1>2, <2>1, <3>1, MoveKeeps
           DEF Back, IInv, TypeOK, VerdictWhereItBelongs, AcceptedWasMatched
  <2> QED BY <2>2, <2>3, <2>4, <2>5, <2>6
<1>3. CASE Close
  BY <1>1, <1>3, MoveKeeps DEF Close, EndSession, IInv, TypeOK, VerdictWhereItBelongs, AcceptedWasMatched
<1>4. CASE DepositForSwap
  BY <1>1, <1>4, MoveKeeps DEF DepositForSwap, IInv, TypeOK, VerdictWhereItBelongs, AcceptedWasMatched
<1>5. CASE SetNodes
  BY <1>5, MoveKeeps
     DEF SetNodes, IInv, TypeOK, VerdictWhereItBelongs, AcceptedWasMatched, Support, Signed
<1>6. CASE Relaunch
  BY <1>1, <1>6, MoveKeeps
     DEF Relaunch, IInv, TypeOK, VerdictWhereItBelongs, AcceptedWasMatched, Support
<1>7. ASSUME NEW a \in Account, SelectAccount(a) PROVE IInv'
  BY <1>7, MoveKeeps
     DEF SelectAccount, IInv, TypeOK, VerdictWhereItBelongs, AcceptedWasMatched, Support, Signed
<1>8. ASSUME NEW a \in Account, AddAccount(a) PROVE IInv'
  BY <1>8, MoveKeeps
     DEF AddAccount, IInv, TypeOK, VerdictWhereItBelongs, AcceptedWasMatched, Support, Signed
<1>9. ASSUME NEW a \in Account, ForgetAccount(a) PROVE IInv'
  BY <1>9, MoveKeeps
     DEF ForgetAccount, IInv, TypeOK, VerdictWhereItBelongs, AcceptedWasMatched, Support, Signed
<1> QED BY <1>2, <1>3, <1>4, <1>5, <1>6, <1>7, <1>8, <1>9 DEF Phone

-----------------------------------------------------------------------------
(* The theorems.                                                           *)

(* A launch satisfies the invariant. *)
LEMMA InitInv == Init => IInv
<1> SUFFICES ASSUME Init PROVE IInv
  OBVIOUS
<1>1. session = START /\ START \in Session
  BY DEF Init, START, Session, Step
<1>2. START.step = "compose" /\ START.draft = None /\ START.verified = None
  BY DEF START
<1>3. wire \in Draft \cup {None}
  BY DEF Init
<1>4. TypeOK
  BY <1>1, <1>3 DEF Init, TypeOK
<1>5. Support /\ VerdictWhereItBelongs /\ DraftKeepsItsAccount
  BY <1>1, <1>2 DEF Init, Support, VerdictWhereItBelongs, DraftKeepsItsAccount, Signed
<1>6. AcceptedWasMatched /\ VaultCoinsNeverSignedHere /\ OnePromptAtATime /\ LastVerifiedCameFromVault
  BY DEF Init, AcceptedWasMatched, VaultCoinsNeverSignedHere, OnePromptAtATime, LastVerifiedCameFromVault
<1> QED BY <1>4, <1>5, <1>6 DEF IInv

(* So does a step that changes nothing. *)
LEMMA StutterKeeps == ASSUME IInv, UNCHANGED vars PROVE IInv'
  BY DEF vars, IInv, TypeOK, Support, VerdictWhereItBelongs, AcceptedWasMatched, Signed,
         VaultCoinsNeverSignedHere, DraftKeepsItsAccount, OnePromptAtATime, LastVerifiedCameFromVault

(* IInv is inductive: every state of every send flow, whatever is in       *)
(* flight, satisfies it.                                                   *)
THEOREM Invariance == Spec => []IInv
<1>1. IInv /\ [Next]_vars => IInv'
  BY BuildingKeeps, HandoffKeeps, HotSignerKeeps, PublisherKeeps, PhoneKeeps, StutterKeeps DEF Next
<1> QED BY InitInv, <1>1, PTL DEF Spec

(* Every variable keeps its type. *)
THEOREM TypeCorrect == Spec => []TypeOK
<1>1. IInv => TypeOK
  BY DEF IInv
<1> QED BY Invariance, <1>1, PTL

(* What reaches a node matched its draft and was signed by the holder of   *)
(* the keys, for any number of payments, accounts and calls in flight.     *)
THEOREM OnlyMatchedIsAccepted == Spec => []AcceptedWasMatched
<1>1. IInv => AcceptedWasMatched
  BY DEF IInv
<1> QED BY Invariance, <1>1, PTL

(* The phone never signs a payment that spends from a vault's account.     *)
THEOREM Airgap == Spec => []VaultCoinsNeverSignedHere
<1>1. IInv => VaultCoinsNeverSignedHere
  BY DEF IInv
<1> QED BY Invariance, <1>1, PTL

(* The vault link records as its last verified session only what the vault *)
(* signed, never a payment signed on this phone (applySignature).          *)
THEOREM LinkIsTrue == Spec => []LastVerifiedCameFromVault
<1>1. IInv => LastVerifiedCameFromVault
  BY DEF IInv
<1> QED BY Invariance, <1>1, PTL

(* session.ts: whatever is selected since, a draft and every prompt raised *)
(* for one carry the account that composed it.                             *)
THEOREM DraftsStayHome == Spec => []DraftKeepsItsAccount
<1>1. IInv => DraftKeepsItsAccount
  BY DEF IInv
<1> QED BY Invariance, <1>1, PTL

(* There is exactly one kind of state that can broadcast, and it carries a *)
(* verdict that is ok.                                                     *)
THEOREM VerdictsBelong == Spec => []VerdictWhereItBelongs
<1>1. IInv => VerdictWhereItBelongs
  BY DEF IInv
<1> QED BY Invariance, <1>1, PTL

(* Nothing moves a mismatch except back to the beginning.                  *)
THEOREM MismatchStays == Spec => MismatchIsTerminal
<1>1. ASSUME session.step = "mismatch", [Next]_vars PROVE session' \in {session, START}
  <2> USE <1>1
  <2>1. CASE Building
    BY <2>1 DEF Building, PrepareBitcoin, StartPlan, PlanLands, Built
  <2>2. CASE Handoff
    BY <2>2 DEF Handoff, BeginTransmit, HandOver, ReadBack, VaultSigns, ScanTxSigned,
                ApplyFromVault, OnReturned, At, StandInAnswers
  <2>3. CASE HotSigner
    BY <2>3 DEF HotSigner, SignOnThisDevice, PromptRefused, PromptAllowed, OnFailed, OnReturned, At
  <2>4. CASE Publisher
    BY <2>4 DEF Publisher, Broadcast, CanBroadcast, CastAccepted, CastFailed, OnPublished, OnFailed, At
  <2>5. CASE Phone
    BY <2>5 DEF Phone, Back, Close, DepositForSwap, SetNodes, Relaunch, SelectAccount, AddAccount,
                ForgetAccount
  <2>6. CASE UNCHANGED vars
    BY <2>6 DEF vars
  <2> QED BY <2>1, <2>2, <2>3, <2>4, <2>5, <2>6 DEF Next
<1>2. [Next]_vars => [session.step = "mismatch" => session' \in {session, START}]_vars
  BY <1>1
<1> QED BY <1>2, PTL DEF Spec, MismatchIsTerminal

-----------------------------------------------------------------------------
(* Waiting.  A step moves into a waiting step only together with its call. *)
LEMMA WaitingBegins ==
  ASSUME IInv, [Next]_vars
  PROVE  /\ session'.step = "signing" /\ session.step # "signing" => prompts' # {}
         /\ session'.step = "broadcasting" /\ session.step # "broadcasting"
              => OwnCast(session)' \in casts'
<1>1. session \in Session
  BY DEF IInv, TypeOK
<1>2. CASE Building
  BY <1>1, <1>2 DEF Building, PrepareBitcoin, StartPlan, PlanLands, Built, OnPrepared, At, Session
<1>3. CASE Handoff
  <2>1. ASSUME NEW d, NEW tx, ApplyFromVault(d, tx)
        PROVE  session'.step \in {session.step, "ready", "mismatch"}
    BY <1>1, <2>1 DEF ApplyFromVault, OnReturned, At, Session
  <2>2. CASE BeginTransmit \/ HandOver \/ ReadBack \/ \E d \in Draft : VaultSigns(d)
    BY <1>1, <2>2 DEF BeginTransmit, HandOver, ReadBack, VaultSigns, OnTransmit, OnHandedOver,
                      OnReadBack, At, Session
  <2>3. CASE \E tx \in Draft \cup {None} : ScanTxSigned(tx)
    BY <2>1, <2>3 DEF ScanTxSigned
  <2>4. CASE StandInAnswers
    BY <1>1, <2>1, <2>4 DEF StandInAnswers, OnFailed, At, Session
  <2> QED BY <1>3, <2>2, <2>3, <2>4 DEF Handoff
<1>4. CASE HotSigner
  <2>1. CASE SignOnThisDevice
    BY <1>1, <2>1 DEF SignOnThisDevice, OnSignHere, At, Session
  <2>2. ASSUME NEW c \in Job, PromptRefused(c) PROVE session'.step \in {session.step, "failed"}
    BY <1>1, <2>2 DEF PromptRefused, OnFailed, At, Session
  <2>3. ASSUME NEW c \in Job, PromptAllowed(c)
        PROVE  session'.step \in {session.step, "ready", "mismatch"}
    BY <1>1, <2>3 DEF PromptAllowed, OnReturned, At, Session
  <2> QED BY <1>4, <2>1, <2>2, <2>3 DEF HotSigner
<1>5. CASE Publisher
  <2>1. CASE Broadcast /\ session.account \in present
    <3>1. /\ session' = [session EXCEPT !.step = "broadcasting"]
          /\ casts' = casts \cup {OwnCast(session)}
      BY <2>1 DEF Broadcast, CanBroadcast, OnBroadcast, At
    <3>2. session'.verified = session.verified /\ session'.account = session.account
      BY <1>1, <3>1 DEF Session
    <3>3. OwnCast(session)' = OwnCast(session)
      BY <3>2 DEF OwnCast
    <3> QED BY <1>1, <3>1, <3>3 DEF Session
  <2>2. CASE Broadcast /\ session.account \notin present
    BY <1>1, <2>2 DEF Broadcast, OnFailed, At, Session
  <2>3. ASSUME NEW c \in Job, CastAccepted(c) \/ CastFailed(c)
        PROVE  session'.step \in {session.step, "done", "failed"}
    BY <1>1, <2>3 DEF CastAccepted, CastFailed, OnPublished, OnFailed, At, Session
  <2> QED BY <1>5, <2>1, <2>2, <2>3 DEF Publisher
<1>6. CASE Phone
  <2>1. /\ OnBack(session).step \notin {"signing", "broadcasting"} \/ OnBack(session) = session
        /\ START.step = "compose"
    BY <1>1 DEF OnBack, START, Session
  <2>2. CASE Back \/ Close \/ DepositForSwap \/ SetNodes \/ Relaunch
    BY <2>1, <2>2 DEF Back, Close, DepositForSwap, SetNodes, Relaunch
  <2>3. ASSUME NEW a \in Account, SelectAccount(a) \/ AddAccount(a) \/ ForgetAccount(a)
        PROVE  session' = session
    BY <2>3 DEF SelectAccount, AddAccount, ForgetAccount
  <2> QED BY <1>6, <2>2, <2>3 DEF Phone
<1>7. CASE UNCHANGED vars
  BY <1>7 DEF vars
<1> QED BY <1>2, <1>3, <1>4, <1>5, <1>6, <1>7 DEF Next

(* A call goes only by being answered, which ends the wait, or with the    *)
(* whole process.                                                          *)
LEMMA AnsweringEnds ==
  ASSUME IInv, [Next]_vars
  PROVE  /\ prompts \subseteq prompts' \/ session'.step # "signing"
         /\ casts \subseteq casts' \/ session'.step # "broadcasting"
<1>1. session \in Session
  BY DEF IInv, TypeOK
<1>2. CASE Building \/ Handoff \/ UNCHANGED vars
  BY <1>2 DEF Building, PrepareBitcoin, StartPlan, PlanLands, Handoff, BeginTransmit, HandOver,
              ReadBack, VaultSigns, ScanTxSigned, StandInAnswers, vars, calls
<1>3. CASE HotSigner
  <2>1. CASE SignOnThisDevice
    BY <2>1 DEF SignOnThisDevice
  <2>2. ASSUME NEW c \in Job, PromptRefused(c)
        PROVE  session'.step # "signing" /\ casts' = casts
    BY <1>1, <2>2 DEF PromptRefused, OnFailed, At, Session, Step
  <2>3. ASSUME NEW c \in Job, PromptAllowed(c)
        PROVE  session'.step # "signing" /\ casts' = casts
    BY <1>1, <2>3 DEF PromptAllowed, OnReturned, At, Session
  <2> QED BY <1>3, <2>1, <2>2, <2>3 DEF HotSigner
<1>4. CASE Publisher
  <2>1. CASE Broadcast
    BY <2>1 DEF Broadcast
  <2>2. ASSUME NEW c \in Job, CastAccepted(c) \/ CastFailed(c)
        PROVE  session'.step # "broadcasting" /\ prompts' = prompts
    BY <1>1, <2>2 DEF CastAccepted, CastFailed, OnFailed, OnPublished, At, Session, Step
  <2> QED BY <1>4, <2>1, <2>2 DEF Publisher
<1>5. CASE Phone
  BY <1>5 DEF Phone, Back, Close, DepositForSwap, SetNodes, Relaunch, SelectAccount, AddAccount,
              ForgetAccount, calls, START
<1> QED BY <1>2, <1>3, <1>4, <1>5 DEF Next

(* While a payment is broadcasting nothing touches its session: the step   *)
(* has no back, and every event but an answer is ignored.                  *)
LEMMA BroadcastingStays ==
  ASSUME IInv, [Next]_vars, session.step = "broadcasting"
  PROVE  session' = session \/ session'.step # "broadcasting"
<1>1. session \in Session
  BY DEF IInv, TypeOK
<1>2. CASE Building
  BY <1>2 DEF Building, PrepareBitcoin, StartPlan, PlanLands, Built
<1>3. CASE Handoff
  BY <1>3 DEF Handoff, BeginTransmit, HandOver, ReadBack, VaultSigns, ScanTxSigned,
              ApplyFromVault, OnReturned, At, StandInAnswers
<1>4. CASE HotSigner
  <2>1. ~ SignOnThisDevice
    BY DEF SignOnThisDevice
  <2>2. ASSUME NEW c \in Job, PromptRefused(c) PROVE session'.step = "failed"
    BY <1>1, <2>2 DEF PromptRefused, OnFailed, At, Session, Step
  <2>3. ASSUME NEW c \in Job, PromptAllowed(c) PROVE session' = session
    BY <2>3 DEF PromptAllowed, OnReturned, At
  <2> QED BY <1>4, <2>1, <2>2, <2>3 DEF HotSigner
<1>5. CASE Publisher
  BY <1>1, <1>5 DEF Publisher, Broadcast, CanBroadcast, CastAccepted, CastFailed, OnPublished,
                    OnFailed, At, Session, Step
<1>6. CASE Phone
  <2>1. START.step # "broadcasting"
    BY DEF START
  <2> QED BY <1>6, <2>1 DEF Phone, Back, Close, DepositForSwap, SetNodes, Relaunch, SelectAccount,
                            AddAccount, ForgetAccount
<1>7. CASE UNCHANGED vars
  BY <1>7 DEF vars
<1> QED BY <1>2, <1>3, <1>4, <1>5, <1>6, <1>7 DEF Next

(* A payment at the prompt always has a call in flight and one at the      *)
(* broadcast its own, for any number of payments and accounts...           *)
THEOREM NothingWaitsInVain == Spec => []WaitsForSomething
<1>1. Init => WaitsForSomething
  BY DEF Init, START, WaitsForSomething
<1>2. IInv /\ WaitsForSomething /\ [Next]_vars => WaitsForSomething'
  <2> SUFFICES ASSUME IInv, WaitsForSomething, [Next]_vars PROVE WaitsForSomething'
    OBVIOUS
  <2>1. session'.step = "signing" => prompts' # {}
    BY WaitingBegins, AnsweringEnds DEF WaitsForSomething
  <2>2. CASE session.step = "broadcasting" /\ session'.step = "broadcasting"
    <3>1. session' = session
      BY <2>2, BroadcastingStays
    <3>2. OwnCast(session)' = OwnCast(session)
      BY <3>1 DEF OwnCast
    <3> QED BY <2>1, <2>2, <3>2, AnsweringEnds DEF WaitsForSomething
  <2>3. CASE session.step # "broadcasting" \/ session'.step # "broadcasting"
    BY <2>1, <2>3, WaitingBegins DEF WaitsForSomething
  <2> QED BY <2>2, <2>3
<1> QED BY Invariance, <1>1, <1>2, PTL DEF Spec

(* ...and any answer ends the wait, so that a deadline on every call is    *)
(* all it takes.                                                           *)
THEOREM AnAnswerEndsTheWait == Spec => AnswersEndTheWait
<1> DEFINE Ends ==
      /\ session.step = "signing" /\ ~ (prompts \subseteq prompts') => session'.step # "signing"
      /\ session.step = "broadcasting" /\ ~ (casts \subseteq casts')
           => session'.step # "broadcasting"
<1>1. IInv /\ [Next]_vars => [Ends]_vars
  <2> SUFFICES ASSUME IInv, [Next]_vars PROVE Ends
    OBVIOUS
  <2> QED BY AnsweringEnds
<1> QED BY Invariance, <1>1, PTL DEF Spec, AnswersEndTheWait

(* broadcast: the screen that says a payment is done shows its own id,     *)
(* unless the call of another payment was in the air beside its own.       *)
THEOREM DoneIsNamed == Spec => DoneNamesItsPayment
<1> DEFINE Named == session.step = "broadcasting" /\ session'.step = "done"
                      => \/ session'.txid = session.verified.of
                         \/ \E c, e \in casts : c.draft # e.draft
<1>1. IInv /\ WaitsForSomething /\ [Next]_vars => [Named]_vars
  <2> SUFFICES ASSUME IInv, WaitsForSomething, [Next]_vars,
                      session.step = "broadcasting", session'.step = "done"
               PROVE  Named
    OBVIOUS
  <2>1. session \in Session
    BY DEF IInv, TypeOK
  <2>2. OwnCast(session) \in casts /\ OwnCast(session).draft = session.verified.of
    BY DEF WaitsForSomething, OwnCast
  <2>3. \E c \in Job : CastAccepted(c)
    <3>1. CASE Building \/ Handoff \/ UNCHANGED vars
      BY <3>1 DEF Building, PrepareBitcoin, StartPlan, PlanLands, Built, Handoff, BeginTransmit,
                  HandOver, ReadBack, VaultSigns, ScanTxSigned, ApplyFromVault, OnReturned, At,
                  StandInAnswers, vars
    <3>2. CASE HotSigner
      BY <2>1, <3>2 DEF HotSigner, SignOnThisDevice, PromptRefused, PromptAllowed, OnFailed,
                        OnReturned, At, Session, Step
    <3>3. CASE Publisher
      BY <2>1, <3>3 DEF Publisher, Broadcast, CanBroadcast, CastFailed, OnFailed, At, Session, Step
    <3>4. CASE Phone
      BY <3>4 DEF Phone, Back, Close, DepositForSwap, SetNodes, Relaunch, SelectAccount,
                  AddAccount, ForgetAccount, START
    <3> QED BY <3>1, <3>2, <3>3, <3>4 DEF Next
  <2>4. PICK c \in Job : CastAccepted(c)
    BY <2>3
  <2>5. c \in casts /\ session'.txid = c.draft
    BY <2>1, <2>4 DEF CastAccepted, OnPublished, At, Session
  <2> QED BY <2>2, <2>5
<1> QED BY Invariance, NothingWaitsInVain, <1>1, PTL DEF Spec, DoneNamesItsPayment

(* Every send flow is a behaviour of PaymentPromise.                       *)
THEOREM Refinement == Spec => KeepsThePromise
<1> USE DEF phone, calls, audit, past, P!stages
<1>1. Init => P!Start
  BY DEF Init, P!Start
<1>2. ASSUME IInv, [Next]_vars PROVE [P!Advance]_(P!stages)
  <2> USE <1>2
  <2>1. ASSUME NEW d \in Draft, NEW a \in Account, Built(d, a), UNCHANGED past
        PROVE  P!Advance
    BY <2>1 DEF Built, P!Advance, P!Build
  <2>2. CASE Building
    <3>1. ASSUME NEW d \in Draft, PrepareBitcoin(d) PROVE P!Advance
      BY <2>1, <3>1, SelectedIsPresent DEF PrepareBitcoin, IInv
    <3>2. CASE StartPlan
      BY <3>2 DEF StartPlan
    <3>3. ASSUME NEW a \in Account, NEW d \in Draft, PlanLands(a, d)
          PROVE  P!Advance \/ UNCHANGED P!stages
      BY <2>1, <3>3 DEF PlanLands
    <3> QED BY <2>2, <3>1, <3>2, <3>3 DEF Building
  <2>3. CASE Handoff
    <3>1. CASE BeginTransmit \/ HandOver \/ ReadBack
      BY <3>1 DEF BeginTransmit, HandOver, ReadBack
    <3>2. ASSUME NEW d \in Draft, VaultSigns(d) PROVE P!SignAway(d)
      <4>1. acctOf[d] \in Account \ SigningAccount
        BY <3>2 DEF VaultSigns, IInv, TypeOK, Support
      <4> QED BY <3>2, <4>1 DEF VaultSigns, P!SignAway
    <3>3. ASSUME NEW tx \in Draft \cup {None}, ScanTxSigned(tx)
          PROVE  P!Advance \/ UNCHANGED P!stages
      <4>1. CASE passed' = passed
        BY <3>3, <4>1 DEF ScanTxSigned
      <4>2. CASE passed' # passed
        <5>1. /\ wire = tx /\ tx \in Draft /\ tx \in signedAway
              /\ passed' = passed \cup {tx}
          BY <3>3, <4>2 DEF ScanTxSigned, ApplyFromVault, IInv, TypeOK
        <5> QED BY <3>3, <5>1 DEF ScanTxSigned, P!Advance, P!Match
      <4> QED BY <4>1, <4>2
    <3>4. CASE StandInAnswers
      <4>1. session.draft \in Draft /\ session.account = acctOf[session.draft]
            /\ session.account \in Account
        BY <3>4 DEF StandInAnswers, IInv, TypeOK, Session, Support, DraftKeepsItsAccount
      <4>2. CASE UNCHANGED <<passed, signedAway>>
        BY <3>4, <4>2 DEF StandInAnswers
      <4>3. CASE ~UNCHANGED <<passed, signedAway>>
        <5>1. /\ session.account \notin SigningAccount
              /\ signedAway' = signedAway \cup {session.draft}
              /\ passed' \in {passed, passed \cup {session.draft}}
          BY <3>4, <4>1, <4>3 DEF StandInAnswers, ApplyFromVault
        <5> QED BY <3>4, <4>1, <5>1 DEF StandInAnswers, P!Advance, P!SignAway
      <4> QED BY <4>2, <4>3
    <3> QED BY <2>3, <3>1, <3>2, <3>3, <3>4 DEF Handoff, P!Advance
  <2>4. CASE HotSigner
    <3>1. CASE SignOnThisDevice
      BY <3>1 DEF SignOnThisDevice
    <3>2. ASSUME NEW c \in Job, PromptRefused(c) PROVE UNCHANGED P!stages
      BY <3>2 DEF PromptRefused
    <3>3. ASSUME NEW c \in Job, PromptAllowed(c) PROVE P!Advance
      <4>1. c.draft \in Draft /\ acctOf[c.draft] \in SigningAccount
        BY <3>3 DEF PromptAllowed, Job, IInv, Support, DraftKeepsItsAccount
      <4>2. passed' \in {passed, passed \cup {c.draft}}
        BY <3>3 DEF PromptAllowed
      <4>3. P!SignHere(c.draft)
        BY <3>3, <4>1, <4>2 DEF PromptAllowed, P!SignHere
      <4> QED BY <4>1, <4>3 DEF P!Advance
    <3> QED BY <2>4, <3>1, <3>2, <3>3 DEF HotSigner
  <2>5. CASE Publisher
    <3>1. CASE Broadcast
      BY <3>1 DEF Broadcast
    <3>2. ASSUME NEW c \in Job, CastAccepted(c) \/ CastFailed(c)
          PROVE  P!Advance \/ UNCHANGED P!stages
      <4>1. {c.draft} \subseteq passed /\ {c.draft} \in SUBSET Draft
        BY <3>2 DEF CastAccepted, CastFailed, IInv, Support, Job
      <4>2. P!Publish({c.draft}) \/ UNCHANGED P!stages
        BY <3>2, <4>1 DEF CastAccepted, CastFailed, P!Publish
      <4> QED BY <4>1, <4>2 DEF P!Advance
    <3> QED BY <2>5, <3>1, <3>2 DEF Publisher
  <2>6. CASE Phone
    <3>1. CASE Relaunch
      <4>1. PICK S \in SUBSET {c.draft : c \in casts} : accepted' = accepted \cup S
        BY <3>1 DEF Relaunch
      <4>2. S \subseteq passed /\ S \in SUBSET Draft
        BY <4>1 DEF IInv, Support, TypeOK
      <4>3. P!Publish(S)
        BY <3>1, <4>1, <4>2 DEF Relaunch, P!Publish
      <4> QED BY <4>2, <4>3 DEF P!Advance
    <3>2. CASE Back \/ Close \/ DepositForSwap \/ SetNodes
      BY <3>2 DEF Back, Close, DepositForSwap, SetNodes
    <3>3. ASSUME NEW a \in Account, SelectAccount(a) \/ AddAccount(a) \/ ForgetAccount(a)
          PROVE  UNCHANGED P!stages
      BY <3>3 DEF SelectAccount, AddAccount, ForgetAccount
    <3> QED BY <2>6, <3>1, <3>2, <3>3 DEF Phone
  <2>7. CASE UNCHANGED vars
    BY <2>7 DEF vars
  <2> QED BY <2>2, <2>3, <2>4, <2>5, <2>6, <2>7 DEF Next
<1>3. IInv /\ [Next]_vars => [P!Advance]_(P!stages)
  BY <1>2
<1> QED BY Invariance, <1>1, <1>3, PTL DEF Spec, KeepsThePromise, P!Promise
=============================================================================
