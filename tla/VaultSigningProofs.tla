------------------------- MODULE VaultSigningProofs -------------------------
(***************************************************************************)
(* What TLAPS checks about VaultSigning for any payloads, however late a   *)
(* delayed call, a derivation or a frame arrives.                          *)
(***************************************************************************)
EXTENDS VaultSigning, TLAPS

USE VaultSigningAssumption

(* Screens are well formed, whatever leads to them. *)
LEMMA Screens ==
  /\ \A r \in Plain : At(r) \in Route
  /\ \A r \in Carrying \ Signed, tx \in Tx : About(r, tx) \in Route
BY DEF At, About, Route

(* A screen of a kind that carries a transaction has one. *)
LEMMA Carries == ASSUME NEW r \in Route
                 PROVE /\ r.at \in Plain \cup Carrying
                       /\ r.at \in Carrying => r.tx \in Tx
                       /\ r.at \in Carrying \ Signed => r.result = None
                       /\ r.at \in Signed => r.result \in Tx
BY DEF Route, Plain, Tabs, Carrying, Signed

(* A signed screen shows a transaction and a signature. *)
LEMMA Shows == \A tx, result \in Tx : [at |-> "signed", tx |-> tx, result |-> result] \in Route
BY DEF Route, Signed

(* The plain levers lead to plain screens. *)
LEMMA Leads == \A lever \in Levers : lever[2] \in Plain
BY DEF Levers, Plain, Tabs

(* A lever that goes on with a transaction leads to a screen of its kind. *)
LEMMA Goes == ASSUME NEW r \in Route, NEW lever \in Onward, lever[1] = r.at
              PROVE [r EXCEPT !.at = lever[2]] \in Route
<1>1. CASE lever[1] = "signed"
  <2>1. lever = <<"signed", "signedQR">>
    BY <1>1 DEF Onward
  <2>2. r \in [at : Signed, tx : Tx, result : Tx]
    BY <1>1 DEF Route, Plain, Tabs, Carrying, Signed
  <2> QED BY <2>1, <2>2 DEF Route, Signed
<1>2. CASE lever[1] # "signed"
  <2>1. lever[1] \in Carrying \ Signed /\ lever[2] \in Carrying \ Signed
    BY <1>2 DEF Onward, Carrying, Signed
  <2>2. r \in [at : Carrying \ Signed, tx : Tx, result : {None}]
    BY <2>1 DEF Route, Plain, Tabs, Carrying, Signed
  <2> QED BY <2>1, <2>2 DEF Route
<1> QED BY <1>1, <1>2

(* The levers that move keep the invariant. *)
LEMMA MovingKeeps == ASSUME IInv, Moving PROVE IInv'
<1> USE DEF IInv, engine, work
<1>1. ASSUME Press PROVE IInv'
  <2>1. route' \in Route
    <3>1. PICK lever \in Levers : lever[1] = route.at /\ Go(At(lever[2]))
      BY <1>1 DEF Press
    <3>2. At(lever[2]) \in Route
      BY Leads, Screens
    <3>3. At("unlock") \in Route
      BY Screens DEF Plain
    <3>4. route' \in {route, At("unlock"), At(lever[2])}
      BY <3>1 DEF Go, Move
    <3>5. route \in Route
      BY DEF TypeOK
    <3> QED BY <3>2, <3>3, <3>4, <3>5, Zenon
  <2>2. TypeOK'
    BY <1>1, <2>1 DEF Press, Go, Move, Lock, TypeOK
  <2>3. Coherent'
    BY <1>1, <2>1, Carries DEF Press, Go, Move, Lock, Levers, At, TypeOK, ApprovalBelongsToSession, DemoKeysStayInDemo, Coherent, Allowed, Carrying, Signed, Reading, Walk, Plain, Tabs, Wallet, Tx
  <2>4. SignedIsWhatWasApproved' /\ ApprovalBelongsToSession'
    BY <1>1, <2>1, Carries DEF Press, Go, Move, Lock, Levers, At, TypeOK, SignedIsWhatWasApproved, ApprovalBelongsToSession, DemoKeysStayInDemo, Coherent, Allowed, Carrying, Signed, Reading, Walk, Plain, Tabs, Wallet, Tx
  <2>5. DemoKeysStayInDemo'
    BY <1>1, <2>1 DEF Press, Go, Move, Lock, Levers, At, TypeOK, DemoKeysStayInDemo, Coherent, InOrder, Allowed, Carrying, Signed, Reading, Walk, Plain, Tabs
  <2>6. InOrder'
    BY <1>1, <2>1 DEF Press, Go, Move, Lock, Levers, At, TypeOK, InOrder, Allowed, Carrying, Signed, Reading, Walk, Plain, Tabs
  <2> QED BY <2>2, <2>3, <2>4, <2>5, <2>6
<1>2. ASSUME PressOnward PROVE IInv'
  <2>1. route' \in Route
    <3>1. PICK lever \in Onward : lever[1] = route.at /\ Move([route EXCEPT !.at = lever[2]])
      BY <1>2 DEF PressOnward
    <3>2. [route EXCEPT !.at = lever[2]] \in Route
      BY <3>1, Goes DEF TypeOK
    <3> QED BY <3>1, <3>2 DEF Move, TypeOK
  <2>2. TypeOK'
    BY <1>2, <2>1 DEF PressOnward, Move, Onward, TypeOK, Tx, Wallet
  <2>3. Coherent'
    BY <1>2, <2>1, Carries DEF PressOnward, Move, Onward, TypeOK, ApprovalBelongsToSession, DemoKeysStayInDemo, Coherent, Allowed, Carrying, Signed, Reading, Walk, Plain, Tabs, Wallet, Tx
  <2>4. SignedIsWhatWasApproved' /\ ApprovalBelongsToSession'
    BY <1>2, <2>1, Carries DEF PressOnward, Move, Onward, TypeOK, SignedIsWhatWasApproved, ApprovalBelongsToSession, DemoKeysStayInDemo, Coherent, Allowed, Carrying, Signed, Reading, Walk, Plain, Tabs, Wallet, Tx
  <2>5. DemoKeysStayInDemo'
    BY <1>2, <2>1 DEF PressOnward, Move, Onward, TypeOK, DemoKeysStayInDemo, Coherent, InOrder, Allowed, Carrying, Signed, Reading, Walk, Plain, Tabs
  <2>6. InOrder'
    BY <1>2, <2>1 DEF PressOnward, Move, Onward, TypeOK, InOrder, Allowed, Carrying, Signed, Reading, Walk, Plain, Tabs
  <2> QED BY <2>2, <2>3, <2>4, <2>5, <2>6
<1>3. ASSUME Verified PROVE IInv'
  <2>1. route' \in Route
    BY <1>3, Screens, Carries, Goes DEF Verified, Move, At, TypeOK, Carrying, Signed, Reading, Walk, Plain, Tabs
  <2>2. TypeOK'
    BY <1>3, <2>1 DEF Verified, Move, At, TypeOK, Tx, Wallet
  <2>3. Coherent'
    BY <1>3, <2>1, Carries DEF Verified, Move, At, TypeOK, ApprovalBelongsToSession, DemoKeysStayInDemo, Coherent, Allowed, Carrying, Signed, Reading, Walk, Plain, Tabs, Wallet, Tx
  <2>4. SignedIsWhatWasApproved' /\ ApprovalBelongsToSession'
    BY <1>3, <2>1, Carries DEF Verified, Move, At, TypeOK, SignedIsWhatWasApproved, ApprovalBelongsToSession, DemoKeysStayInDemo, Coherent, Allowed, Carrying, Signed, Reading, Walk, Plain, Tabs, Wallet, Tx
  <2>5. DemoKeysStayInDemo'
    BY <1>3, <2>1 DEF Verified, Move, At, TypeOK, DemoKeysStayInDemo, Coherent, InOrder, Allowed, Carrying, Signed, Reading, Walk, Plain, Tabs
  <2>6. InOrder'
    BY <1>3, <2>1 DEF Verified, Move, At, TypeOK, InOrder, Allowed, Carrying, Signed, Reading, Walk, Plain, Tabs
  <2> QED BY <2>2, <2>3, <2>4, <2>5, <2>6
<1>4. ASSUME ScanAgain PROVE IInv'
  <2>1. route' \in Route
    BY <1>4, Screens, Carries, Goes DEF ScanAgain, Go, Move, Lock, At, TypeOK, Carrying, Signed, Reading, Walk, Plain, Tabs
  <2>2. TypeOK'
    BY <1>4, <2>1 DEF ScanAgain, Go, Move, Lock, At, TypeOK, Tx, Wallet
  <2>3. Coherent'
    BY <1>4, <2>1, Carries DEF ScanAgain, Go, Move, Lock, At, TypeOK, ApprovalBelongsToSession, DemoKeysStayInDemo, Coherent, Allowed, Carrying, Signed, Reading, Walk, Plain, Tabs, Wallet, Tx
  <2>4. SignedIsWhatWasApproved' /\ ApprovalBelongsToSession'
    BY <1>4, <2>1, Carries DEF ScanAgain, Go, Move, Lock, At, TypeOK, SignedIsWhatWasApproved, ApprovalBelongsToSession, DemoKeysStayInDemo, Coherent, Allowed, Carrying, Signed, Reading, Walk, Plain, Tabs, Wallet, Tx
  <2>5. DemoKeysStayInDemo'
    BY <1>4, <2>1 DEF ScanAgain, Go, Move, Lock, At, TypeOK, DemoKeysStayInDemo, Coherent, InOrder, Allowed, Carrying, Signed, Reading, Walk, Plain, Tabs
  <2>6. InOrder'
    BY <1>4, <2>1 DEF ScanAgain, Go, Move, Lock, At, TypeOK, InOrder, Allowed, Carrying, Signed, Reading, Walk, Plain, Tabs
  <2> QED BY <2>2, <2>3, <2>4, <2>5, <2>6
<1> QED BY <1>1, <1>2, <1>3, <1>4 DEF Moving

(* So does everything that comes through the lens or its timers. *)
LEMMA ScanningKeeps == ASSUME IInv, Scanning PROVE IInv'
<1> USE DEF IInv, engine, work
<1>1. ASSUME BeginDemo PROVE IInv'
  <2>1. route' \in Route
    BY <1>1, Screens, Carries, Goes DEF BeginDemo, Acquiring, At, TypeOK, Carrying, Signed, Reading, Walk, Plain, Tabs
  <2>2. TypeOK'
    BY <1>1, <2>1 DEF BeginDemo, Acquiring, At, TypeOK, Tx, Wallet
  <2>3. Coherent'
    BY <1>1, <2>1, Carries DEF BeginDemo, Acquiring, At, TypeOK, ApprovalBelongsToSession, DemoKeysStayInDemo, Coherent, Allowed, Carrying, Signed, Reading, Walk, Plain, Tabs, Wallet, Tx
  <2>4. SignedIsWhatWasApproved' /\ ApprovalBelongsToSession'
    BY <1>1, <2>1, Carries DEF BeginDemo, Acquiring, At, TypeOK, SignedIsWhatWasApproved, ApprovalBelongsToSession, DemoKeysStayInDemo, Coherent, Allowed, Carrying, Signed, Reading, Walk, Plain, Tabs, Wallet, Tx
  <2>5. DemoKeysStayInDemo'
    BY <1>1, <2>1 DEF BeginDemo, Acquiring, At, TypeOK, DemoKeysStayInDemo, Coherent, InOrder, Allowed, Carrying, Signed, Reading, Walk, Plain, Tabs
  <2>6. InOrder'
    BY <1>1, <2>1 DEF BeginDemo, Acquiring, At, TypeOK, InOrder, Allowed, Carrying, Signed, Reading, Walk, Plain, Tabs
  <2> QED BY <2>2, <2>3, <2>4, <2>5, <2>6
<1>2. ASSUME Recognised PROVE IInv'
  <2>1. route' \in Route
    BY <1>2, Screens, Carries, Goes DEF Recognised, TypeOK, Carrying, Signed, Reading, Walk, Plain, Tabs
  <2>2. TypeOK'
    BY <1>2, <2>1 DEF Recognised, TypeOK, Tx, Wallet
  <2>3. Coherent'
    BY <1>2, <2>1, Carries DEF Recognised, TypeOK, ApprovalBelongsToSession, DemoKeysStayInDemo, Coherent, Allowed, Carrying, Signed, Reading, Walk, Plain, Tabs, Wallet, Tx
  <2>4. SignedIsWhatWasApproved' /\ ApprovalBelongsToSession'
    BY <1>2, <2>1, Carries DEF Recognised, TypeOK, SignedIsWhatWasApproved, ApprovalBelongsToSession, DemoKeysStayInDemo, Coherent, Allowed, Carrying, Signed, Reading, Walk, Plain, Tabs, Wallet, Tx
  <2>5. DemoKeysStayInDemo'
    BY <1>2, <2>1 DEF Recognised, TypeOK, DemoKeysStayInDemo, Coherent, InOrder, Allowed, Carrying, Signed, Reading, Walk, Plain, Tabs
  <2>6. InOrder'
    BY <1>2, <2>1 DEF Recognised, TypeOK, InOrder, Allowed, Carrying, Signed, Reading, Walk, Plain, Tabs
  <2> QED BY <2>2, <2>3, <2>4, <2>5, <2>6
<1>3. ASSUME FireAcquiring PROVE IInv'
  <2>1. route' \in Route
    BY <1>3, Screens, Carries, Goes DEF FireAcquiring, Acquiring, At, TypeOK, Carrying, Signed, Reading, Walk, Plain, Tabs
  <2>2. TypeOK'
    BY <1>3, <2>1 DEF FireAcquiring, Acquiring, At, TypeOK, Tx, Wallet
  <2>3. Coherent'
    BY <1>3, <2>1, Carries DEF FireAcquiring, Acquiring, At, TypeOK, ApprovalBelongsToSession, DemoKeysStayInDemo, Coherent, Allowed, Carrying, Signed, Reading, Walk, Plain, Tabs, Wallet, Tx
  <2>4. SignedIsWhatWasApproved' /\ ApprovalBelongsToSession'
    BY <1>3, <2>1, Carries DEF FireAcquiring, Acquiring, At, TypeOK, SignedIsWhatWasApproved, ApprovalBelongsToSession, DemoKeysStayInDemo, Coherent, Allowed, Carrying, Signed, Reading, Walk, Plain, Tabs, Wallet, Tx
  <2>5. DemoKeysStayInDemo'
    BY <1>3, <2>1 DEF FireAcquiring, Acquiring, At, TypeOK, DemoKeysStayInDemo, Coherent, InOrder, Allowed, Carrying, Signed, Reading, Walk, Plain, Tabs
  <2>6. InOrder'
    BY <1>3, <2>1 DEF FireAcquiring, Acquiring, At, TypeOK, InOrder, Allowed, Carrying, Signed, Reading, Walk, Plain, Tabs
  <2> QED BY <2>2, <2>3, <2>4, <2>5, <2>6
<1>4. ASSUME LensCloses PROVE IInv'
  <2>1. route' \in Route
    BY <1>4, Screens, Carries, Goes DEF LensCloses, TypeOK, Carrying, Signed, Reading, Walk, Plain, Tabs
  <2>2. TypeOK'
    BY <1>4, <2>1 DEF LensCloses, TypeOK, Tx, Wallet
  <2>3. Coherent'
    BY <1>4, <2>1, Carries DEF LensCloses, TypeOK, ApprovalBelongsToSession, DemoKeysStayInDemo, Coherent, Allowed, Carrying, Signed, Reading, Walk, Plain, Tabs, Wallet, Tx
  <2>4. SignedIsWhatWasApproved' /\ ApprovalBelongsToSession'
    BY <1>4, <2>1, Carries DEF LensCloses, TypeOK, SignedIsWhatWasApproved, ApprovalBelongsToSession, DemoKeysStayInDemo, Coherent, Allowed, Carrying, Signed, Reading, Walk, Plain, Tabs, Wallet, Tx
  <2>5. DemoKeysStayInDemo'
    BY <1>4, <2>1 DEF LensCloses, TypeOK, DemoKeysStayInDemo, Coherent, InOrder, Allowed, Carrying, Signed, Reading, Walk, Plain, Tabs
  <2>6. InOrder'
    BY <1>4, <2>1 DEF LensCloses, TypeOK, InOrder, Allowed, Carrying, Signed, Reading, Walk, Plain, Tabs
  <2> QED BY <2>2, <2>3, <2>4, <2>5, <2>6
<1>5. ASSUME NEW p \in Payload, Offer(p) PROVE IInv'
  <2>1. route' \in Route
    <3>1. session # "none" => Read(p) \in Tx
      BY DEF Read, Tx, TypeOK
    <3>2. session # "none" => About("review", Read(p)) \in Route
      BY <3>1, Screens DEF Carrying, Signed
    <3>3. At("refused") \in Route /\ At("keyImages") \in Route /\ At("xmrFile") \in Route
      BY Screens DEF Plain
    <3> QED BY <1>5, <3>2, <3>3 DEF Offer, OfferPsbt, OfferMonero, OfferToRead, Move, TypeOK
  <2>2. TypeOK'
    BY <1>5, <2>1 DEF Offer, OfferPsbt, OfferMonero, OfferToRead, Read, Move, At, About, TypeOK, Tx, Wallet
  <2>3. Coherent'
    BY <1>5, <2>1, Carries DEF Offer, OfferPsbt, OfferMonero, OfferToRead, Read, Move, At, About, TypeOK, ApprovalBelongsToSession, DemoKeysStayInDemo, Coherent, Allowed, Carrying, Signed, Reading, Walk, Plain, Tabs, Wallet, Tx
  <2>4. SignedIsWhatWasApproved' /\ ApprovalBelongsToSession'
    BY <1>5, <2>1, Carries DEF Offer, OfferPsbt, OfferMonero, OfferToRead, Read, Move, At, About, TypeOK, SignedIsWhatWasApproved, ApprovalBelongsToSession, DemoKeysStayInDemo, Coherent, Allowed, Carrying, Signed, Reading, Walk, Plain, Tabs, Wallet, Tx
  <2>5. DemoKeysStayInDemo'
    BY <1>5, <2>1 DEF Offer, OfferPsbt, OfferMonero, OfferToRead, Read, Move, At, About, TypeOK, DemoKeysStayInDemo, Coherent, InOrder, Allowed, Carrying, Signed, Reading, Walk, Plain, Tabs
  <2>6. InOrder'
    BY <1>5, <2>1 DEF Offer, OfferPsbt, OfferMonero, OfferToRead, Read, Move, At, About, TypeOK, InOrder, Allowed, Carrying, Signed, Reading, Walk, Plain, Tabs
  <2> QED BY <2>2, <2>3, <2>4, <2>5, <2>6
<1>6. ASSUME NamedRefusal PROVE IInv'
  <2>1. route' \in Route
    BY <1>6, Screens, Carries, Goes DEF NamedRefusal, Move, At, TypeOK, Carrying, Signed, Reading, Walk, Plain, Tabs
  <2>2. TypeOK'
    BY <1>6, <2>1 DEF NamedRefusal, Move, At, TypeOK, Tx, Wallet
  <2>3. Coherent'
    BY <1>6, <2>1, Carries DEF NamedRefusal, Move, At, TypeOK, ApprovalBelongsToSession, DemoKeysStayInDemo, Coherent, Allowed, Carrying, Signed, Reading, Walk, Plain, Tabs, Wallet, Tx
  <2>4. SignedIsWhatWasApproved' /\ ApprovalBelongsToSession'
    BY <1>6, <2>1, Carries DEF NamedRefusal, Move, At, TypeOK, SignedIsWhatWasApproved, ApprovalBelongsToSession, DemoKeysStayInDemo, Coherent, Allowed, Carrying, Signed, Reading, Walk, Plain, Tabs, Wallet, Tx
  <2>5. DemoKeysStayInDemo'
    BY <1>6, <2>1 DEF NamedRefusal, Move, At, TypeOK, DemoKeysStayInDemo, Coherent, InOrder, Allowed, Carrying, Signed, Reading, Walk, Plain, Tabs
  <2>6. InOrder'
    BY <1>6, <2>1 DEF NamedRefusal, Move, At, TypeOK, InOrder, Allowed, Carrying, Signed, Reading, Walk, Plain, Tabs
  <2> QED BY <2>2, <2>3, <2>4, <2>5, <2>6
<1> QED BY <1>1, <1>2, <1>3, <1>4, <1>5, <1>6 DEF Scanning

(* Both signers keep it. *)
LEMMA SigningKeeps == ASSUME IInv, Signing PROVE IInv'
<1> USE DEF IInv, engine, work
<1>1. ASSUME CompleteSigning PROVE IInv'
  <2>1. route' \in Route
    <3>1. At("refused") \in Route
      BY Screens DEF Plain
    <3>2. route.tx \in Tx
      BY <1>1, Carries DEF CompleteSigning, TypeOK, Carrying
    <3>3. ASSUME Signs(route.tx) PROVE [payload |-> pending, keys |-> session] \in Tx
      BY <3>3 DEF Signs, Tx, TypeOK
    <3> QED BY <1>1, <3>1, <3>2, <3>3, Shows DEF CompleteSigning, Move, TypeOK
  <2>2. TypeOK'
    BY <1>1, <2>1 DEF CompleteSigning, Move, At, Signs, TypeOK, Tx, Wallet
  <2>3. Coherent'
    BY <1>1, <2>1, Carries DEF CompleteSigning, Move, At, Signs, TypeOK, ApprovalBelongsToSession, DemoKeysStayInDemo, Coherent, Allowed, Carrying, Signed, Reading, Walk, Plain, Tabs, Wallet, Tx
  <2>4. SignedIsWhatWasApproved' /\ ApprovalBelongsToSession'
    BY <1>1, <2>1, Carries DEF CompleteSigning, Move, At, Signs, TypeOK, SignedIsWhatWasApproved, ApprovalBelongsToSession, DemoKeysStayInDemo, Coherent, Allowed, Carrying, Signed, Reading, Walk, Plain, Tabs, Wallet, Tx
  <2>5. DemoKeysStayInDemo'
    BY <1>1, <2>1 DEF CompleteSigning, Move, At, Signs, TypeOK, DemoKeysStayInDemo, Coherent, InOrder, Allowed, Carrying, Signed, Reading, Walk, Plain, Tabs
  <2>6. InOrder'
    BY <1>1, <2>1 DEF CompleteSigning, Move, At, Signs, TypeOK, InOrder, Allowed, Carrying, Signed, Reading, Walk, Plain, Tabs
  <2> QED BY <2>2, <2>3, <2>4, <2>5, <2>6
<1>2. ASSUME CompleteMoneroSigning PROVE IInv'
  <2>1. route' \in Route
    <3>1. At("refused") \in Route
      BY Screens DEF Plain
    <3>2. route.tx \in Tx
      BY <1>2, Carries DEF CompleteMoneroSigning, TypeOK, Carrying
    <3>3. ASSUME session # "none", moneroSet # None
          PROVE [payload |-> moneroSet.payload, keys |-> session] \in Tx
      BY <3>3 DEF Tx, TypeOK
    <3> QED BY <1>2, <3>1, <3>2, <3>3, Shows DEF CompleteMoneroSigning, Move, TypeOK
  <2>2. TypeOK'
    BY <1>2, <2>1 DEF CompleteMoneroSigning, Move, At, TypeOK, Tx, Wallet
  <2>3. Coherent'
    BY <1>2, <2>1, Carries DEF CompleteMoneroSigning, Move, At, TypeOK, ApprovalBelongsToSession, DemoKeysStayInDemo, Coherent, Allowed, Carrying, Signed, Reading, Walk, Plain, Tabs, Wallet, Tx
  <2>4. SignedIsWhatWasApproved' /\ ApprovalBelongsToSession'
    BY <1>2, <2>1, Carries DEF CompleteMoneroSigning, Move, At, TypeOK, SignedIsWhatWasApproved, ApprovalBelongsToSession, DemoKeysStayInDemo, Coherent, Allowed, Carrying, Signed, Reading, Walk, Plain, Tabs, Wallet, Tx
  <2>5. DemoKeysStayInDemo'
    BY <1>2, <2>1 DEF CompleteMoneroSigning, Move, At, TypeOK, DemoKeysStayInDemo, Coherent, InOrder, Allowed, Carrying, Signed, Reading, Walk, Plain, Tabs
  <2>6. InOrder'
    BY <1>2, <2>1 DEF CompleteMoneroSigning, Move, At, TypeOK, InOrder, Allowed, Carrying, Signed, Reading, Walk, Plain, Tabs
  <2> QED BY <2>2, <2>3, <2>4, <2>5, <2>6
<1> QED BY <1>1, <1>2 DEF Signing

(* So do unlocking, making and erasing, wherever they are overtaken. *)
LEMMA KeysKeeps == ASSUME IInv, Keys PROVE IInv'
<1> USE DEF IInv, engine, work
<1>1. ASSUME Proceed PROVE IInv'
  <2>1. route' \in Route
    BY <1>1, Screens, Carries, Goes DEF Proceed, Move, At, TypeOK, Carrying, Signed, Reading, Walk, Plain, Tabs
  <2>2. TypeOK'
    BY <1>1, <2>1 DEF Proceed, Move, At, TypeOK, Tx, Wallet
  <2>3. Coherent'
    BY <1>1, <2>1, Carries DEF Proceed, Move, At, TypeOK, ApprovalBelongsToSession, DemoKeysStayInDemo, Coherent, Allowed, Carrying, Signed, Reading, Walk, Plain, Tabs, Wallet, Tx
  <2>4. SignedIsWhatWasApproved' /\ ApprovalBelongsToSession'
    BY <1>1, <2>1, Carries DEF Proceed, Move, At, TypeOK, SignedIsWhatWasApproved, ApprovalBelongsToSession, DemoKeysStayInDemo, Coherent, Allowed, Carrying, Signed, Reading, Walk, Plain, Tabs, Wallet, Tx
  <2>5. DemoKeysStayInDemo'
    BY <1>1, <2>1 DEF Proceed, Move, At, TypeOK, DemoKeysStayInDemo, Coherent, InOrder, Allowed, Carrying, Signed, Reading, Walk, Plain, Tabs
  <2>6. InOrder'
    BY <1>1, <2>1 DEF Proceed, Move, At, TypeOK, InOrder, Allowed, Carrying, Signed, Reading, Walk, Plain, Tabs
  <2> QED BY <2>2, <2>3, <2>4, <2>5, <2>6
<1>2. ASSUME BeginOpen PROVE IInv'
  <2>1. route' \in Route
    BY <1>2, Screens, Carries, Goes DEF BeginOpen, TypeOK, Carrying, Signed, Reading, Walk, Plain, Tabs
  <2>2. TypeOK'
    BY <1>2, <2>1 DEF BeginOpen, TypeOK, Tx, Wallet
  <2>3. Coherent'
    BY <1>2, <2>1, Carries DEF BeginOpen, TypeOK, ApprovalBelongsToSession, DemoKeysStayInDemo, Coherent, Allowed, Carrying, Signed, Reading, Walk, Plain, Tabs, Wallet, Tx
  <2>4. SignedIsWhatWasApproved' /\ ApprovalBelongsToSession'
    BY <1>2, <2>1, Carries DEF BeginOpen, TypeOK, SignedIsWhatWasApproved, ApprovalBelongsToSession, DemoKeysStayInDemo, Coherent, Allowed, Carrying, Signed, Reading, Walk, Plain, Tabs, Wallet, Tx
  <2>5. DemoKeysStayInDemo'
    BY <1>2, <2>1 DEF BeginOpen, TypeOK, DemoKeysStayInDemo, Coherent, InOrder, Allowed, Carrying, Signed, Reading, Walk, Plain, Tabs
  <2>6. InOrder'
    BY <1>2, <2>1 DEF BeginOpen, TypeOK, InOrder, Allowed, Carrying, Signed, Reading, Walk, Plain, Tabs
  <2> QED BY <2>2, <2>3, <2>4, <2>5, <2>6
<1>3. ASSUME EngineOpens PROVE IInv'
  <2>1. route' \in Route
    BY <1>3, Screens, Carries, Goes DEF EngineOpens, Opens, TypeOK, Carrying, Signed, Reading, Walk, Plain, Tabs
  <2>2. TypeOK'
    BY <1>3, <2>1 DEF EngineOpens, Opens, TypeOK, Tx, Wallet
  <2>3. Coherent'
    BY <1>3, <2>1, Carries DEF EngineOpens, Opens, TypeOK, ApprovalBelongsToSession, DemoKeysStayInDemo, Coherent, Allowed, Carrying, Signed, Reading, Walk, Plain, Tabs, Wallet, Tx
  <2>4. SignedIsWhatWasApproved' /\ ApprovalBelongsToSession'
    BY <1>3, <2>1, Carries DEF EngineOpens, Opens, TypeOK, SignedIsWhatWasApproved, ApprovalBelongsToSession, DemoKeysStayInDemo, Coherent, Allowed, Carrying, Signed, Reading, Walk, Plain, Tabs, Wallet, Tx
  <2>5. DemoKeysStayInDemo'
    BY <1>3, <2>1 DEF EngineOpens, Opens, TypeOK, DemoKeysStayInDemo, Coherent, InOrder, Allowed, Carrying, Signed, Reading, Walk, Plain, Tabs
  <2>6. InOrder'
    BY <1>3, <2>1 DEF EngineOpens, Opens, TypeOK, InOrder, Allowed, Carrying, Signed, Reading, Walk, Plain, Tabs
  <2> QED BY <2>2, <2>3, <2>4, <2>5, <2>6
<1>4. ASSUME Opened PROVE IInv'
  <2>1. route' \in Route
    BY <1>4, Screens, Carries, Goes DEF Opened, Go, Move, Lock, At, TypeOK, Carrying, Signed, Reading, Walk, Plain, Tabs
  <2>2. TypeOK'
    BY <1>4, <2>1 DEF Opened, Go, Move, Lock, At, TypeOK, Tx, Wallet
  <2>3. Coherent'
    BY <1>4, <2>1, Carries DEF Opened, Go, Move, Lock, At, TypeOK, ApprovalBelongsToSession, DemoKeysStayInDemo, Coherent, Allowed, Carrying, Signed, Reading, Walk, Plain, Tabs, Wallet, Tx
  <2>4. SignedIsWhatWasApproved' /\ ApprovalBelongsToSession'
    BY <1>4, <2>1, Carries DEF Opened, Go, Move, Lock, At, TypeOK, SignedIsWhatWasApproved, ApprovalBelongsToSession, DemoKeysStayInDemo, Coherent, Allowed, Carrying, Signed, Reading, Walk, Plain, Tabs, Wallet, Tx
  <2>5. DemoKeysStayInDemo'
    BY <1>4, <2>1 DEF Opened, Go, Move, Lock, At, TypeOK, DemoKeysStayInDemo, Coherent, InOrder, Allowed, Carrying, Signed, Reading, Walk, Plain, Tabs
  <2>6. InOrder'
    BY <1>4, <2>1 DEF Opened, Go, Move, Lock, At, TypeOK, InOrder, Allowed, Carrying, Signed, Reading, Walk, Plain, Tabs
  <2> QED BY <2>2, <2>3, <2>4, <2>5, <2>6
<1>5. ASSUME BeginCreate PROVE IInv'
  <2>1. route' \in Route
    BY <1>5, Screens, Carries, Goes DEF BeginCreate, Move, At, TypeOK, Carrying, Signed, Reading, Walk, Plain, Tabs
  <2>2. TypeOK'
    BY <1>5, <2>1 DEF BeginCreate, Move, At, TypeOK, Tx, Wallet
  <2>3. Coherent'
    BY <1>5, <2>1, Carries DEF BeginCreate, Move, At, TypeOK, ApprovalBelongsToSession, DemoKeysStayInDemo, Coherent, Allowed, Carrying, Signed, Reading, Walk, Plain, Tabs, Wallet, Tx
  <2>4. SignedIsWhatWasApproved' /\ ApprovalBelongsToSession'
    BY <1>5, <2>1, Carries DEF BeginCreate, Move, At, TypeOK, SignedIsWhatWasApproved, ApprovalBelongsToSession, DemoKeysStayInDemo, Coherent, Allowed, Carrying, Signed, Reading, Walk, Plain, Tabs, Wallet, Tx
  <2>5. DemoKeysStayInDemo'
    BY <1>5, <2>1 DEF BeginCreate, Move, At, TypeOK, DemoKeysStayInDemo, Coherent, InOrder, Allowed, Carrying, Signed, Reading, Walk, Plain, Tabs
  <2>6. InOrder'
    BY <1>5, <2>1 DEF BeginCreate, Move, At, TypeOK, InOrder, Allowed, Carrying, Signed, Reading, Walk, Plain, Tabs
  <2> QED BY <2>2, <2>3, <2>4, <2>5, <2>6
<1>6. ASSUME EngineCreates PROVE IInv'
  <2>1. route' \in Route
    BY <1>6, Screens, Carries, Goes DEF EngineCreates, Opens, TypeOK, Carrying, Signed, Reading, Walk, Plain, Tabs
  <2>2. TypeOK'
    BY <1>6, <2>1 DEF EngineCreates, Opens, TypeOK, Tx, Wallet
  <2>3. Coherent'
    BY <1>6, <2>1, Carries DEF EngineCreates, Opens, TypeOK, ApprovalBelongsToSession, DemoKeysStayInDemo, Coherent, Allowed, Carrying, Signed, Reading, Walk, Plain, Tabs, Wallet, Tx
  <2>4. SignedIsWhatWasApproved' /\ ApprovalBelongsToSession'
    BY <1>6, <2>1, Carries DEF EngineCreates, Opens, TypeOK, SignedIsWhatWasApproved, ApprovalBelongsToSession, DemoKeysStayInDemo, Coherent, Allowed, Carrying, Signed, Reading, Walk, Plain, Tabs, Wallet, Tx
  <2>5. DemoKeysStayInDemo'
    BY <1>6, <2>1 DEF EngineCreates, Opens, TypeOK, DemoKeysStayInDemo, Coherent, InOrder, Allowed, Carrying, Signed, Reading, Walk, Plain, Tabs
  <2>6. InOrder'
    BY <1>6, <2>1 DEF EngineCreates, Opens, TypeOK, InOrder, Allowed, Carrying, Signed, Reading, Walk, Plain, Tabs
  <2> QED BY <2>2, <2>3, <2>4, <2>5, <2>6
<1>7. ASSUME FinishCreate PROVE IInv'
  <2>1. route' \in Route
    BY <1>7, Screens, Carries, Goes DEF FinishCreate, TypeOK, Carrying, Signed, Reading, Walk, Plain, Tabs
  <2>2. TypeOK'
    BY <1>7, <2>1 DEF FinishCreate, TypeOK, Tx, Wallet
  <2>3. Coherent'
    BY <1>7, <2>1, Carries DEF FinishCreate, TypeOK, ApprovalBelongsToSession, DemoKeysStayInDemo, Coherent, Allowed, Carrying, Signed, Reading, Walk, Plain, Tabs, Wallet, Tx
  <2>4. SignedIsWhatWasApproved' /\ ApprovalBelongsToSession'
    BY <1>7, <2>1, Carries DEF FinishCreate, TypeOK, SignedIsWhatWasApproved, ApprovalBelongsToSession, DemoKeysStayInDemo, Coherent, Allowed, Carrying, Signed, Reading, Walk, Plain, Tabs, Wallet, Tx
  <2>5. DemoKeysStayInDemo'
    BY <1>7, <2>1 DEF FinishCreate, TypeOK, DemoKeysStayInDemo, Coherent, InOrder, Allowed, Carrying, Signed, Reading, Walk, Plain, Tabs
  <2>6. InOrder'
    BY <1>7, <2>1 DEF FinishCreate, TypeOK, InOrder, Allowed, Carrying, Signed, Reading, Walk, Plain, Tabs
  <2> QED BY <2>2, <2>3, <2>4, <2>5, <2>6
<1>8. ASSUME TryAgain PROVE IInv'
  <2>1. route' \in Route
    BY <1>8, Screens, Carries, Goes DEF TryAgain, Move, At, TypeOK, Carrying, Signed, Reading, Walk, Plain, Tabs
  <2>2. TypeOK'
    BY <1>8, <2>1 DEF TryAgain, Move, At, TypeOK, Tx, Wallet
  <2>3. Coherent'
    BY <1>8, <2>1, Carries DEF TryAgain, Move, At, TypeOK, ApprovalBelongsToSession, DemoKeysStayInDemo, Coherent, Allowed, Carrying, Signed, Reading, Walk, Plain, Tabs, Wallet, Tx
  <2>4. SignedIsWhatWasApproved' /\ ApprovalBelongsToSession'
    BY <1>8, <2>1, Carries DEF TryAgain, Move, At, TypeOK, SignedIsWhatWasApproved, ApprovalBelongsToSession, DemoKeysStayInDemo, Coherent, Allowed, Carrying, Signed, Reading, Walk, Plain, Tabs, Wallet, Tx
  <2>5. DemoKeysStayInDemo'
    BY <1>8, <2>1 DEF TryAgain, Move, At, TypeOK, DemoKeysStayInDemo, Coherent, InOrder, Allowed, Carrying, Signed, Reading, Walk, Plain, Tabs
  <2>6. InOrder'
    BY <1>8, <2>1 DEF TryAgain, Move, At, TypeOK, InOrder, Allowed, Carrying, Signed, Reading, Walk, Plain, Tabs
  <2> QED BY <2>2, <2>3, <2>4, <2>5, <2>6
<1>9. ASSUME Advance PROVE IInv'
  <2>1. route' \in Route
    BY <1>9, Screens, Carries, Goes DEF Advance, TypeOK, Carrying, Signed, Reading, Walk, Plain, Tabs
  <2>2. TypeOK'
    BY <1>9, <2>1 DEF Advance, TypeOK, Tx, Wallet
  <2>3. Coherent'
    BY <1>9, <2>1, Carries DEF Advance, TypeOK, ApprovalBelongsToSession, DemoKeysStayInDemo, Coherent, Allowed, Carrying, Signed, Reading, Walk, Plain, Tabs, Wallet, Tx
  <2>4. SignedIsWhatWasApproved' /\ ApprovalBelongsToSession'
    BY <1>9, <2>1, Carries DEF Advance, TypeOK, SignedIsWhatWasApproved, ApprovalBelongsToSession, DemoKeysStayInDemo, Coherent, Allowed, Carrying, Signed, Reading, Walk, Plain, Tabs, Wallet, Tx
  <2>5. DemoKeysStayInDemo'
    BY <1>9, <2>1 DEF Advance, TypeOK, DemoKeysStayInDemo, Coherent, InOrder, Allowed, Carrying, Signed, Reading, Walk, Plain, Tabs
  <2>6. InOrder'
    BY <1>9, <2>1 DEF Advance, TypeOK, InOrder, Allowed, Carrying, Signed, Reading, Walk, Plain, Tabs
  <2> QED BY <2>2, <2>3, <2>4, <2>5, <2>6
<1>10. ASSUME FireCreated PROVE IInv'
  <2>1. route' \in Route
    BY <1>10, Screens, Carries, Goes DEF FireCreated, Move, At, TypeOK, Carrying, Signed, Reading, Walk, Plain, Tabs
  <2>2. TypeOK'
    BY <1>10, <2>1 DEF FireCreated, Move, At, TypeOK, Tx, Wallet
  <2>3. Coherent'
    BY <1>10, <2>1, Carries DEF FireCreated, Move, At, TypeOK, ApprovalBelongsToSession, DemoKeysStayInDemo, Coherent, Allowed, Carrying, Signed, Reading, Walk, Plain, Tabs, Wallet, Tx
  <2>4. SignedIsWhatWasApproved' /\ ApprovalBelongsToSession'
    BY <1>10, <2>1, Carries DEF FireCreated, Move, At, TypeOK, SignedIsWhatWasApproved, ApprovalBelongsToSession, DemoKeysStayInDemo, Coherent, Allowed, Carrying, Signed, Reading, Walk, Plain, Tabs, Wallet, Tx
  <2>5. DemoKeysStayInDemo'
    BY <1>10, <2>1 DEF FireCreated, Move, At, TypeOK, DemoKeysStayInDemo, Coherent, InOrder, Allowed, Carrying, Signed, Reading, Walk, Plain, Tabs
  <2>6. InOrder'
    BY <1>10, <2>1 DEF FireCreated, Move, At, TypeOK, InOrder, Allowed, Carrying, Signed, Reading, Walk, Plain, Tabs
  <2> QED BY <2>2, <2>3, <2>4, <2>5, <2>6
<1>11. ASSUME EraseVault PROVE IInv'
  <2>1. route' \in Route
    BY <1>11, Screens, Carries, Goes DEF EraseVault, Move, Lock, At, TypeOK, Carrying, Signed, Reading, Walk, Plain, Tabs
  <2>2. TypeOK'
    BY <1>11, <2>1 DEF EraseVault, Move, Lock, At, TypeOK, Tx, Wallet
  <2>3. Coherent'
    BY <1>11, <2>1, Carries DEF EraseVault, Move, Lock, At, TypeOK, ApprovalBelongsToSession, DemoKeysStayInDemo, Coherent, Allowed, Carrying, Signed, Reading, Walk, Plain, Tabs, Wallet, Tx
  <2>4. SignedIsWhatWasApproved' /\ ApprovalBelongsToSession'
    BY <1>11, <2>1, Carries DEF EraseVault, Move, Lock, At, TypeOK, SignedIsWhatWasApproved, ApprovalBelongsToSession, DemoKeysStayInDemo, Coherent, Allowed, Carrying, Signed, Reading, Walk, Plain, Tabs, Wallet, Tx
  <2>5. DemoKeysStayInDemo'
    BY <1>11, <2>1 DEF EraseVault, Move, Lock, At, TypeOK, DemoKeysStayInDemo, Coherent, InOrder, Allowed, Carrying, Signed, Reading, Walk, Plain, Tabs
  <2>6. InOrder'
    BY <1>11, <2>1 DEF EraseVault, Move, Lock, At, TypeOK, InOrder, Allowed, Carrying, Signed, Reading, Walk, Plain, Tabs
  <2> QED BY <2>2, <2>3, <2>4, <2>5, <2>6
<1> QED BY <1>1, <1>2, <1>3, <1>4, <1>5, <1>6, <1>7, <1>8, <1>9, <1>10, <1>11 DEF Keys

(* So does leaving and coming back. *)
LEMMA AwayKeeps == ASSUME IInv, Away PROVE IInv'
<1> USE DEF IInv, engine, work
<1>1. ASSUME Sleep PROVE IInv'
  <2>1. route' \in Route
    BY <1>1, Screens, Carries, Goes DEF Sleep, Lock, At, TypeOK, Carrying, Signed, Reading, Walk, Plain, Tabs
  <2>2. TypeOK'
    BY <1>1, <2>1 DEF Sleep, Lock, At, TypeOK, Tx, Wallet
  <2>3. Coherent'
    BY <1>1, <2>1, Carries DEF Sleep, Lock, At, TypeOK, ApprovalBelongsToSession, DemoKeysStayInDemo, Coherent, Allowed, Carrying, Signed, Reading, Walk, Plain, Tabs, Wallet, Tx
  <2>4. SignedIsWhatWasApproved' /\ ApprovalBelongsToSession'
    BY <1>1, <2>1, Carries DEF Sleep, Lock, At, TypeOK, SignedIsWhatWasApproved, ApprovalBelongsToSession, DemoKeysStayInDemo, Coherent, Allowed, Carrying, Signed, Reading, Walk, Plain, Tabs, Wallet, Tx
  <2>5. DemoKeysStayInDemo'
    BY <1>1, <2>1 DEF Sleep, Lock, At, TypeOK, DemoKeysStayInDemo, Coherent, InOrder, Allowed, Carrying, Signed, Reading, Walk, Plain, Tabs
  <2>6. InOrder'
    BY <1>1, <2>1 DEF Sleep, Lock, At, TypeOK, InOrder, Allowed, Carrying, Signed, Reading, Walk, Plain, Tabs
  <2> QED BY <2>2, <2>3, <2>4, <2>5, <2>6
<1>2. ASSUME Wake PROVE IInv'
  <2>1. route' \in Route
    BY <1>2, Screens, Carries, Goes DEF Wake, TypeOK, Carrying, Signed, Reading, Walk, Plain, Tabs
  <2>2. TypeOK'
    BY <1>2, <2>1 DEF Wake, TypeOK, Tx, Wallet
  <2>3. Coherent'
    BY <1>2, <2>1, Carries DEF Wake, TypeOK, ApprovalBelongsToSession, DemoKeysStayInDemo, Coherent, Allowed, Carrying, Signed, Reading, Walk, Plain, Tabs, Wallet, Tx
  <2>4. SignedIsWhatWasApproved' /\ ApprovalBelongsToSession'
    BY <1>2, <2>1, Carries DEF Wake, TypeOK, SignedIsWhatWasApproved, ApprovalBelongsToSession, DemoKeysStayInDemo, Coherent, Allowed, Carrying, Signed, Reading, Walk, Plain, Tabs, Wallet, Tx
  <2>5. DemoKeysStayInDemo'
    BY <1>2, <2>1 DEF Wake, TypeOK, DemoKeysStayInDemo, Coherent, InOrder, Allowed, Carrying, Signed, Reading, Walk, Plain, Tabs
  <2>6. InOrder'
    BY <1>2, <2>1 DEF Wake, TypeOK, InOrder, Allowed, Carrying, Signed, Reading, Walk, Plain, Tabs
  <2> QED BY <2>2, <2>3, <2>4, <2>5, <2>6
<1> QED BY <1>1, <1>2 DEF Away

(* The invariant holds of every run of the vault. *)
THEOREM Invariance == Spec => []IInv
<1>1. Init => IInv
  <2> SUFFICES ASSUME Init PROVE IInv
    OBVIOUS
  <2>1. TypeOK
    BY Screens DEF Init, TypeOK, Plain, Tabs
  <2>2. route.at = "launch"
    BY DEF Init, At
  <2> QED BY <2>1, <2>2 DEF Init, IInv, SignedIsWhatWasApproved, ApprovalBelongsToSession,
             DemoKeysStayInDemo, Coherent, InOrder, Carrying, Signed
<1>2. IInv /\ [Next]_vars => IInv'
  <2> SUFFICES ASSUME IInv, [Next]_vars PROVE IInv'
    OBVIOUS
  <2>1. CASE Next
    BY <2>1, MovingKeeps, ScanningKeeps, SigningKeeps, KeysKeeps, AwayKeeps DEF Next
  <2>2. CASE UNCHANGED vars
    BY <2>2 DEF vars, IInv, TypeOK, SignedIsWhatWasApproved, ApprovalBelongsToSession,
       DemoKeysStayInDemo, Coherent, InOrder
  <2> QED BY <2>1, <2>2
<1> QED BY <1>1, <1>2, PTL DEF Spec

(* Every variable keeps its type. *)
THEOREM Typing == Spec => []TypeOK
<1>1. IInv => TypeOK
  BY DEF IInv
<1> QED BY Invariance, <1>1, PTL

(* What the vault signs is what was on the screen, with the keys the       *)
(* screen's description was made with: Vault.completeSigning, host.sign.   *)
THEOREM ScreenIsWhatIsSigned == Spec => []SignedIsWhatWasApproved
BY Invariance, PTL DEF IInv

(* No approval outlives its session: host.lockInternal. *)
THEOREM ApprovalsDieWithTheSession == Spec => []ApprovalBelongsToSession
BY Invariance, PTL DEF IInv

(* The demonstration's keys are open only while it is walked: Vault.go. *)
THEOREM DemoIsContained == Spec => []DemoKeysStayInDemo
BY Invariance, PTL DEF IInv

(* A refusal leads to the scanner, home or the passphrase screen, and      *)
(* nowhere else, whatever arrives while it is shown: Flow.allowed.         *)
THEOREM RefusalEnds == Spec => RefusalIsDeadEnd
<1>1. ASSUME [Next]_vars, route.at = "refused"
      PROVE route'.at \in {"refused", "scanner", "home", "unlock"}
  <2>1. ASSUME NEW r, Move(r) PROVE route'.at \in {"refused", "scanner", "home"}
    BY <1>1, <2>1 DEF Move, Allowed
  <2>2. ASSUME NEW r, Go(r) PROVE route'.at \in {"refused", "scanner", "home", "unlock"}
    BY <1>1, <2>1, <2>2 DEF Go, At
  <2>3. CASE Moving
    BY <1>1, <2>1, <2>2, <2>3 DEF Moving, Press, PressOnward, Verified, ScanAgain
  <2>4. CASE Scanning
    <3>1. ASSUME NEW p \in Payload, Offer(p) PROVE route'.at \in {"refused", "scanner", "home"}
      BY <2>1, <3>1 DEF Offer, OfferPsbt, OfferMonero, OfferToRead
    <3> QED BY <1>1, <2>1, <2>4, <3>1 DEF Scanning, BeginDemo, Recognised, FireAcquiring, Acquiring,
               Allowed, LensCloses, NamedRefusal
  <2>5. CASE Signing
    BY <1>1, <2>5 DEF Signing, CompleteSigning, CompleteMoneroSigning
  <2>6. CASE Keys
    BY <1>1, <2>1, <2>2, <2>6 DEF Keys, Proceed, BeginOpen, EngineOpens, Opened, BeginCreate,
       EngineCreates, FinishCreate, TryAgain, Advance, FireCreated, EraseVault
  <2>7. CASE Away
    BY <1>1, <2>7 DEF Away, Sleep, Wake, At
  <2>8. CASE UNCHANGED vars
    BY <1>1, <2>8 DEF vars
  <2> QED BY <1>1, <2>3, <2>4, <2>5, <2>6, <2>7, <2>8 DEF Next
<1> QED BY <1>1, PTL DEF Spec, RefusalIsDeadEnd

(* Vault.lock, sleep: whatever derivation, delayed call or camera was in   *)
(* the air when the app was left, there is no approval behind the lock, no *)
(* bytes to sign and no demonstration, until the app is back...            *)
THEOREM BehindTheLock == Spec => []NothingToSignWhileAway
<1>1. Init => NothingToSignWhileAway
  BY DEF Init, NothingToSignWhileAway
<1>2. NothingToSignWhileAway /\ [Next]_vars => NothingToSignWhileAway'
  <2> SUFFICES ASSUME NothingToSignWhileAway, [Next]_vars PROVE NothingToSignWhileAway'
    OBVIOUS
  <2> USE DEF NothingToSignWhileAway, engine, work
  <2>1. CASE Moving
    BY <2>1 DEF Moving, Press, PressOnward, Verified, ScanAgain
  <2>2. CASE Scanning
    <3>1. ASSUME NEW p \in Payload, Offer(p) PROVE NothingToSignWhileAway'
      <4>1. awake /\ awake' = awake
        BY <3>1 DEF Offer
      <4> QED BY <4>1
    <3>2. CASE FireAcquiring
      <4>1. CASE awake
        BY <3>2, <4>1 DEF FireAcquiring
      <4>2. CASE ~awake
        <5>1. UNCHANGED <<session, described, moneroSet, feed, pending, demo>>
          BY <3>2, <4>2 DEF FireAcquiring, Acquiring
        <5> QED BY <4>2, <5>1
      <4> QED BY <4>1, <4>2
    <3>3. CASE BeginDemo \/ Recognised \/ NamedRefusal
      <4>1. awake /\ awake' = awake
        BY <3>3 DEF BeginDemo, Recognised, NamedRefusal
      <4> QED BY <4>1
    <3>4. CASE LensCloses
      BY <3>4 DEF LensCloses
    <3> QED BY <2>2, <3>1, <3>2, <3>3, <3>4 DEF Scanning
  <2>3. CASE Signing
    BY <2>3 DEF Signing, CompleteSigning, CompleteMoneroSigning
  <2>4. CASE Keys
    <3>1. CASE EngineOpens \/ EngineCreates
      BY <3>1 DEF EngineOpens, EngineCreates, Opens
    <3>2. CASE Opened
      BY <3>2 DEF Opened, Go, Lock
    <3> QED BY <2>4, <3>1, <3>2 DEF Keys, Proceed, BeginOpen, BeginCreate, FinishCreate, TryAgain,
                                    Advance, FireCreated, EraseVault
  <2>5. CASE Away
    BY <2>5 DEF Away, Sleep, Wake, Lock
  <2>6. CASE UNCHANGED vars
    BY <2>6 DEF vars
  <2> QED BY <2>1, <2>2, <2>3, <2>4, <2>5, <2>6 DEF Next
<1> QED BY <1>1, <1>2, PTL DEF Spec

(* ...and the race that LockWins loses is the only one there is: behind    *)
(* the lock keys are opened by a derivation that was already under way.    *)
THEOREM OnlyTheRaceWarms == Spec => OnlyADerivationWarms
<1> DEFINE Warms == ~awake =>
      /\ session' # session => session' = "vault" /\ "deriving" \in {opening, creating}
      /\ opening' = "deriving" => opening = "deriving"
      /\ creating' = "deriving" => creating = "deriving"
<1>1. NothingToSignWhileAway /\ [Next]_vars => [Warms]_vars
  <2> SUFFICES ASSUME NothingToSignWhileAway, Next, ~awake PROVE Warms
    OBVIOUS
  <2> USE DEF NothingToSignWhileAway, engine, work
  <2>1. CASE Moving \/ Signing \/ Away
    BY <2>1 DEF Moving, Press, PressOnward, Verified, ScanAgain, Signing, CompleteSigning,
                CompleteMoneroSigning, Away, Sleep, Wake
  <2>2. CASE Scanning
    <3>1. ASSUME NEW p \in Payload PROVE ~ Offer(p)
      BY DEF Offer
    <3>2. CASE FireAcquiring
      BY <3>2 DEF FireAcquiring, Acquiring
    <3> QED BY <2>2, <3>1, <3>2 DEF Scanning, BeginDemo, Recognised, LensCloses, NamedRefusal
  <2>3. CASE Keys
    <3>1. CASE EngineOpens \/ EngineCreates
      BY <3>1 DEF EngineOpens, EngineCreates, Opens
    <3>2. CASE Opened
      BY <3>2 DEF Opened, Go
    <3> QED BY <2>3, <3>1, <3>2 DEF Keys, Proceed, BeginOpen, BeginCreate, FinishCreate, TryAgain,
                                    Advance, FireCreated, EraseVault
  <2> QED BY <2>1, <2>2, <2>3 DEF Next
<1> QED BY <1>1, BehindTheLock, PTL DEF Spec, OnlyADerivationWarms

(* A change of keys under a screen that stays. *)
LEMMA StandingKeeps ==
  ASSUME IInv, UNCHANGED route, session' \in {session, "none", "vault"}
  PROVE  [Screen!Change]_(Screen!state)
<1>1. session \in Wallet \cup {"none"}
  BY DEF IInv, TypeOK
<1> QED BY <1>1 DEF Screen!Rekey, Screen!Change, Screen!state, Wallet

(* A move to a screen that is about nothing. *)
LEMMA LeavingKeeps ==
  ASSUME NEW to \in Plain, route' = At(to), session' \in {session, "none"}
  PROVE  [Screen!Change]_(Screen!state)
<1>1. Stage(to) \in {"away", "refused"}
  BY DEF Stage, Plain, Tabs, Signed
<1> QED BY <1>1 DEF At, Screen!Leave, Screen!Change, Screen!state

(* What the levers and the delayed moves do with a screen. *)
LEMMA MovesKeep ==
  ASSUME IInv, NEW to \in Plain,
         \/ Move(At(to)) /\ session' \in {session, "none"}
         \/ Go(At(to))
  PROVE  [Screen!Change]_(Screen!state)
<1>1. CASE UNCHANGED route /\ session' \in {session, "none"}
  BY <1>1, StandingKeeps
<1>2. ASSUME NEW p \in Plain, route' = At(p), session' \in {session, "none"}
      PROVE  [Screen!Change]_(Screen!state)
  BY <1>2, LeavingKeeps
<1>3. \/ UNCHANGED route /\ session' \in {session, "none"}
      \/ \E p \in Plain : route' = At(p) /\ session' \in {session, "none"}
  <2>1. "unlock" \in Plain
    BY DEF Plain
  <2> QED BY <2>1 DEF Move, Go, Lock, engine
<1> QED BY <1>1, <1>2, <1>3

(* A camera or a demonstration that starts. *)
LEMMA AcquiringKeeps ==
  ASSUME IInv, NEW walking \in BOOLEAN, Acquiring(walking)
  PROVE  [Screen!Change]_(Screen!state)
<1>1. "acquiring" \in Plain /\ "refused" \in Plain
  BY DEF Plain
<1>2. CASE route.at = "acquiring" \/ ~Allowed(route.at, "acquiring")
  BY <1>2, StandingKeeps DEF Acquiring, engine
<1>3. CASE route.at # "acquiring" /\ Allowed(route.at, "acquiring") /\ ~walking
  BY <1>1, <1>3, LeavingKeeps DEF Acquiring, engine
<1>4. CASE route.at # "acquiring" /\ Allowed(route.at, "acquiring") /\ walking
  <2>1. route.at # "refused" /\ Stage(route.at) # "refused"
    BY <1>4 DEF Allowed, Stage, Signed
  <2>2. CASE route' = At("acquiring") /\ session' = "demo"
    <3>1. Stage(route'.at) = "away" /\ route'.tx = None /\ route'.result = None
      BY <2>2 DEF At, Stage, Signed
    <3> QED BY <2>1, <2>2, <3>1 DEF Screen!Rehearse, Screen!Change, Screen!state
  <2>3. CASE route' = At("refused") /\ session' = "none"
    BY <1>1, <2>3, LeavingKeeps
  <2> QED BY <1>4, <2>2, <2>3 DEF Acquiring
<1> QED BY <1>2, <1>3, <1>4

(* Each group of actions keeps the promise. *)
LEMMA MovingKeepsTheApproval ==
  ASSUME IInv, Moving PROVE [Screen!Change]_(Screen!state)
<1>1. {"scanner", "airgap", "setup"} \subseteq Plain
  BY DEF Plain, Tabs
<1>2. CASE Press
  <2>1. PICK lever \in Levers : lever[1] = route.at /\ Go(At(lever[2]))
    BY <1>2 DEF Press
  <2> QED BY <2>1, Leads, MovesKeep
<1>3. CASE PressOnward
  <2>1. PICK lever \in Onward : lever[1] = route.at /\ Move([route EXCEPT !.at = lever[2]])
    BY <1>3 DEF PressOnward
  <2>2. session' = session
    BY <1>3 DEF PressOnward, engine
  <2>3. route \in Route
    BY DEF IInv, TypeOK
  <2>4. CASE UNCHANGED route
    BY <2>2, <2>4, StandingKeeps
  <2>5. CASE route' = [route EXCEPT !.at = lever[2]]
    <3>1. route'.at = lever[2] /\ route'.tx = route.tx /\ route'.result = route.result
      BY <2>3, <2>5 DEF Route
    <3>2. \/ Stage(lever[1]) = Stage(lever[2])
          \/ Stage(lever[1]) = "reading" /\ Stage(lever[2]) = "asked"
      BY DEF Onward, Stage, Signed
    <3> QED BY <2>1, <2>2, <3>1, <3>2 DEF Screen!Ask, Screen!Change, Screen!state
  <2> QED BY <2>1, <2>4, <2>5 DEF Move
<1>4. CASE Verified
  BY <1>1, <1>4, MovesKeep DEF Verified, engine
<1>5. CASE ScanAgain
  BY <1>1, <1>5, MovesKeep DEF ScanAgain, engine
<1> QED BY <1>2, <1>3, <1>4, <1>5 DEF Moving

(* A transaction comes on the screen with the keys that are open. *)
LEMMA ReviewKeeps ==
  ASSUME IInv, NEW p \in Payload, session # "none", Move(About("review", Read(p))),
         session' = session
  PROVE  [Screen!Change]_(Screen!state)
<1>1. CASE UNCHANGED route
  BY <1>1, StandingKeeps
<1>2. CASE Allowed(route.at, "review") /\ route' = About("review", Read(p))
  <2>1. Stage(route.at) \in {"away", "reading"}
    BY <1>2 DEF Allowed, Stage, Signed, Reading
  <2>2. Read(p) \in Tx /\ Read(p).keys = session
    BY DEF Read, Tx, IInv, TypeOK
  <2>3. Stage(route'.at) = "reading" /\ route'.tx = Read(p) /\ route'.result = None
    <3>1. route'.at = "review" /\ route'.tx = Read(p) /\ route'.result = None
      BY <1>2 DEF About
    <3> QED BY <3>1 DEF Stage, Signed
  <2> QED BY <2>1, <2>2, <2>3 DEF Screen!Show, Screen!Change, Screen!state
<1> QED BY <1>1, <1>2 DEF Move, About

LEMMA ScanningKeepsTheApproval ==
  ASSUME IInv, Scanning PROVE [Screen!Change]_(Screen!state)
<1>1. {"refused", "keyImages", "xmrFile"} \subseteq Plain
  BY DEF Plain
<1>2. ASSUME NEW p \in Payload, Offer(p) PROVE [Screen!Change]_(Screen!state)
  <2>1. session' = session
    BY <1>2 DEF Offer, OfferPsbt, OfferMonero, OfferToRead, engine
  <2>2. \/ session # "none" /\ Move(About("review", Read(p)))
        \/ \E to \in {"refused", "keyImages", "xmrFile"} : Move(At(to))
    BY <1>2 DEF Offer, OfferPsbt, OfferMonero, OfferToRead
  <2> QED BY <1>1, <2>1, <2>2, ReviewKeeps, MovesKeep
<1>3. CASE BeginDemo \/ FireAcquiring
  <2>1. demo \in BOOLEAN
    BY DEF IInv, TypeOK
  <2> QED BY <1>3, <2>1, AcquiringKeeps DEF BeginDemo, FireAcquiring
<1>4. CASE Recognised \/ LensCloses
  BY <1>4, StandingKeeps DEF Recognised, LensCloses, engine
<1>5. CASE NamedRefusal
  BY <1>1, <1>5, MovesKeep DEF NamedRefusal, engine
<1> QED BY <1>2, <1>3, <1>4, <1>5 DEF Scanning

LEMMA SigningKeepsTheApproval ==
  ASSUME IInv, Signing PROVE [Screen!Change]_(Screen!state)
<1>1. "refused" \in Plain /\ session' = session /\ route.at = "approve"
  BY DEF Plain, Signing, CompleteSigning, CompleteMoneroSigning, engine
<1>2. CASE Move(At("refused"))
  BY <1>1, <1>2, MovesKeep
<1>3. ASSUME NEW p \in Payload, p = route.tx.payload,
             Move([at |-> "signed", tx |-> route.tx, result |-> [payload |-> p, keys |-> session]]),
             described # None \/ moneroSet # None
      PROVE  [Screen!Change]_(Screen!state)
  <2>1. route.tx \in Tx /\ route.tx.keys = session
    BY <1>1, <1>3, Carries DEF IInv, TypeOK, Coherent, Carrying
  <2>2. route.tx = [payload |-> p, keys |-> session]
    BY <1>3, <2>1 DEF Tx
  <2>3. route' = [at |-> "signed", tx |-> route.tx, result |-> route.tx]
    BY <1>1, <1>3, <2>2 DEF Move, Allowed
  <2>4. Stage(route.at) = "asked" /\ Stage(route'.at) = "signed"
    BY <1>1, <2>3 DEF Stage, Signed
  <2> QED BY <1>1, <2>1, <2>3, <2>4 DEF Screen!Sign, Screen!Change, Screen!state
<1>4. CASE CompleteSigning
  BY <1>2, <1>3, <1>4 DEF CompleteSigning, Signs, IInv, TypeOK
<1>5. CASE CompleteMoneroSigning
  <2>1. moneroSet # None => moneroSet.payload \in Payload
    BY DEF IInv, TypeOK, Tx
  <2> QED BY <1>2, <1>3, <1>5, <2>1 DEF CompleteMoneroSigning
<1> QED BY <1>4, <1>5 DEF Signing

LEMMA KeysKeepTheApproval ==
  ASSUME IInv, Keys PROVE [Screen!Change]_(Screen!state)
<1>1. {"unlock", "setup", "home", "entropy", "created"} \subseteq Plain
  BY DEF Plain, Tabs
<1>2. CASE Proceed \/ BeginCreate \/ TryAgain \/ FireCreated \/ EraseVault
  BY <1>1, <1>2, MovesKeep DEF Proceed, BeginCreate, TryAgain, FireCreated, EraseVault, Lock, engine
<1>3. CASE Opened
  BY <1>1, <1>3, MovesKeep DEF Opened
<1>4. CASE BeginOpen \/ EngineOpens \/ EngineCreates \/ FinishCreate \/ Advance
  BY <1>4, StandingKeeps DEF BeginOpen, EngineOpens, EngineCreates, FinishCreate, Advance, Opens, engine
<1> QED BY <1>2, <1>3, <1>4 DEF Keys

LEMMA AwayKeepsTheApproval ==
  ASSUME IInv, Away PROVE [Screen!Change]_(Screen!state)
<1>1. "unlock" \in Plain
  BY DEF Plain
<1>2. CASE Sleep
  BY <1>1, <1>2, LeavingKeeps, StandingKeeps DEF Sleep, Lock
<1>3. CASE Wake
  BY <1>3, StandingKeeps DEF Wake, engine
<1> QED BY <1>2, <1>3 DEF Away

(* offer, completeSigning, signPsbt, moneroSign: whatever the camera, a    *)
(* delayed call or a derivation does behind a screen, the vault keeps the  *)
(* promise of Approval.                                                    *)
THEOREM Refinement == Spec => KeepsTheApproval
<1>1. Init => Screen!Begin
  BY DEF Init, At, Stage, Signed, Screen!Begin
<1>2. IInv /\ [Next]_vars => [Screen!Change]_(Screen!state)
  <2> SUFFICES ASSUME IInv, [Next]_vars PROVE [Screen!Change]_(Screen!state)
    OBVIOUS
  <2>1. CASE UNCHANGED vars
    BY <2>1, StandingKeeps DEF vars
  <2> QED BY <2>1, MovingKeepsTheApproval, ScanningKeepsTheApproval, SigningKeepsTheApproval,
             KeysKeepTheApproval, AwayKeepsTheApproval DEF Next
<1> QED BY Invariance, <1>1, <1>2, PTL DEF Spec, KeepsTheApproval, Screen!Promise
=============================================================================
