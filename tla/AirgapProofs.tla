---------------------------- MODULE AirgapProofs ----------------------------
(***************************************************************************)
(* What TLAPS checks about Airgap for any payloads and any numbers of      *)
(* frames.                                                                 *)
(***************************************************************************)
EXTENDS Airgap, FiniteSetTheorems, TLAPS

USE AirgapAssumption DEF Payload

(* Subtracting a piece of a message from a larger one leaves a piece of it *)
(* that holds what it says, if both did.                                   *)
LEMMA ReduceIsTrue ==
  ASSUME NEW p, NEW a, NEW b,
         a.fragment = Content(p, a.indexes), b.fragment = Content(p, b.indexes)
  PROVE  Reduce(a, b).fragment = Content(p, Reduce(a, b).indexes)
<1>1. CASE b.indexes = {} \/ ~ (b.indexes \subseteq a.indexes)
  BY <1>1 DEF Reduce
<1>2. CASE a.indexes = b.indexes
  BY <1>2 DEF Reduce, Piece, Content
<1>3. CASE b.indexes \subseteq a.indexes /\ a.indexes # b.indexes /\ b.indexes # {}
  <2>1. XorInto(Content(p, a.indexes), Content(p, b.indexes)) = Content(p, a.indexes \ b.indexes)
    BY <1>3 DEF XorInto, Content
  <2> QED BY <2>1, <1>3 DEF Reduce, Piece
<1> QED BY <1>1, <1>2, <1>3

(* It is made of fragments of that message, and never grows.               *)
LEMMA ReduceIsPiecework ==
  ASSUME NEW p \in Payload, NEW a \in Piecework(p), NEW b \in Piecework(p)
  PROVE  /\ Reduce(a, b) \in Piecework(p)
         /\ Reduce(a, b).indexes \subseteq a.indexes
BY DEF Reduce, Piece, Piecework, XorInto

(* What is subtracted by a single piece no longer holds its fragment.      *)
LEMMA ReduceBySingle ==
  ASSUME NEW a, NEW b, IsSingle(b)
  PROVE  b.indexes \cap Reduce(a, b).indexes = {}
BY DEF Reduce, Piece, IsSingle

-----------------------------------------------------------------------------
LEMMA InitIsGood == Init => IInv
<1> SUFFICES ASSUME Init PROVE IInv
  OBVIOUS
<1>1. TypeOK
  <2>1. parts \in [{} -> {<<held, i>> : i \in {0}}]
    BY DEF Init, Nothing
  <2>2. \E D \in SUBSET (1 .. total) : parts \in [D -> {<<held, i>> : i \in D \cup {0}}]
    <3>1. {} \in SUBSET (1 .. total) /\ {} \cup {0} = {0}
      OBVIOUS
    <3> QED BY <2>1, <3>1
  <2>3. Everything = {}
    BY DEF Init, Everything
  <2> QED BY <2>2, <2>3 DEF Init, TypeOK, OwnOK, UrOK
<1>2. PiecesAreTrue /\ NothingLeftToPeel /\ LoopInv
  BY DEF Init, PiecesAreTrue, NothingLeftToPeel, LoopInv, Everything, Known
<1> QED BY <1>1, <1>2 DEF IInv

-----------------------------------------------------------------------------
(* The LV1 collector: one offer leaves it with bodies of one payload.      *)
LEMMA OfferPartKeeps ==
  ASSUME IInv, NEW p \in Own, NEW t \in Totals(p), NEW i \in Indexes(p),
         NEW b \in Bodies(p, i), OfferPart(p, i, t, b)
  PROVE  IInv'
<1> DEFINE same == held = p
           n == IF same THEN total ELSE t
           kept == IF same THEN parts ELSE Nothing
           now == With(kept, i, b)
<1>1. n \in Nat /\ i \in 1 .. t /\ t \in Nat
  BY DEF Totals, Indexes, OfferPart, IInv, TypeOK, OwnOK
<1>2. PICK D \in SUBSET (1 .. n) : kept \in [D -> {<<p, j>> : j \in D \cup {0}}]
  <2>1. CASE same
    BY <2>1 DEF IInv, TypeOK, OwnOK
  <2>2. CASE ~ same
    <3>1. kept = Nothing /\ {} \in SUBSET (1 .. n)
      BY <2>2
    <3>2. Nothing \in [{} -> {<<p, j>> : j \in {} \cup {0}}]
      BY DEF Nothing
    <3> QED BY <3>1, <3>2
  <2> QED BY <2>1, <2>2
<1>3. ASSUME t = n, b # Unreadable
      PROVE  /\ D \cup {i} \in SUBSET (1 .. n)
             /\ now \in [D \cup {i} -> {<<p, j>> : j \in (D \cup {i}) \cup {0}}]
  <2>1. b \in {<<p, j>> : j \in (D \cup {i}) \cup {0}}
    BY <1>3 DEF Bodies, Unreadable
  <2>2. now = [j \in D \cup {i} |-> IF j = i THEN b ELSE kept[j]]
    BY <1>2 DEF With
  <2> QED BY <1>1, <1>2, <1>3, <2>1, <2>2
<1>4. OwnOK' /\ out' \in Payload \cup {None}
  <2>1. CASE ~ (t = n /\ b # Unreadable) /\ Hold(p, n, kept) /\ out' = None
    BY <2>1, <1>1, <1>2 DEF Hold, OwnOK
  <2>2. CASE t = n /\ b # Unreadable /\ Hold(p, n, now) /\ out' \in {p, None}
    BY <2>2, <1>1, <1>3 DEF Hold, OwnOK
  <2>3. CASE Drop /\ out' = None
    <3>1. Nothing \in [{} -> {<<None, j>> : j \in {} \cup {0}}] /\ {} \in SUBSET (1 .. 0)
      BY DEF Nothing
    <3> QED BY <2>3, <3>1 DEF Drop, OwnOK
  <2> QED BY <2>1, <2>2, <2>3 DEF OfferPart
<1>5. UNCHANGED <<ur, settled>> /\ ~ busy
  BY DEF OfferPart
<1>6. Everything' = Everything /\ Known' = Known
  BY <1>5 DEF ur, pool, Everything, Known
<1>7. UrOK'
  BY <1>5, <1>6 DEF IInv, TypeOK, UrOK, ur, Piecework
<1>8. PiecesAreTrue' /\ NothingLeftToPeel' /\ LoopInv'
  BY <1>5, <1>6 DEF IInv, PiecesAreTrue, NothingLeftToPeel, LoopInv, ur, pool, Indexes
<1> QED BY <1>4, <1>5, <1>7, <1>8 DEF IInv, TypeOK

-----------------------------------------------------------------------------
(* The fountain collector. *)
LEMMA OfferWholeKeeps ==
  ASSUME IInv, NEW p \in Ur, OfferWhole(p) PROVE IInv'
<1>1. hand' = None /\ todo' = {} /\ Everything' = {}
  BY DEF IInv, LoopInv, OfferWhole, Everything
<1>2. TypeOK'
  <2>1. UNCHANGED <<own, busy, settled>> /\ msg' = p /\ done' = p /\ garbled' = FALSE /\ out' \in {p, None}
    BY DEF OfferWhole, Unwrap
  <2>2. p # None
    OBVIOUS
  <2>3. OwnOK'
    BY <2>1 DEF IInv, TypeOK, OwnOK, own
  <2>4. UrOK'
    BY <1>1, <2>1, <2>2 DEF IInv, TypeOK, UrOK
  <2> QED BY <2>1, <2>3, <2>4 DEF IInv, TypeOK
<1>3. PiecesAreTrue' /\ NothingLeftToPeel' /\ LoopInv'
  BY <1>1 DEF OfferWhole, PiecesAreTrue, NothingLeftToPeel, LoopInv, IInv, Known, Everything
<1> QED BY <1>2, <1>3 DEF IInv

LEMMA OfferFrameKeeps ==
  ASSUME IInv, NEW p \in Ur, NEW S \in (SUBSET Indexes(p)) \ {{}}, NEW bad \in BOOLEAN,
         OfferFrame(p, S, bad)
  PROVE  IInv'
<1> DEFINE same == msg = p
           x == Piece(S, Content(p, S) \cup IF bad THEN {<<p, 0>>} ELSE {})
<1>1. hand = None /\ todo = {} /\ ~ busy
  BY DEF IInv, LoopInv, OfferFrame
<1>2. CASE same /\ done # None
  BY <1>2, <1>1 DEF OfferFrame, IInv, TypeOK, OwnOK, UrOK, own, ur, pool, Unwrap,
     PiecesAreTrue, NothingLeftToPeel, LoopInv, Everything, Known, Piecework
<1>3. CASE ~ (same /\ done # None)
  <2>1. /\ msg' = p /\ done' = None /\ busy' = TRUE /\ hand' = None /\ todo' = {}
        /\ simple' = IF same THEN simple ELSE {}
        /\ mixed' = IF same THEN mixed ELSE {}
        /\ queue' = {x} /\ garbled' = (bad \/ (same /\ garbled))
        /\ out' = None /\ UNCHANGED <<own, settled>>
    BY <1>3, <1>1 DEF OfferFrame
  <2>0. Total[p] # 1
    BY DEF OfferFrame
  <2>2. x \in Piecework(p)
    BY DEF Piecework, Piece, Content, Indexes
  <2>3. Everything' = simple' \cup mixed' \cup {x} /\ Everything' \subseteq Everything \cup {x}
    BY <2>1 DEF Everything
  <2>4. TypeOK'
    <3>1. same => Everything \subseteq Piecework(p)
      BY DEF IInv, TypeOK, UrOK
    <3>2. Everything' \subseteq Piecework(p)
      BY <2>1, <2>2, <2>3, <3>1
    <3>3. OwnOK'
      BY <2>1 DEF IInv, TypeOK, OwnOK, own
    <3>4. garbled' \in BOOLEAN
      BY <2>1
    <3>5. UrOK'
      BY <2>1, <3>2, <3>4 DEF UrOK, Piecework
    <3> QED BY <2>1, <3>3, <3>5 DEF IInv, TypeOK
  <2>5. PiecesAreTrue'
    <3>1. ~ bad => x.fragment = Content(p, x.indexes)
      BY DEF Piece
    <3>2. ~ garbled' => \A y \in simple' \cup mixed' : y.fragment = Content(p, y.indexes)
      BY <2>1 DEF PiecesAreTrue, IInv, Everything
    <3> QED BY <2>1, <2>3, <3>1, <3>2 DEF PiecesAreTrue
  <2>6. NothingLeftToPeel'
    BY <2>1 DEF NothingLeftToPeel
  <2>7. LoopInv'
    BY <2>0, <2>1, <1>1 DEF LoopInv, IInv, Known
  <2> QED BY <2>4, <2>5, <2>6, <2>7 DEF IInv
<1> QED BY <1>2, <1>3

(* Feeding a piece of the message back through its mixtures. *)
LEMMA FeedingBack ==
  ASSUME IInv, msg # None, NEW x \in Everything, NEW r \in {Reduce(o, x) : o \in mixed}
  PROVE  /\ r \in Piecework(msg)
         /\ ~ garbled => r.fragment = Content(msg, r.indexes)
         /\ IsSingle(x) => r.indexes \cap x.indexes = {}
         /\ \E o \in mixed : r.indexes \subseteq o.indexes
<1>1. PICK o \in mixed : r = Reduce(o, x)
  OBVIOUS
<1>2. o \in Piecework(msg) /\ x \in Piecework(msg) /\ msg \in Payload
  BY DEF IInv, TypeOK, UrOK, Everything
<1>3. ~ garbled => o.fragment = Content(msg, o.indexes) /\ x.fragment = Content(msg, x.indexes)
  BY DEF IInv, PiecesAreTrue, Everything
<1>4. ~ garbled => r.fragment = Content(msg, r.indexes)
  BY <1>1, <1>3, ReduceIsTrue
<1>5. r \in Piecework(msg) /\ r.indexes \subseteq o.indexes
  BY <1>1, <1>2, ReduceIsPiecework
<1>6. IsSingle(x) => r.indexes \cap x.indexes = {}
  BY <1>1, ReduceBySingle
<1> QED BY <1>4, <1>5, <1>6

LEMMA TakeSimpleKeeps == ASSUME IInv, NEW x \in queue, TakeSimple(x) PROVE IInv'
<1>1. /\ busy /\ done = None /\ hand = None /\ IsSingle(x) /\ msg \in Ur /\ todo = {} /\ msg # None
      /\ out = None /\ Total[msg] # 1
      /\ UNCHANGED <<own, msg, hand, todo, busy, garbled, settled, out>>
  BY DEF TakeSimple, Looping, IInv, LoopInv, TypeOK, UrOK
<1>2. x \in Everything /\ Everything = simple \cup mixed \cup queue
  BY <1>1 DEF Everything
<1>3. Everything \subseteq Piecework(msg)
  BY <1>1 DEF IInv, TypeOK, UrOK
<1>4. NothingLeftToPeel'
  BY <1>1 DEF NothingLeftToPeel
<1>5. CASE x.indexes \subseteq Known
  <2>1. queue' = queue \ {x} /\ UNCHANGED <<simple, mixed, done>>
    BY <1>5 DEF TakeSimple
  <2>2. Everything' \subseteq Everything
    BY <1>1, <2>1 DEF Everything
  <2>3. TypeOK' /\ PiecesAreTrue'
    BY <1>1, <1>3, <2>1, <2>2 DEF IInv, TypeOK, OwnOK, UrOK, own, PiecesAreTrue, Piecework
  <2>4. LoopInv'
    BY <1>1, <2>1 DEF IInv, LoopInv, Known
  <2> QED BY <1>4, <2>3, <2>4 DEF IInv
<1>6. CASE ~ (x.indexes \subseteq Known) /\ Known \cup x.indexes # Indexes(msg)
  <2> DEFINE reduced == {Reduce(o, x) : o \in mixed}
  <2>1. /\ simple' = simple \cup {x} /\ done' = done
        /\ queue' = (queue \ {x}) \cup {r \in reduced : IsSingle(r)}
        /\ mixed' = {r \in reduced : r.indexes # {} /\ ~ IsSingle(r)}
    BY <1>6 DEF TakeSimple, ReduceMixedBy
  <2>2. Everything' \subseteq Everything \cup reduced
    BY <1>1, <1>2, <2>1 DEF Everything
  <2>3. \A r \in reduced : /\ r \in Piecework(msg)
                           /\ ~ garbled => r.fragment = Content(msg, r.indexes)
                           /\ r.indexes \cap x.indexes = {}
                           /\ \E o \in mixed : r.indexes \subseteq o.indexes
    BY <1>1, <1>2, FeedingBack
  <2>4. TypeOK'
    <3>1. Everything' \subseteq Piecework(msg)
      BY <1>3, <2>2, <2>3
    <3>2. OwnOK'
      BY <1>1 DEF IInv, TypeOK, OwnOK, own
    <3>3. UrOK'
      BY <1>1, <2>1, <3>1 DEF IInv, TypeOK, UrOK, Piecework
    <3> QED BY <1>1, <3>2, <3>3 DEF IInv, TypeOK
  <2>5. PiecesAreTrue'
    BY <1>1, <2>2, <2>3 DEF IInv, PiecesAreTrue
  <2>6. Known' = Known \cup x.indexes
    BY <2>1 DEF Known
  <2>7. Known' # Indexes(msg) => \A m \in mixed' : m.indexes \cap Known' = {}
    <3>1. Known # Indexes(msg) => \A o \in mixed : o.indexes \cap Known = {}
      BY <1>1 DEF IInv, LoopInv
    <3>2. CASE Known # Indexes(msg)
      BY <3>1, <3>2, <2>1, <2>3, <2>6
    <3>3. CASE Known = Indexes(msg)
      BY <3>3, <1>2, <1>3, <1>6 DEF Piecework
    <3> QED BY <3>2, <3>3
  <2>8. LoopInv'
    <3>1. \A y \in simple' : IsSingle(y)
      BY <1>1, <2>1 DEF IInv, LoopInv
    <3>2. \A y \in mixed' : y.indexes # {} /\ ~ IsSingle(y)
      BY <2>1
    <3> QED BY <1>1, <2>1, <2>7, <3>1, <3>2 DEF LoopInv, Indexes
  <2> QED BY <1>4, <2>4, <2>5, <2>8 DEF IInv
<1>7. CASE ~ (x.indexes \subseteq Known) /\ Known \cup x.indexes = Indexes(msg)
  <2>1. /\ simple' = simple \cup {x} /\ queue' = queue \ {x} /\ mixed' = mixed
        /\ done' \in {msg, None}
        /\ done' # None => \A y \in simple' : y.fragment = Content(msg, y.indexes)
    BY <1>7 DEF TakeSimple
  <2>2. Everything' \subseteq Everything
    BY <1>1, <1>2, <2>1 DEF Everything
  <2>3. TypeOK' /\ PiecesAreTrue'
    <3>1. OwnOK'
      BY <1>1 DEF IInv, TypeOK, OwnOK, own
    <3>2. UrOK'
      BY <1>1, <1>3, <2>1, <2>2 DEF IInv, TypeOK, UrOK, Piecework
    <3>3. PiecesAreTrue'
      BY <1>1, <2>2 DEF IInv, PiecesAreTrue
    <3> QED BY <1>1, <3>1, <3>2, <3>3 DEF IInv, TypeOK
  <2>4. Known' = Indexes(msg)
    BY <1>7, <2>1 DEF Known
  <2>5. LoopInv'
    <3>1. \A y \in simple' : IsSingle(y)
      BY <1>1, <2>1 DEF IInv, LoopInv
    <3>2. \A y \in mixed' : y.indexes # {} /\ ~ IsSingle(y)
      BY <2>1 DEF IInv, LoopInv
    <3> QED BY <1>1, <2>1, <2>4, <3>1, <3>2 DEF LoopInv, Indexes
  <2> QED BY <1>4, <2>3, <2>5 DEF IInv
<1> QED BY <1>5, <1>6, <1>7

LEMMA TakeMixedKeeps == ASSUME IInv, NEW x \in queue, TakeMixed(x) PROVE IInv'
<1>1. /\ busy /\ done = None /\ hand = None /\ msg # None /\ todo = {}
      /\ queue' = queue \ {x}
      /\ UNCHANGED <<own, msg, simple, mixed, done, busy, garbled, settled, out>>
      /\ \/ UNCHANGED <<hand, todo>>
         \/ hand' = x /\ todo' = simple \cup mixed
  BY DEF TakeMixed, Looping, IInv, LoopInv
<1>2. Everything' \subseteq Everything
  BY <1>1 DEF Everything
<1>3. TypeOK'
  <2>1. UrOK'
    BY <1>1, <1>2 DEF IInv, TypeOK, UrOK, Piecework
  <2> QED BY <1>1, <2>1 DEF IInv, TypeOK, OwnOK, own
<1>4. PiecesAreTrue'
  BY <1>1, <1>2 DEF IInv, PiecesAreTrue
<1>5. NothingLeftToPeel'
  BY <1>1 DEF NothingLeftToPeel
<1>6. LoopInv'
  <2>1. x # None
    BY <1>1 DEF IInv, TypeOK, UrOK, Everything
  <2>2. ((simple \cup mixed) \subseteq (simple \cup mixed)) /\ simple \ (simple \cup mixed) = {}
    OBVIOUS
  <2> QED BY <1>1, <2>1, <2>2 DEF IInv, LoopInv, Known
<1> QED BY <1>3, <1>4, <1>5, <1>6 DEF IInv

LEMMA ReduceHandKeeps == ASSUME IInv, NEW o \in todo, ReduceHand(o) PROVE IInv'
<1>1. /\ busy /\ hand # None /\ done = None /\ msg \in Ur /\ msg # None
      /\ hand' = Reduce(hand, o) /\ todo' = todo \ {o}
      /\ UNCHANGED <<own, msg, simple, mixed, queue, done, busy, garbled, settled, out>>
  BY DEF ReduceHand, IInv, LoopInv, TypeOK, UrOK
<1>2. hand \in Piecework(msg) /\ o \in Piecework(msg) /\ hand \in Everything /\ o \in Everything
  BY <1>1 DEF IInv, TypeOK, UrOK, Everything
<1>3. hand' \in Piecework(msg) /\ hand'.indexes \subseteq hand.indexes
  BY <1>1, <1>2, ReduceIsPiecework
<1>4. Everything' \subseteq Everything \cup {hand'}
  BY <1>1 DEF Everything
<1>5. TypeOK'
  <2>1. Everything' \subseteq Piecework(msg)
    BY <1>1, <1>3, <1>4 DEF IInv, TypeOK, UrOK
  <2>2. UrOK'
    BY <1>1, <2>1 DEF IInv, TypeOK, UrOK, Piecework
  <2> QED BY <1>1, <2>2 DEF IInv, TypeOK, OwnOK, own
<1>6. PiecesAreTrue'
  <2>1. ~ garbled => hand'.fragment = Content(msg, hand'.indexes)
    BY <1>1, <1>2, ReduceIsTrue DEF IInv, PiecesAreTrue
  <2> QED BY <1>1, <1>4, <2>1 DEF IInv, PiecesAreTrue
<1>7. NothingLeftToPeel'
  BY <1>1 DEF NothingLeftToPeel
<1>8. LoopInv'
  <2>1. \A x \in simple \ todo : x.indexes \cap hand.indexes = {}
    BY <1>1 DEF IInv, LoopInv
  <2>2. o \in simple => o.indexes \cap hand'.indexes = {}
    BY <1>1, ReduceBySingle DEF IInv, LoopInv
  <2>3. \A x \in simple' \ todo' : x.indexes \cap hand'.indexes = {}
    BY <1>1, <1>3, <2>1, <2>2
  <2>4. hand' # None
    BY <1>3, <1>1
  <2> QED BY <1>1, <2>3, <2>4 DEF IInv, LoopInv, Known
<1> QED BY <1>5, <1>6, <1>7, <1>8 DEF IInv

LEMMA PlaceHandKeeps == ASSUME IInv, PlaceHand PROVE IInv'
<1> DEFINE reduced == {Reduce(o, hand) : o \in mixed}
<1>1. /\ busy /\ hand # None /\ done = None /\ msg \in Ur /\ msg # None /\ todo = {}
      /\ hand' = None /\ todo' = {}
      /\ UNCHANGED <<own, msg, simple, done, busy, garbled, settled, out>>
  BY DEF PlaceHand, IInv, LoopInv, TypeOK, UrOK
<1>2. hand \in Everything /\ hand \in Piecework(msg) /\ Everything \subseteq Piecework(msg)
  BY <1>1 DEF IInv, TypeOK, UrOK, Everything
<1>3. \A r \in reduced : /\ r \in Piecework(msg)
                         /\ ~ garbled => r.fragment = Content(msg, r.indexes)
                         /\ \E o \in mixed : r.indexes \subseteq o.indexes
  BY <1>1, <1>2, FeedingBack
<1>4. \A x \in simple : x.indexes \cap hand.indexes = {}
  BY <1>1 DEF IInv, LoopInv
<1>5. Known' = Known /\ Known \cap hand.indexes = {}
  BY <1>1, <1>4 DEF Known
<1>6. /\ Everything' \subseteq Everything \cup reduced
      /\ \A m \in mixed' : m.indexes # {} /\ ~ IsSingle(m) /\ m \in mixed \cup reduced \cup {hand}
  <2>1. CASE hand.indexes = {} /\ UNCHANGED <<queue, mixed>>
    BY <2>1, <1>1 DEF Everything, IInv, LoopInv
  <2>2. CASE IsSingle(hand) /\ queue' = queue \cup {hand} /\ UNCHANGED mixed
    BY <2>2, <1>1, <1>2 DEF Everything, IInv, LoopInv
  <2>3. CASE /\ hand.indexes # {} /\ ~ IsSingle(hand)
             /\ queue' = queue \cup {r \in reduced : IsSingle(r)}
             /\ mixed' = {hand} \cup {r \in reduced : r.indexes # {} /\ ~ IsSingle(r)}
    BY <2>3, <1>1, <1>2 DEF Everything
  <2> QED BY <2>1, <2>2, <2>3 DEF PlaceHand
<1>7. TypeOK'
  <2>1. Everything' \subseteq Piecework(msg)
    BY <1>2, <1>3, <1>6
  <2>2. UrOK'
    BY <1>1, <2>1 DEF IInv, TypeOK, UrOK, Piecework
  <2> QED BY <1>1, <2>2 DEF IInv, TypeOK, OwnOK, own
<1>8. PiecesAreTrue'
  BY <1>1, <1>3, <1>6 DEF IInv, PiecesAreTrue
<1>9. NothingLeftToPeel'
  BY <1>1 DEF NothingLeftToPeel
<1>10. LoopInv'
  <2>1. Known # Indexes(msg) => \A m \in mixed \cup reduced \cup {hand} : m.indexes \cap Known = {}
    BY <1>1, <1>3, <1>5 DEF IInv, LoopInv
  <2> QED BY <1>1, <1>5, <1>6, <2>1 DEF IInv, LoopInv, Indexes
<1> QED BY <1>7, <1>8, <1>9, <1>10 DEF IInv

LEMMA FinishKeeps == ASSUME IInv, Finish PROVE IInv'
<1>1. /\ busy /\ hand = None /\ todo = {} /\ msg \in Ur /\ msg # None
      /\ busy' = FALSE /\ UNCHANGED <<own, settled>>
  BY DEF Finish, IInv, LoopInv, TypeOK, UrOK
<1>2. CASE /\ done # None \/ (queue = {} /\ Known # Indexes(msg))
           /\ out' \in Ur \cup {None} /\ UNCHANGED <<msg, pool, done, garbled>>
  <2>1. Everything' = Everything /\ Known' = Known
    BY <1>2 DEF Everything, pool, Known
  <2>2. TypeOK'
    <3>1. UrOK'
      BY <1>1, <1>2, <2>1 DEF IInv, TypeOK, UrOK, Piecework
    <3> QED BY <1>1, <1>2, <3>1 DEF IInv, TypeOK, OwnOK, own
  <2>3. PiecesAreTrue'
    BY <1>2, <2>1 DEF IInv, PiecesAreTrue
  <2>4. NothingLeftToPeel' /\ LoopInv'
    BY <1>1, <1>2, <2>1 DEF IInv, NothingLeftToPeel, LoopInv, pool, Indexes
  <2> QED BY <2>2, <2>3, <2>4 DEF IInv
<1>3. CASE /\ done = None /\ queue = {}
           /\ msg' = None /\ simple' = {} /\ mixed' = {} /\ garbled' = FALSE
           /\ out' = None /\ UNCHANGED <<queue, hand, todo, done>>
  <2>1. Everything' = {}
    BY <1>1, <1>3 DEF Everything
  <2>2. TypeOK'
    <3>1. UrOK'
      BY <1>1, <1>3, <2>1 DEF UrOK
    <3> QED BY <1>1, <1>3, <3>1 DEF IInv, TypeOK, OwnOK, own
  <2>3. PiecesAreTrue' /\ NothingLeftToPeel' /\ LoopInv'
    BY <1>1, <1>3, <2>1 DEF PiecesAreTrue, NothingLeftToPeel, LoopInv
  <2> QED BY <2>2, <2>3 DEF IInv
<1> QED
  <2>1. done # None => Unwrap(done) \in Ur \cup {None}
    BY <1>1 DEF Unwrap, IInv, TypeOK, UrOK
  <2> QED BY <1>2, <1>3, <2>1 DEF Finish

LEMMA ResetKeeps == ASSUME IInv, Reset PROVE IInv'
<1>1. hand = None /\ todo = {} /\ ~ busy
  BY DEF Reset, IInv, LoopInv
<1>2. Everything' = {}
  BY <1>1 DEF Reset, Everything
<1>3. OwnOK'
  <2>1. Nothing \in [{} -> {<<None, j>> : j \in {} \cup {0}}] /\ {} \in SUBSET (1 .. 0)
    BY DEF Nothing
  <2> QED BY <2>1 DEF Reset, Drop, OwnOK
<1>4. UrOK'
  BY <1>1, <1>2 DEF Reset, UrOK, IInv, TypeOK
<1>5. TypeOK'
  BY <1>3, <1>4 DEF Reset, TypeOK, IInv
<1>6. PiecesAreTrue' /\ NothingLeftToPeel' /\ LoopInv'
  BY <1>1, <1>2 DEF Reset, PiecesAreTrue, NothingLeftToPeel, LoopInv
<1> QED BY <1>5, <1>6 DEF IInv

LEMMA QuietKeeps ==
  ASSUME IInv, Junk \/ (\E p \in Payload : Settle(p)) \/ UNCHANGED vars PROVE IInv'
<1>1. /\ UNCHANGED <<own, ur>> /\ settled' \in Payload \cup {None}
      /\ out' \in Payload \cup {None} /\ (busy => out' = out)
  <2>1. done \in Payload \cup {None}
    BY AirgapAssumption DEF AirgapAssumption, IInv, TypeOK, UrOK
  <2> QED BY <2>1 DEF Junk, Unwrap, Settle, vars, IInv, TypeOK
<1>2. Everything' = Everything /\ Known' = Known
  BY <1>1 DEF ur, pool, Everything, Known
<1>3. TypeOK'
  <2>1. OwnOK'
    BY <1>1 DEF IInv, TypeOK, OwnOK, own
  <2>2. UrOK'
    BY <1>1, <1>2 DEF IInv, TypeOK, UrOK, ur, Piecework
  <2> QED BY <1>1, <2>1, <2>2 DEF TypeOK
<1>4. PiecesAreTrue' /\ NothingLeftToPeel' /\ LoopInv'
  BY <1>1, <1>2 DEF IInv, PiecesAreTrue, NothingLeftToPeel, LoopInv, ur, pool, Indexes
<1> QED BY <1>3, <1>4 DEF IInv

(* Every step of the receiving half keeps the invariant. *)
LEMMA StepKeeps == IInv /\ [Next]_vars => IInv'
<1> SUFFICES ASSUME IInv, [Next]_vars PROVE IInv'
  OBVIOUS
<1>1. ASSUME Drain PROVE IInv'
  BY <1>1, TakeSimpleKeeps, TakeMixedKeeps, ReduceHandKeeps, PlaceHandKeeps, FinishKeeps DEF Drain
<1>2. ASSUME NEW p \in Own, \E t \in Totals(p), i \in Indexes(p) :
               \E b \in Bodies(p, i) : OfferPart(p, i, t, b)
      PROVE IInv'
  BY <1>2, OfferPartKeeps
<1>3. ASSUME NEW p \in Ur,
             OfferWhole(p) \/ \E S \in (SUBSET Indexes(p)) \ {{}}, bad \in BOOLEAN : OfferFrame(p, S, bad)
      PROVE IInv'
  BY <1>3, OfferWholeKeeps, OfferFrameKeeps
<1> QED BY <1>1, <1>2, <1>3, ResetKeeps, QuietKeeps DEF Next

(* What the two collectors hold stays coherent. *)
THEOREM Invariance == Spec => []IInv
BY InitIsGood, StepKeeps, PTL DEF Spec

(* Each collector holds parts of one payload only, whatever is shown to it. *)
THEOREM TypeCorrect == Spec => []TypeOK
<1>1. IInv => TypeOK
  BY DEF IInv
<1> QED BY <1>1, Invariance, PTL

(* Peeling never mixes up fragments or messages. *)
THEOREM PeelingIsTrue == Spec => []PiecesAreTrue
<1>1. IInv => PiecesAreTrue
  BY DEF IInv
<1> QED BY <1>1, Invariance, PTL

(* Between two frames everything that can be peeled has been. *)
THEOREM PeelingIsComplete == Spec => []NothingLeftToPeel
<1>1. IInv => NothingLeftToPeel
  BY DEF IInv
<1> QED BY <1>1, Invariance, PTL

-----------------------------------------------------------------------------
(* Refinement: every look at the camera is a look of Transfer.             *)
OwnKept == {<<held, i>> : i \in {j \in DOMAIN parts : parts[j] = <<held, j>>}}
UrKept == IF msg = None THEN {} ELSE Content(msg, Covered)

LEMMA KeptSplits == Kept = OwnKept \cup UrKept /\ Kept' = OwnKept' \cup UrKept'
BY DEF Kept, OwnKept, UrKept

(* A step that only loses pieces, and returns nothing, is a look at a      *)
(* frame that carried none.                                                *)
LEMMA LosingIsALook ==
  ASSUME NEW p \in Payload, Kept' \subseteq Kept, out' = None
  PROVE  Relayed!Onwards
<1>1. Relayed!Look(p, {})
  BY DEF Relayed!Look
<1> QED BY <1>1 DEF Relayed!Onwards

LEMMA OfferPartIsALook ==
  ASSUME IInv, NEW p \in Own, NEW t \in Totals(p), NEW i \in Indexes(p),
         NEW b \in Bodies(p, i), OfferPart(p, i, t, b)
  PROVE  Relayed!Onwards
<1> DEFINE n == IF held = p THEN total ELSE t
           kept == IF held = p THEN parts ELSE Nothing
           now == With(kept, i, b)
<1>1. UrKept' = UrKept
  BY DEF OfferPart, UrKept, Covered, Proven, Everything, ur, pool
<1>2. \A j \in DOMAIN kept : kept[j] = <<p, j>> => <<p, j>> \in OwnKept
  BY DEF Nothing, OwnKept
<1>3. CASE Hold(p, n, kept) /\ out' = None
  <2>1. OwnKept' \subseteq OwnKept
    BY <1>3, <1>2 DEF Hold, OwnKept
  <2> QED BY <1>1, <1>3, <2>1, KeptSplits, LosingIsALook
<1>4. CASE Hold(p, n, now) /\ out' \in {None, p} /\ (out' = p => now = Whole(p))
  <2>1. OwnKept' \subseteq OwnKept \cup {<<p, i>>}
    BY <1>4, <1>2 DEF Hold, OwnKept, With
  <2>2. out' = p => Complete(p) \subseteq OwnKept'
    BY <1>4 DEF Hold, OwnKept, Whole, Complete, Content
  <2>3. {<<p, i>>} \subseteq Complete(p)
    BY DEF Complete, Content
  <2>4. Relayed!Look(p, {<<p, i>>})
    BY <1>1, <1>4, <2>1, <2>2, KeptSplits DEF Relayed!Look
  <2> QED BY <2>3, <2>4 DEF Relayed!Onwards
<1>5. CASE Drop /\ out' = None
  <2>1. OwnKept' = {}
    BY <1>5 DEF Drop, OwnKept, Nothing
  <2> QED BY <1>1, <1>5, <2>1, KeptSplits, LosingIsALook
<1> QED BY <1>3, <1>4, <1>5 DEF OfferPart

LEMMA OfferWholeIsALook ==
  ASSUME IInv, NEW p \in Ur, OfferWhole(p) PROVE Relayed!Onwards
<1>1. OwnKept' = OwnKept /\ out' \in {p, None} /\ p # None
  BY DEF OfferWhole, OwnKept, own, Unwrap
<1>2. UrKept' = Complete(p)
  BY DEF OfferWhole, UrKept, Covered, Complete
<1>3. Relayed!Look(p, Complete(p))
  BY <1>1, <1>2, KeptSplits DEF Relayed!Look
<1> QED BY <1>3 DEF Relayed!Onwards

(* A finished fountain message keeps all of its pieces.                    *)
LEMMA DoneIsComplete ==
  ASSUME IInv, done # None PROVE done = msg /\ msg \in Ur /\ UrKept = Complete(msg)
<1>1. done = msg /\ msg \in Ur /\ msg # None
  BY DEF IInv, TypeOK, UrOK
<1>2. Total[msg] # 1 => Proven = simple /\ Known = Indexes(msg)
  BY DEF IInv, LoopInv, Proven
<1> QED BY <1>1, <1>2 DEF UrKept, Covered, Complete, Known

LEMMA OfferFrameIsALook ==
  ASSUME IInv, NEW p \in Ur, NEW S \in (SUBSET Indexes(p)) \ {{}}, NEW bad \in BOOLEAN,
         OfferFrame(p, S, bad)
  PROVE  Relayed!Onwards
<1>1. OwnKept' = OwnKept
  BY DEF OfferFrame, OwnKept, own
<1>2. CASE msg = p /\ done # None
  <2>1. out' \in {p, None} /\ UNCHANGED ur
    BY <1>2, DoneIsComplete DEF OfferFrame, Unwrap
  <2>2. UrKept' = UrKept
    BY <2>1 DEF UrKept, Covered, Proven, Everything, ur, pool
  <2>3. Relayed!Look(p, {})
    BY <1>1, <1>2, <2>1, <2>2, KeptSplits, DoneIsComplete DEF Relayed!Look
  <2> QED BY <2>3 DEF Relayed!Onwards
<1>3. CASE ~ (msg = p /\ done # None)
  <2> DEFINE x == Piece(S, Content(p, S) \cup IF bad THEN {<<p, 0>>} ELSE {})
  <2>1. /\ msg' = p /\ done' = None /\ queue' = {x} /\ hand' = None /\ todo' = {} /\ out' = None
        /\ simple' = (IF msg = p THEN simple ELSE {}) /\ mixed' = (IF msg = p THEN mixed ELSE {})
    BY <1>3 DEF OfferFrame, IInv, LoopInv
  <2>2. msg = p => UrKept = Content(p, UNION {y.indexes : y \in Everything})
    BY <1>3 DEF UrKept, Covered
  <2>3. Everything' = simple' \cup mixed' \cup {x} /\ x.indexes = S
    BY <2>1 DEF Everything, Piece
  <2>4. UrKept' = Content(p, UNION {y.indexes : y \in Everything'})
    BY <2>1 DEF UrKept, Covered
  <2>5. UrKept' \subseteq UrKept \cup Content(p, S)
    <3>1. CASE msg = p
      <4>1. simple' \cup mixed' \subseteq Everything
        BY <3>1, <2>1 DEF Everything
      <4>2. \A y \in Everything' : y \in Everything \/ y.indexes = S
        BY <4>1, <2>3
      <4> QED BY <3>1, <2>2, <2>4, <4>2 DEF Content
    <3>2. CASE msg # p
      BY <3>2, <2>1, <2>3, <2>4 DEF Content
    <3> QED BY <3>1, <3>2
  <2>6. Relayed!Look(p, Content(p, S)) /\ Content(p, S) \subseteq Complete(p)
    BY <1>1, <2>1, <2>5, KeptSplits DEF Relayed!Look, Complete, Content
  <2> QED BY <2>6 DEF Relayed!Onwards
<1> QED BY <1>2, <1>3

(* Inside offer, pieces are only ever reduced or dropped.                  *)
LEMMA DrainIsALook == ASSUME IInv, IInv', Drain PROVE Relayed!Onwards
<1>1. busy /\ out = None /\ msg \in Ur /\ msg # None /\ OwnKept' = OwnKept
  BY DEF Drain, TakeSimple, TakeMixed, ReduceHand, PlaceHand, Finish, Looping,
     IInv, LoopInv, TypeOK, UrOK, OwnKept, own
<1>2. ASSUME msg' = msg, done = None, out' = None,
             \A y \in Everything' : \E z \in Everything : y.indexes \subseteq z.indexes
      PROVE Relayed!Onwards
  <2>1. UrKept = Content(msg, UNION {y.indexes : y \in Everything})
    BY <1>1, <1>2 DEF UrKept, Covered
  <2>2. CASE done' = None
    <3>1. UrKept' = Content(msg, UNION {y.indexes : y \in Everything'})
      BY <1>1, <1>2, <2>2 DEF UrKept, Covered
    <3>2. UrKept' \subseteq UrKept
      BY <1>2, <2>1, <3>1 DEF Content
    <3> QED BY <1>1, <1>2, <3>2, KeptSplits, LosingIsALook
  <2>3. CASE done' # None /\ Total[msg] # 1
    <3>1. UrKept' = Content(msg, UNION {y.indexes : y \in Proven'})
      BY <1>1, <1>2, <2>3 DEF UrKept, Covered
    <3>2. Proven' \subseteq Everything'
      BY DEF Proven, Everything
    <3>3. UrKept' \subseteq UrKept
      BY <1>2, <2>1, <3>1, <3>2 DEF Content
    <3> QED BY <1>1, <1>2, <3>3, KeptSplits, LosingIsALook
  <2> QED BY <1>1, <2>2, <2>3 DEF IInv, LoopInv
<1>3. ASSUME Everything' \subseteq Everything, msg' = msg, done = None, out' = None
      PROVE Relayed!Onwards
  BY <1>2, <1>3
<1>4. ASSUME NEW x \in queue, TakeSimple(x) PROVE Relayed!Onwards
  <2>1. /\ done = None /\ UNCHANGED <<msg, hand, todo, out>> /\ x \in Everything
        /\ queue' \subseteq queue \cup {Reduce(o, x) : o \in mixed}
        /\ mixed' \subseteq mixed \cup {Reduce(o, x) : o \in mixed}
        /\ simple' \subseteq simple \cup {x}
    BY <1>4 DEF TakeSimple, Looping, ReduceMixedBy, Everything
  <2>2. \A y \in Everything' : y \in Everything \/ y \in {Reduce(o, x) : o \in mixed}
    BY <2>1, <1>4 DEF Everything
  <2>3. mixed \subseteq Everything
    BY DEF Everything
  <2>4. \A y \in Everything' : \E z \in Everything : y.indexes \subseteq z.indexes
    BY <1>1, <2>1, <2>2, <2>3, FeedingBack
  <2> QED BY <1>1, <1>2, <2>1, <2>4
<1>5. ASSUME NEW x \in queue, TakeMixed(x) PROVE Relayed!Onwards
  <2>1. Everything' \subseteq Everything
    BY <1>5 DEF TakeMixed, Looping, Everything, IInv, LoopInv
  <2> QED BY <1>1, <1>3, <1>5, <2>1 DEF TakeMixed, Looping
<1>6. ASSUME NEW o \in todo, ReduceHand(o) PROVE Relayed!Onwards
  <2>1. hand # None /\ done = None /\ msg' = msg /\ out' = out /\ hand' = Reduce(hand, o)
    BY <1>6 DEF ReduceHand, IInv, LoopInv
  <2>2. hand \in Everything /\ o \in Everything /\ Everything \subseteq Piecework(msg)
    BY <1>1, <2>1 DEF Everything, IInv, TypeOK, UrOK
  <2>3. hand'.indexes \subseteq hand.indexes
    BY <1>1, <2>1, <2>2, ReduceIsPiecework
  <2>4. \A y \in Everything' : y \in Everything \/ y = hand'
    BY <1>6 DEF ReduceHand, Everything
  <2> QED BY <1>1, <1>2, <2>1, <2>2, <2>3, <2>4
<1>7. ASSUME PlaceHand PROVE Relayed!Onwards
  <2>1. /\ hand # None /\ done = None /\ UNCHANGED <<msg, out, simple, todo>> /\ hand' = None
        /\ queue' \subseteq queue \cup {hand} \cup {Reduce(o, hand) : o \in mixed}
        /\ mixed' \subseteq mixed \cup {hand} \cup {Reduce(o, hand) : o \in mixed}
    BY <1>7 DEF PlaceHand, IInv, LoopInv
  <2>2. hand \in Everything
    BY <2>1 DEF Everything
  <2>3. \A y \in Everything' : y \in Everything \/ y \in {Reduce(o, hand) : o \in mixed}
    BY <2>1, <2>2 DEF Everything
  <2>4. mixed \subseteq Everything
    BY DEF Everything
  <2>5. \A y \in Everything' : \E z \in Everything : y.indexes \subseteq z.indexes
    BY <1>1, <2>2, <2>3, <2>4, FeedingBack
  <2> QED BY <1>1, <1>2, <2>1, <2>5
<1>8. ASSUME Finish PROVE Relayed!Onwards
  <2>1. CASE done # None /\ out' = Unwrap(done) /\ UNCHANGED <<msg, pool, done, garbled>>
    <3>1. UrKept' = UrKept /\ UrKept = Complete(msg) /\ done = msg
      BY <2>1, DoneIsComplete DEF UrKept, Covered, Proven, Everything, pool
    <3>2. Relayed!Look(msg, {})
      BY <1>1, <2>1, <3>1, KeptSplits DEF Relayed!Look, Unwrap
    <3> QED BY <1>1, <3>2 DEF Relayed!Onwards
  <2>2. CASE done = None /\ out' = None /\ UNCHANGED <<msg, pool, done, garbled>>
    <3>1. Everything' = Everything
      BY <2>2 DEF Everything, pool
    <3> QED BY <1>3, <2>2, <3>1
  <2>3. CASE msg' = None /\ out' = None
    <3>1. UrKept' = {}
      BY <2>3 DEF UrKept
    <3> QED BY <1>1, <2>3, <3>1, KeptSplits, LosingIsALook
  <2> QED BY <1>8, <2>1, <2>2, <2>3 DEF Finish
<1> QED BY <1>4, <1>5, <1>6, <1>7, <1>8 DEF Drain

(* Starting over, or looking at anything else, loses everything or nothing. *)
LEMMA QuietIsALook ==
  ASSUME IInv, Junk \/ Reset \/ (\E p \in Payload : Settle(p)) \/ UNCHANGED vars
  PROVE  [Relayed!Onwards]_<<Kept, out>>
<1>1. CASE Settle(settled') \/ UNCHANGED vars
  <2>1. UNCHANGED <<own, ur, out>>
    BY <1>1 DEF Settle, vars
  <2> QED BY <2>1 DEF Kept, Covered, Proven, Everything, own, ur, pool
<1>2. CASE Junk /\ out' # None
  <2>1. out' = done /\ done # None /\ UNCHANGED <<own, ur>>
    BY <1>2 DEF Junk, Unwrap
  <2>2. Kept' = Kept
    BY <2>1 DEF Kept, Covered, Proven, Everything, own, ur, pool
  <2>3. done = msg /\ msg # None /\ UrKept = Complete(msg) /\ msg \in Payload
    BY <2>1, DoneIsComplete, AirgapAssumption
       DEF UrKept, Covered, Proven, AirgapAssumption, IInv, TypeOK, UrOK
  <2>4. Relayed!Look(msg, {})
    BY <2>1, <2>2, <2>3, KeptSplits DEF Relayed!Look
  <2> QED BY <2>3, <2>4 DEF Relayed!Onwards
<1>3. CASE (Junk /\ out' = None) \/ Reset
  <2>1. out' = None /\ Kept' \subseteq Kept
    <3>1. CASE Junk /\ out' = None
      BY <3>1 DEF Junk, Kept, Covered, Proven, Everything, own, ur, pool
    <3>2. CASE Reset
      <4>1. OwnKept' = {} /\ UrKept' = {}
        BY <3>2 DEF Reset, Drop, OwnKept, UrKept, Nothing
      <4> QED BY <3>2, <4>1, KeptSplits DEF Reset
    <3> QED BY <1>3, <3>1, <3>2
  <2>2. CASE \E p \in Payload : TRUE
    BY <2>1, <2>2, LosingIsALook
  <2>3. CASE Payload = {}
    <3>1. held = None /\ msg = None /\ out = None
      BY <2>3 DEF IInv, TypeOK, OwnOK, UrOK
    <3>2. OwnKept = {}
      <4>1. total = 0
        BY <3>1 DEF IInv, TypeOK, OwnOK
      <4>2. PICK D \in SUBSET (1 .. total) : parts \in [D -> {<<held, i>> : i \in D \cup {0}}]
        BY DEF IInv, TypeOK, OwnOK
      <4>3. D = {} /\ DOMAIN parts = D
        BY <4>1, <4>2
      <4> QED BY <4>3 DEF OwnKept
    <3>3. Kept = {}
      BY <3>1, <3>2, KeptSplits DEF UrKept
    <3> QED BY <2>1, <3>1, <3>3
  <2> QED BY <2>2, <2>3
<1> QED
  <2>1. ASSUME NEW p \in Payload, Settle(p) PROVE Settle(settled')
    BY <2>1 DEF Settle
  <2> QED BY <1>1, <1>2, <1>3, <2>1

(* The collectors implement Transfer: a payload is handed over only from   *)
(* pieces of its own that were all seen.                                   *)
THEOREM KeepsTransfer == Spec => KeepsTheRelay
<1>1. Init => Relayed!Blank
  BY DEF Init, Relayed!Blank, Kept, Nothing
<1>2. IInv /\ IInv' /\ [Next]_vars => [Relayed!Onwards]_<<Kept, out>>
  <2> SUFFICES ASSUME IInv, IInv', [Next]_vars PROVE [Relayed!Onwards]_<<Kept, out>>
    OBVIOUS
  <2>1. CASE Drain
    BY <2>1, DrainIsALook
  <2>2. CASE \E p \in Own : \E t \in Totals(p), i \in Indexes(p) :
               \E b \in Bodies(p, i) : OfferPart(p, i, t, b)
    BY <2>2, OfferPartIsALook
  <2>3. CASE \E p \in Ur : \/ OfferWhole(p)
                         \/ \E S \in (SUBSET Indexes(p)) \ {{}}, bad \in BOOLEAN :
                              OfferFrame(p, S, bad)
    BY <2>3, OfferWholeIsALook, OfferFrameIsALook
  <2> QED BY <2>1, <2>2, <2>3, QuietIsALook DEF Next
<1> QED BY <1>1, <1>2, Invariance, PTL DEF Spec, KeepsTheRelay, Relayed!Relay
-----------------------------------------------------------------------------
(* The loop of UrCollector.offer ends. *)
LEMMA SimpleIsNearer == ASSUME IInv, NEW x \in queue, TakeSimple(x) PROVE msg' = msg /\ Nearer
<1> USE DEF TakeSimple, Looping
<1>1. hand = None /\ hand' = None /\ msg' = msg
  OBVIOUS
<1>2. CASE x.indexes \subseteq Known
  <2>1. simple' = simple /\ queue' = queue \ {x}
    BY <1>2
  <2>2. Known' = Known /\ Mixtures' = Mixtures
    BY <2>1 DEF Known, Mixtures
  <2> QED BY <1>1, <2>1, <2>2 DEF Nearer, Shrinks
<1>3. CASE ~ (x.indexes \subseteq Known)
  <2>1. simple' = simple \cup {x}
    BY <1>3
  <2>2. Known' = Known \cup x.indexes
    BY <2>1 DEF Known
  <2> QED BY <1>1, <1>3, <2>2 DEF Nearer, Shrinks
<1> QED BY <1>2, <1>3

(* A mixture taken in hand is one less to open. *)
LEMMA MixedIsNearer == ASSUME IInv, NEW x \in queue, TakeMixed(x) PROVE msg' = msg /\ Nearer
<1>1. queue' = queue \ {x} /\ simple' = simple /\ ~ IsSingle(x) /\ msg' = msg
  BY DEF TakeMixed
<1>2. Known' = Known /\ Shrinks(Mixtures, Mixtures')
  BY <1>1 DEF Known, Mixtures, Shrinks
<1> QED BY <1>1, <1>2 DEF Nearer

(* The piece in hand has one reduction less before it. *)
LEMMA ReducingIsNearer ==
  ASSUME IInv, NEW o \in todo, ReduceHand(o) PROVE msg' = msg /\ Nearer
<1>1. /\ UNCHANGED <<msg, simple, queue>> /\ todo' = todo \ {o}
      /\ hand # None /\ hand' = Reduce(hand, o)
  BY DEF ReduceHand
<1>2. hand' # None
  <2>1. PICK p \in Payload : hand \in Piecework(p) /\ o \in Piecework(p)
    <3>1. hand \in Everything /\ o \in Everything
      BY <1>1 DEF Everything
    <3> QED BY <3>1 DEF IInv, TypeOK, UrOK
  <2> QED BY <1>1, <2>1, ReduceIsPiecework
<1>3. Known' = Known /\ Mixtures' = Mixtures /\ Shrinks(todo, todo')
  BY <1>1 DEF Known, Mixtures, Shrinks
<1> QED BY <1>1, <1>2, <1>3 DEF Nearer

(* The hand is emptied and no mixture comes of it. *)
LEMMA PlacingIsNearer == ASSUME IInv, PlaceHand PROVE msg' = msg /\ Nearer
<1>1. UNCHANGED <<msg, simple>> /\ hand # None /\ hand' = None
  BY DEF PlaceHand
<1>2. queue \subseteq queue' /\ \A y \in queue' \ queue : IsSingle(y)
  BY DEF PlaceHand
<1>3. Known' = Known /\ Mixtures' = Mixtures
  BY <1>1, <1>2 DEF Known, Mixtures
<1> QED BY <1>1, <1>3 DEF Nearer

(* Every turn of the loop comes nearer to its end, whatever the frames     *)
(* mixed and however many fragments the message has...                     *)
THEOREM EveryTurnIsNearer == Spec => OfferAdvances
<1>1. IInv /\ [Next]_vars =>
        [busy => \/ busy' /\ msg' = msg /\ Nearer
                 \/ ~ busy']_vars
  <2> SUFFICES ASSUME IInv, Next, busy, busy' PROVE msg' = msg /\ Nearer
    OBVIOUS
  <2>1. Drain
    BY DEF Next, Junk, Reset, Settle, OfferPart, OfferWhole, OfferFrame
  <2>2. ~ Finish
    BY DEF Finish
  <2> QED BY <2>1, <2>2, SimpleIsNearer, MixedIsNearer, ReducingIsNearer, PlacingIsNearer DEF Drain
<1> QED BY Invariance, <1>1, PTL DEF Spec, OfferAdvances

(* A payload can be filed in so many ways and no more. *)
LEMMA OnlySoManyPieces == ASSUME NEW p \in Payload PROVE IsFiniteSet(Piecework(p))
<1> DEFINE F == Content(p, 0 .. Total[p])
           Pairs == (SUBSET Indexes(p)) \X (SUBSET F)
           piece == [q \in Pairs |-> [indexes |-> q[1], fragment |-> q[2]]]
<1>1. IsFiniteSet(0 .. Total[p]) /\ IsFiniteSet(Indexes(p))
  BY FS_Interval DEF Indexes
<1>2. IsFiniteSet(F)
  <2>1. IsFiniteSet({p} \X (0 .. Total[p]))
    BY <1>1, FS_Singleton, FS_Product
  <2>2. F \in SUBSET ({p} \X (0 .. Total[p]))
    BY DEF Content
  <2> QED BY <2>1, <2>2, FS_Subset
<1>3. IsFiniteSet(SUBSET Indexes(p)) /\ IsFiniteSet(SUBSET F)
  BY <1>1, <1>2, FS_SUBSET
<1>4. IsFiniteSet(Pairs)
  BY <1>3, FS_Product
<1>5. piece \in Surjection(Pairs, Piecework(p))
  <2>1. piece \in [Pairs -> Piecework(p)]
    BY DEF Piecework
  <2>2. ASSUME NEW x \in Piecework(p) PROVE \E q \in Pairs : piece[q] = x
    <3>1. <<x.indexes, x.fragment>> \in Pairs /\ x = [indexes |-> x.indexes, fragment |-> x.fragment]
      BY DEF Piecework
    <3> QED BY <3>1
  <2> QED BY <2>1, <2>2 DEF Surjection
<1> QED BY <1>4, <1>5, FS_Surjection

(* ...and each of the sets that order is made of is finite, so a frame     *)
(* that is offered is taken in after so many turns.                        *)
THEOREM OnlySoManyTurns ==
  Spec => [](IsFiniteSet(Known) /\ IsFiniteSet(Mixtures) /\ IsFiniteSet(todo) /\ IsFiniteSet(queue))
<1>1. ASSUME IInv
      PROVE  /\ IsFiniteSet(Known) /\ IsFiniteSet(Mixtures)
             /\ IsFiniteSet(todo) /\ IsFiniteSet(queue)
  <2> USE <1>1
  <2>1. CASE msg = None
    <3>1. queue = {} /\ todo = {} /\ simple = {}
      BY <2>1 DEF IInv, TypeOK, UrOK, Everything
    <3>2. Known = {} /\ Mixtures = {}
      BY <3>1 DEF Known, Mixtures
    <3> QED BY <3>1, <3>2, FS_EmptySet
  <2>2. CASE msg # None
    <3>1. msg \in Payload /\ Everything \subseteq Piecework(msg)
      BY <2>2 DEF IInv, TypeOK, UrOK
    <3>2. IsFiniteSet(Piecework(msg)) /\ IsFiniteSet(Indexes(msg))
      BY <3>1, OnlySoManyPieces, FS_Interval DEF Indexes
    <3>3. /\ queue \in SUBSET Piecework(msg) /\ todo \in SUBSET Piecework(msg)
          /\ Mixtures \in SUBSET Piecework(msg) /\ simple \subseteq Piecework(msg)
      BY <3>1 DEF Everything, Mixtures
    <3>4. Known \in SUBSET Indexes(msg)
      BY <3>3 DEF Known, Piecework
    <3> QED BY <3>2, <3>3, <3>4, FS_Subset
  <2> QED BY <2>1, <2>2
<1>2. IInv => /\ IsFiniteSet(Known) /\ IsFiniteSet(Mixtures)
              /\ IsFiniteSet(todo) /\ IsFiniteSet(queue)
  BY <1>1
<1> QED BY Invariance, <1>2, PTL

=============================================================================
