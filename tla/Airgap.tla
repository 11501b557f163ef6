------------------------------- MODULE Airgap -------------------------------
(***************************************************************************)
(* The receiving half of the air gap: the camera loop of scanner.ts, the   *)
(* collector of the LV1 wire (envelope.ts) and the fountain collector of   *)
(* BC-UR (ur.ts).  A camera may miss a frame, see one many times, see two  *)
(* animations at once, and misread a frame in ways its text still parses.  *)
(*                                                                         *)
(* A payload is a model value; its digest, checksum and header stand for   *)
(* it, so two payloads that are shown have different checksums.  A part or *)
(* fragment is <<payload, index>>, index 0 is what a misread leaves, and a *)
(* fountain frame is the set of the fragments it is the XOR of.            *)
(***************************************************************************)
EXTENDS Naturals

CONSTANTS Own,      \* payloads shown as LV1 frames
          Ur,       \* payloads shown as BC-UR frames
          Opaque,   \* those of Ur that are not one byte string
          Total,    \* how many frames (fragments) each payload is cut into
          MaxTotal, \* bound: the largest total a misread header may state
          None

Payload == Own \cup Ur

Indexes(p) == 1 .. Total[p]
Content(p, S) == {<<p, i>> : i \in S}

(* Piece of ur.ts: the fragments that are mixed, and the XOR of them.      *)
Piecework(p) == [indexes : SUBSET Indexes(p), fragment : SUBSET Content(p, 0 .. Total[p])]

ASSUME AirgapAssumption == /\ Own \cap Ur = {} /\ Opaque \subseteq Ur
                           /\ None \notin Payload
                           /\ Total \in [Payload -> Nat \ {0}]
                           /\ \A p \in Payload : None \notin Piecework(p)
                           /\ MaxTotal \in Nat

VARIABLES held, total, parts,        \* Collector: digest and kind, total, parts
          msg, simple, mixed, queue, \* UrCollector: the header, and its pieces
          hand, todo,                \* takeMixed: the piece, what is left to try
          done,                      \* UrCollector.done
          busy,                      \* a frame is being taken in
          garbled,                   \* a misread UR frame was accepted
          settled,                   \* the animation the camera stays on
          out                        \* the payload the last offer returned

own == <<held, total, parts>>
pool == <<simple, mixed, queue, hand, todo>>
ur == <<msg, pool, done, busy, garbled>>
vars == <<own, ur, settled, out>>

-----------------------------------------------------------------------------
Whole(p) == [i \in Indexes(p) |-> <<p, i>>]
Nothing == <<>>
Unreadable == <<>>
With(f, i, b) == [j \in DOMAIN f \cup {i} |-> IF j = i THEN b ELSE f[j]]

(* What a frame of p may be: the camera that has settled reads it right.   *)
Watching(p, clean) == settled = None \/ (settled = p /\ clean)

Piece(S, f) == [indexes |-> S, fragment |-> f]
IsSingle(x) == \E i \in x.indexes : x.indexes = {i}
Known == UNION {x.indexes : x \in simple}
XorInto(a, b) == (a \ b) \cup (b \ a)

(* Mutant: the bytes of the smaller piece are not subtracted.              *)
ReduceIndexesOnly(a, b) ==
  IF b.indexes = {} \/ ~ (b.indexes \subseteq a.indexes) THEN a
  ELSE Piece(a.indexes \ b.indexes, a.fragment)

Reduce(a, b) ==
  IF b.indexes = {} \/ ~ (b.indexes \subseteq a.indexes) THEN a
  ELSE IF a.indexes = b.indexes THEN Piece({}, {})
  ELSE Piece(a.indexes \ b.indexes, XorInto(a.fragment, b.fragment))

Init == /\ held = None /\ total = 0 /\ parts = Nothing
        /\ msg = None /\ simple = {} /\ mixed = {} /\ queue = {}
        /\ hand = None /\ todo = {} /\ done = None
        /\ busy = FALSE /\ garbled = FALSE
        /\ settled = None /\ out = None

-----------------------------------------------------------------------------
Unwrap(p) == IF p \in Opaque THEN None ELSE p

(* Scanner.offer on anything that is not one of the two wires, and on a    *)
(* UR text that does not parse, which is answered with the message that is *)
(* already whole, if one is.                                               *)
Junk == /\ ~ busy /\ settled = None
        /\ out' \in {None, Unwrap(done)}
        /\ UNCHANGED <<own, ur, settled>>

Hold(p, n, now) == held' = p /\ total' = n /\ parts' = now
Drop == held' = None /\ total' = 0 /\ parts' = Nothing

(* Mutant: another digest does not start the collector again.              *)
OfferPartMerging(p, i, t, b) ==
  /\ ~ busy /\ Watching(p, b = <<p, i>> /\ t = Total[p]) /\ i <= t
  /\ LET n == IF held # None THEN total ELSE t
         now == With(parts, i, b)
     IN  \/ t = n /\ b # Unreadable /\ DOMAIN now # 1 .. n /\ Hold(p, n, now) /\ out' = None
         \/ t = n /\ DOMAIN now = 1 .. n /\ now = Whole(p) /\ Hold(p, n, now) /\ out' = p
         \/ t = n /\ DOMAIN now = 1 .. n /\ now # Whole(p) /\ Drop /\ out' = None
  /\ UNCHANGED <<ur, settled>>

(* Mutant: what was assembled is not compared with its digest.             *)
OfferPartUnproved(p, i, t, b) ==
  /\ ~ busy /\ Watching(p, b = <<p, i>> /\ t = Total[p]) /\ i <= t
  /\ LET n == IF held = p THEN total ELSE t
         now == With(IF held = p THEN parts ELSE Nothing, i, b)
     IN  /\ t = n /\ b # Unreadable
         /\ Hold(p, n, now)
         /\ out' = IF DOMAIN now = 1 .. n THEN p ELSE None
  /\ UNCHANGED <<ur, settled>>

(* Collector.offer: part i of p with the total t and the body b it reads.  *)
OfferPart(p, i, t, b) ==
  /\ ~ busy
  /\ Watching(p, b = <<p, i>> /\ t = Total[p])
  /\ i <= t                                   \* parsePart
  /\ LET same == held = p
         n == IF same THEN total ELSE t
         kept == IF same THEN parts ELSE Nothing
         now == With(kept, i, b)
         taken == t = n /\ b # Unreadable
     IN  \/ ~ taken /\ Hold(p, n, kept) /\ out' = None
         \/ taken /\ DOMAIN now # 1 .. n /\ Hold(p, n, now) /\ out' = None
         \/ taken /\ DOMAIN now = 1 .. n /\ now = Whole(p) /\ Hold(p, n, now) /\ out' = p
         \/ taken /\ DOMAIN now = 1 .. n /\ now # Whole(p) /\ Drop /\ out' = None
  /\ UNCHANGED <<ur, settled>>

Bodies(p, i) == {<<p, i>>, <<p, 0>>, Unreadable}
Totals(p) == {Total[p]} \cup 1 .. MaxTotal

-----------------------------------------------------------------------------
(* UrCollector.offer of a message that fits in one frame. *)
OfferWhole(p) ==
  /\ ~ busy /\ Total[p] = 1 /\ Watching(p, TRUE)
  /\ msg' = p /\ done' = p /\ out' = Unwrap(p)
  /\ simple' = {} /\ mixed' = {} /\ queue' = {} /\ garbled' = FALSE
  /\ UNCHANGED <<own, hand, todo, busy, settled>>

(* UrCollector.offer of a mixture S of the fragments of p: a frame of      *)
(* another message starts the collector again.                             *)
OfferFrame(p, S, bad) ==
  /\ ~ busy /\ Total[p] > 1 /\ Watching(p, ~ bad)
  /\ LET same == msg = p
         f == Content(p, S) \cup IF bad THEN {<<p, 0>>} ELSE {}
     IN  \/ /\ same /\ done # None
            /\ out' = Unwrap(done)
            /\ UNCHANGED ur
         \/ /\ ~ (same /\ done # None)
            /\ bad => ~ (same /\ garbled)     \* bound: one misread a message
            /\ msg' = p /\ done' = None /\ busy' = TRUE
            /\ simple' = IF same THEN simple ELSE {}
            /\ mixed' = IF same THEN mixed ELSE {}
            /\ queue' = {Piece(S, f)}
            /\ garbled' = (bad \/ (same /\ garbled))
            /\ out' = None
            /\ UNCHANGED <<hand, todo>>
  /\ UNCHANGED <<own, settled>>

Looping == busy /\ done = None /\ hand = None

(* Mutant: a new piece is not fed back through the mixtures.               *)
ReduceNothing(x, rest) == queue' = rest /\ mixed' = mixed

(* reduceMixedBy: `rest` is the queue without the piece. *)
ReduceMixedBy(x, rest) ==
  LET reduced == {Reduce(o, x) : o \in mixed}
  IN  /\ queue' = rest \cup {r \in reduced : IsSingle(r)}
      /\ mixed' = {r \in reduced : r.indexes # {} /\ ~ IsSingle(r)}

TakeSimple(x) ==
  /\ Looping /\ x \in queue /\ IsSingle(x)
  /\ \/ /\ x.indexes \subseteq Known
        /\ queue' = queue \ {x}
        /\ UNCHANGED <<simple, mixed, done>>
     \/ /\ ~ (x.indexes \subseteq Known)
        /\ simple' = simple \cup {x}
        /\ \/ /\ Known \cup x.indexes # Indexes(msg)
              /\ ReduceMixedBy(x, queue \ {x})
              /\ UNCHANGED done
           \/ /\ Known \cup x.indexes = Indexes(msg)
              /\ queue' = queue \ {x}
              /\ done' = IF \A y \in simple' : y.fragment = Content(msg, y.indexes)
                         THEN msg ELSE None
              /\ UNCHANGED mixed
  /\ UNCHANGED <<own, msg, hand, todo, busy, garbled, settled, out>>

TakeMixed(x) ==
  /\ Looping /\ x \in queue /\ ~ IsSingle(x)
  /\ queue' = queue \ {x}
  /\ IF \E o \in mixed : o.indexes = x.indexes
     THEN UNCHANGED <<hand, todo>>
     ELSE hand' = x /\ todo' = simple \cup mixed
  /\ UNCHANGED <<own, msg, simple, mixed, done, busy, garbled, settled, out>>

(* takeMixed: the known fragments first, then the other mixtures. *)
ReduceHand(o) ==
  /\ busy /\ hand # None /\ o \in todo
  /\ o \in simple \/ todo \cap simple = {}
  /\ hand' = Reduce(hand, o) /\ todo' = todo \ {o}
  /\ UNCHANGED <<own, msg, simple, mixed, queue, done, busy, garbled, settled, out>>

PlaceHand ==
  /\ busy /\ hand # None /\ todo = {}
  /\ hand' = None
  /\ \/ hand.indexes = {} /\ UNCHANGED <<queue, mixed>>
     \/ IsSingle(hand) /\ queue' = queue \cup {hand} /\ UNCHANGED mixed
     \/ /\ hand.indexes # {} /\ ~ IsSingle(hand)
        /\ LET reduced == {Reduce(o, hand) : o \in mixed}
           IN  /\ queue' = queue \cup {r \in reduced : IsSingle(r)}
               /\ mixed' = {hand} \cup {r \in reduced : r.indexes # {} /\ ~ IsSingle(r)}
  /\ UNCHANGED <<own, msg, simple, todo, done, busy, garbled, settled, out>>

(* Mutant: a message that failed its checksum is kept.                     *)
FinishWithoutReset ==
  /\ busy /\ hand = None /\ (done # None \/ queue = {})
  /\ busy' = FALSE
  /\ out' = IF done # None THEN Unwrap(done) ELSE None
  /\ UNCHANGED <<msg, pool, done, garbled, own, settled>>

(* The end of UrCollector.offer. *)
Finish ==
  /\ busy /\ hand = None
  /\ busy' = FALSE
  /\ \/ /\ done # None
        /\ out' = Unwrap(done)
        /\ UNCHANGED <<msg, pool, done, garbled>>
     \/ /\ done = None /\ queue = {} /\ Known # Indexes(msg)
        /\ out' = None
        /\ UNCHANGED <<msg, pool, done, garbled>>
     \/ /\ done = None /\ queue = {} /\ Known = Indexes(msg)
        /\ msg' = None /\ simple' = {} /\ mixed' = {} /\ garbled' = FALSE
        /\ out' = None
        /\ UNCHANGED <<queue, hand, todo, done>>
  /\ UNCHANGED <<own, settled>>

(* Scanner.reset. *)
Reset == /\ ~ busy /\ settled = None
         /\ Drop
         /\ msg' = None /\ simple' = {} /\ mixed' = {} /\ queue' = {}
         /\ done' = None /\ garbled' = FALSE /\ out' = None
         /\ UNCHANGED <<hand, todo, busy, settled>>

(* The person holds the camera on one animation from here on. *)
Settle(p) == /\ ~ busy /\ settled = None
             /\ settled' = p
             /\ UNCHANGED <<own, ur, out>>

Drain == \/ \E x \in queue : TakeSimple(x) \/ TakeMixed(x)
         \/ \E o \in todo : ReduceHand(o)
         \/ PlaceHand \/ Finish

Next == \/ Junk \/ Reset \/ Drain
        \/ \E p \in Payload : Settle(p)
        \/ \E p \in Own : \E t \in Totals(p), i \in Indexes(p) :
             \E b \in Bodies(p, i) : OfferPart(p, i, t, b)
        \/ \E p \in Ur : \/ OfferWhole(p)
                         \/ \E S \in (SUBSET Indexes(p)) \ {{}}, bad \in BOOLEAN :
                              OfferFrame(p, S, bad)

Spec == Init /\ [][Next]_vars

-----------------------------------------------------------------------------
(* A sender's animation goes round for as long as it is on the glass       *)
(* (wire.ts, advance; UrEncoder.nextPart), so a camera that stays on it    *)
(* reads, sooner or later, one more frame it still needs, and offer runs   *)
(* to its end.                                                             *)
PartNeeded(p, i) == held = p => (i \notin DOMAIN parts \/ DOMAIN parts = Indexes(p))
PieceNeeded(p, S) == msg = p => (~ (S \subseteq Known) \/ done # None)
ReadNeeded(p) ==
  /\ settled = p
  /\ \/ p \in Own /\ \E i \in Indexes(p) :
          PartNeeded(p, i) /\ OfferPart(p, i, Total[p], <<p, i>>)
     \/ p \in Ur /\ OfferWhole(p)
     \/ p \in Ur /\ \E i \in Indexes(p) :
          PieceNeeded(p, {i}) /\ OfferFrame(p, {i}, FALSE)

FairSpec == Spec /\ WF_vars(Drain) /\ SF_vars(\E p \in Payload : ReadNeeded(p))

-----------------------------------------------------------------------------
Complete(p) == Content(p, Indexes(p))
Everything == simple \cup mixed \cup queue \cup todo \cup ({hand} \ {None})

(* Types: the collectors hold bodies and pieces of one payload each.       *)
OwnOK == /\ held \in Own \cup {None} /\ total \in Nat /\ (held = None => total = 0)
         /\ \E D \in SUBSET (1 .. total) :
              parts \in [D -> {<<held, i>> : i \in D \cup {0}}]
UrOK == /\ msg \in Ur \cup {None}
        /\ IF msg = None THEN Everything = {} ELSE Everything \subseteq Piecework(msg)
        /\ done \in {None, msg} /\ busy \in BOOLEAN /\ garbled \in BOOLEAN
TypeOK == OwnOK /\ UrOK /\ settled \in Payload \cup {None} /\ out \in Payload \cup {None}

(* Two animations in front of one camera, frames missed, repeated and in   *)
(* any order: peeling subtracts mixtures from one another, and unless a    *)
(* frame was misread every piece in hand still is exactly the XOR of the   *)
(* fragments of the one message being collected that it is filed under.    *)
PiecesAreTrue ==
  ~ garbled => \A x \in Everything : x.fragment = Content(msg, x.indexes)

(* Between two frames nothing is left to peel: no mixture still holds a    *)
(* fragment that is known, none is empty or single, and a message whose    *)
(* fragments are all known has been handed over or thrown away.            *)
NothingLeftToPeel ==
  (~ busy /\ done = None) =>
    /\ queue = {} /\ hand = None
    /\ msg # None => Known # Indexes(msg)
    /\ \A x \in mixed : x.indexes # {} /\ ~ IsSingle(x) /\ x.indexes \cap Known = {}

(* What holds in the middle of a frame makes NothingLeftToPeel inductive:  *)
(* the mixtures never hold a known fragment while one is missing, and the  *)
(* piece in hand holds none it was already reduced by.                     *)
LoopInv ==
  /\ msg = None => ~ busy /\ done = None
  /\ ~ busy => hand = None
  /\ hand = None => todo = {}
  /\ hand # None => done = None
  /\ todo \subseteq simple \cup mixed
  /\ \A x \in simple : IsSingle(x)
  /\ \A x \in mixed : x.indexes # {} /\ ~ IsSingle(x)
  /\ (msg # None /\ Known # Indexes(msg)) => \A x \in mixed : x.indexes \cap Known = {}
  /\ hand # None => \A x \in simple \ todo : x.indexes \cap hand.indexes = {}
  /\ (done # None /\ Total[msg] # 1) =>
       Known = Indexes(msg) /\ \A x \in simple : x.fragment = Content(msg, x.indexes)
  /\ busy => out = None /\ Total[msg] # 1

IInv == TypeOK /\ PiecesAreTrue /\ NothingLeftToPeel /\ LoopInv

(* UrCollector.offer loops while its queue holds a piece, and takes pieces *)
(* apart into others that it feeds back.  Every turn of the loop comes     *)
(* nearer to its end, in the lexicographic order of what it knows, the     *)
(* mixtures it still has to take, the piece in hand, what that piece is    *)
(* still to be reduced by, and the rest of the queue.                      *)
Shrinks(S, T) == T \subseteq S /\ T # S
Mixtures == {x \in queue : ~ IsSingle(x)}
Nearer ==
  \/ Shrinks(Known', Known)
  \/ Known' = Known /\ Shrinks(Mixtures, Mixtures')
  \/ Known' = Known /\ Mixtures' = Mixtures /\ hand # None /\ hand' = None
  \/ Known' = Known /\ Mixtures' = Mixtures /\ hand # None /\ hand' # None /\ Shrinks(todo, todo')
  \/ Known' = Known /\ Mixtures' = Mixtures /\ hand = None /\ hand' = None /\ Shrinks(queue, queue')
OfferAdvances == [][busy => \/ busy' /\ msg' = msg /\ Nearer
                            \/ ~ busy']_vars

(* What is handed over is the payload the last frame belongs to, and only  *)
(* when a frame carrying each piece of it was read and kept since the      *)
(* collector last started: parts of two payloads are never joined.         *)
Proven == {x \in simple : x.fragment = Content(msg, x.indexes)}
Covered == CASE done = None -> UNION {x.indexes : x \in Everything}
             [] done # None /\ Total[msg] = 1 -> Indexes(msg)
             [] OTHER -> UNION {x.indexes : x \in Proven}
Kept == {<<held, i>> : i \in {j \in DOMAIN parts : parts[j] = <<held, j>>}} \cup
        (IF msg = None THEN {} ELSE Content(msg, Covered))
Relayed == INSTANCE Transfer WITH Pieces <- [p \in Payload |-> Complete(p)],
                                  kept <- Kept, got <- out
KeepsTheRelay == Relayed!Relay

(* An animation held long enough is read, whatever was seen before it. One *)
(* state is excepted: a first frame whose total was misread makes the      *)
(* collector refuse every right frame of the same payload (envelope.ts,    *)
(* line 348) until the scan is started again.                              *)
Wedged(p) == held = p /\ total # Total[p]
FramesAddUp ==
  \A p \in Payload \ Opaque : (settled = p /\ ~ Wedged(p)) ~> (out = p)
=============================================================================
