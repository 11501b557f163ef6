-------------------------- MODULE DiscoveryProofs ---------------------------
(***************************************************************************)
(* Proofs about Discovery, for any gap, batch, cap and number of coins.    *)
(*                                                                         *)
(* IInv follows a walk branch by branch: what was asked and used is in     *)
(* hits, no batch behind it held a gap (Walked so far), and a finished     *)
(* branch holds what the gap limit reaches and nothing else (BranchIsDone).*)
(* Nothing is assumed of how many drafts are prepared between refreshes.   *)
(***************************************************************************)
EXTENDS Discovery, FiniteSetTheorems, SequenceTheorems, TLAPS

(* Below n of a branch, no run of Gap addresses without one of U. *)
NoGapTo(b, n, U) == \A j \in Gap .. n : \E k \in j - Gap .. j - 1 : <<b, k>> \in U

(* Every coin a walk owes was at an address used, within the gap, when it  *)
(* began.                                                                  *)
OwedAreReached(owed, began) ==
  \A c \in owed : c \in DOMAIN coins /\ coins[c].at \in began /\ WithinGap(coins[c].at, began)

BranchIsDone(b) ==
  /\ \A a \in scan.hits : a[1] = b => a[2] < Longest /\ WithinGap(a, scan.hits)
  /\ ~ scan.truncated => \A a \in scan.began : (a[1] = b /\ WithinGap(a, scan.began)) => a \in scan.hits

WalkOK ==
  /\ scan.hits \subseteq Used /\ scan.began \subseteq Used /\ scan.coins = {}
  /\ OwedAreReached(scan.owed, scan.began)
  /\ \A a \in scan.hits : a[1] = scan.branch => a[2] < Last
  /\ \A a \in scan.began : (/\ a[1] = scan.branch
                            /\ a[2] < scan.index \/ a \in BatchFrom(scan.branch, scan.index) \ scan.left)
                              => a \in scan.hits
  /\ NoGapTo(scan.branch, scan.index, scan.hits)
  /\ scan.branch = Receive => ~ scan.truncated /\ \A a \in scan.hits : a[1] = Receive
  /\ scan.branch = Change => BranchIsDone(Receive)

FetchOK ==
  /\ scan.hits \subseteq Used /\ scan.began \subseteq Used
  /\ OwedAreReached(scan.owed, scan.began)
  /\ BranchIsDone(Receive) /\ BranchIsDone(Change)
  /\ \A c \in scan.coins : c \in DOMAIN coins /\ coins[c].at \in scan.hits
  /\ ~ scan.truncated => \A c \in scan.owed \cap Unspent : coins[c].at \notin scan.left => c \in scan.coins

(* What is known of a view, whatever the chain does after it.              *)
ViewOK(v) ==
  /\ Sound(v) /\ v.used \subseteq Used /\ v.owed \subseteq v.coins
  /\ \A a \in v.began : (a[1] = Change /\ WithinGap(a, v.began)) => a \in v.used

IInv ==
  /\ TypeOK /\ ViewOK(snap) /\ ChangeStaysInReach
  /\ Walking => WalkOK
  /\ Fetching => FetchOK
  /\ (scan # None /\ scan.phase = "rest") => ViewOK(scan.view)

-----------------------------------------------------------------------------
(* A finite set of numbers that is not empty has a greatest one.           *)
LEMMA Greatest ==
  ASSUME NEW S \in SUBSET Nat, IsFiniteSet(S), S # {}
  PROVE  \E m \in S : \A n \in S : n <= m
<1> DEFINE Above(i) == {k \in S : k > i}  T == {Above(m) : m \in S}
<1>1. IsWellFoundedOn(StrictSubsetOrdering(S), SUBSET S)
  BY FS_StrictSubsetOrderingWellFounded, FS_FiniteSubsetsOfFinite
<1>2. T \subseteq SUBSET S /\ T # {}
  OBVIOUS
<1>3. PICK x \in T : \A y \in T : ~ (<<y, x>> \in StrictSubsetOrdering(S))
  <2> HIDE DEF T
  <2> QED BY <1>1, <1>2, WFMin
<1>4. PICK m \in S : x = Above(m)
  OBVIOUS
<1>5. ASSUME NEW n \in S, n > m PROVE FALSE
  <2>1. Above(n) \in T
    OBVIOUS
  <2>2. Above(n) \subseteq x /\ n \in x /\ n \notin Above(n) /\ x \subseteq S
    <3>1. n \in Nat /\ m \in Nat /\ S \subseteq Nat
      OBVIOUS
    <3>2. ASSUME NEW j \in S, j > n PROVE j > m
      BY <1>5, <3>1, <3>2
    <3>3. n \in Above(m)
      BY <1>5
    <3>4. ~ (n > n)
      BY <3>1
    <3>5. n \notin Above(n)
      BY <3>4
    <3>6. Above(n) \subseteq Above(m)
      BY <3>2
    <3> QED BY <1>4, <3>3, <3>5, <3>6
  <2>3. <<Above(n), x>> \in StrictSubsetOrdering(S)
    BY <2>2 DEF StrictSubsetOrdering
  <2> QED BY <1>3, <2>1, <2>3
<1> QED BY <1>5

(* More used addresses never take an address out of reach. *)
LEMMA ReachGrows ==
  ASSUME NEW a, NEW U, NEW V, U \subseteq V, WithinGap(a, U)
  PROVE  WithinGap(a, V)
BY DEF WithinGap

(* The chain only adds outputs and spends them; what walks and views say   *)
(* of it stays true.                                                       *)
Grows ==
  /\ coins' \in Seq([at : Address, spent : BOOLEAN]) /\ Len(coins') <= MaxCoins
  /\ \A c \in DOMAIN coins : /\ c \in DOMAIN coins' /\ coins'[c].at = coins[c].at
                             /\ coins[c].spent => coins'[c].spent

LEMMA ChainKeeps ==
  ASSUME IInv, Grows, UNCHANGED <<snap, ahead, draft, scan>>
  PROVE  IInv'
<1> USE DiscoveryAssumption
<1>1. Used \subseteq Used'
  BY DEF Used, Grows
<1>2. \A c \in DOMAIN coins : c \in Unspent' => c \in Unspent
  BY DEF Unspent, Grows
<1>3. ASSUME NEW v, Sound(v) PROVE Sound(v)'
  BY <1>3 DEF Sound, Grows
<1>4. ASSUME NEW v, ViewOK(v) PROVE ViewOK(v)'
  BY <1>1, <1>3, <1>4 DEF ViewOK
<1>5. TypeOK'
  <2>1. DOMAIN coins \subseteq DOMAIN coins'
    BY DEF Grows
  <2> QED BY <1>1, <1>3, <2>1 DEF IInv, TypeOK, Grows, Walking, Fetching
<1>6. ViewOK(snap)' /\ ((scan' # None /\ scan'.phase = "rest") => ViewOK(scan.view)')
  BY <1>4 DEF IInv
<1>7. ChangeStaysInReach'
  BY <1>1, ReachGrows DEF IInv, ChangeStaysInReach
<1>8. ASSUME NEW o, NEW b, OwedAreReached(o, b) PROVE OwedAreReached(o, b)'
  BY <1>8 DEF OwedAreReached, Grows
<1>9. Walking' => WalkOK'
  <2> SUFFICES ASSUME Walking PROVE WalkOK'
    BY DEF Walking
  <2> QED BY <1>1, <1>8 DEF IInv, WalkOK, BranchIsDone, NoGapTo, WithinGap, Last
<1>10. Fetching' => FetchOK'
  <2> SUFFICES ASSUME Fetching PROVE FetchOK'
    BY DEF Fetching
  <2>1. FetchOK
    BY DEF IInv
  <2>2. ~ scan.truncated => \A c \in scan.owed \cap Unspent' : coins'[c].at \notin scan.left => c \in scan.coins
    BY <1>2, <2>1 DEF FetchOK, OwedAreReached, Grows
  <2>3. \A c \in scan.coins : c \in DOMAIN coins' /\ coins'[c].at \in scan.hits
    BY <2>1 DEF FetchOK, Grows
  <2> QED BY <1>1, <1>8, <2>1, <2>2, <2>3 DEF FetchOK, BranchIsDone, WithinGap
<1> QED
  BY <1>5, <1>6, <1>7, <1>9, <1>10 DEF IInv

LEMMA Paid == ASSUME IInv, NEW i \in Handed, Pay(i) PROVE IInv'
<1> USE DiscoveryAssumption
<1> DEFINE T == [at : Address, spent : BOOLEAN]
<1>1. coins \in Seq(T) /\ Len(coins) < MaxCoins /\ coins' = Append(coins, Out(<<Receive, i>>))
  BY DEF Pay, IInv, TypeOK
<1>2. Out(<<Receive, i>>) \in T /\ Out(<<Receive, i>>).at = <<Receive, i>>
  BY DEF Out, Address, Receive
<1>3. /\ coins' \in Seq(T) /\ Len(coins') = Len(coins) + 1 /\ Len(coins) \in Nat
      /\ \A c \in 1 .. Len(coins) : coins'[c] = coins[c]
      /\ coins'[Len(coins) + 1] = Out(<<Receive, i>>)
      /\ DOMAIN coins' = 1 .. Len(coins) + 1 /\ DOMAIN coins = 1 .. Len(coins)
  BY <1>1, <1>2, AppendProperties, LenProperties
<1>4. Grows
  BY <1>1, <1>3 DEF Grows
<1> QED BY <1>4, ChainKeeps DEF Pay

(* A signed draft is published: its inputs are spent, and its change lands *)
(* on the address the draft named.                                         *)
LEMMA Published == ASSUME IInv, Publish PROVE IInv'
<1> USE DiscoveryAssumption
<1> DEFINE T == [at : Address, spent : BOOLEAN]
           n == Len(coins)
           paid == [c \in DOMAIN coins |-> [coins[c] EXCEPT !.spent = @ \/ c \in draft.inputs]]
<1>1. coins \in Seq(T) /\ n \in Nat /\ n <= MaxCoins /\ DOMAIN coins = 1 .. n /\ draft # None /\ draft \in Draft
  BY LenProperties DEF Publish, IInv, TypeOK
<1>2. ASSUME NEW c \in 1 .. n
      PROVE  /\ paid[c] \in T /\ paid[c].at = coins[c].at
             /\ coins[c].spent => paid[c].spent
  <2>1. coins[c] \in T
    BY <1>1, ElementOfSeq
  <2> DEFINE s == coins[c].spent \/ c \in draft.inputs
  <2>2. s \in BOOLEAN /\ (coins[c].spent => s)
    OBVIOUS
  <2>3. paid[c] = [coins[c] EXCEPT !.spent = s]
    BY <1>1
  <2> HIDE DEF s, paid
  <2>4. paid[c] = [at |-> coins[c].at, spent |-> s]
    BY <2>1, <2>3
  <2> QED BY <2>1, <2>2, <2>4
<1>3. paid \in [1 .. n -> T]
  <2> HIDE DEF T
  <2>1. paid = [c \in 1 .. n |-> paid[c]]
    BY <1>1
  <2> HIDE DEF paid
  <2> QED BY <1>2, <2>1
<1> HIDE DEF paid, T
<1>4. paid \in Seq(T) /\ Len(paid) = n /\ DOMAIN paid = 1 .. n
  BY <1>1, <1>3, SeqDef, LenProperties
<1>5. coins' = paid \/ /\ draft.change # None /\ n < MaxCoins
                       /\ coins' = Append(paid, Out(draft.change))
  BY DEF Publish, paid
<1>6. CASE coins' = paid
  <2>1. Grows
    BY <1>1, <1>2, <1>4, <1>6 DEF Grows, T
  <2> QED BY <2>1, ChainKeeps DEF Publish
<1>7. CASE draft.change # None /\ n < MaxCoins /\ coins' = Append(paid, Out(draft.change))
  <2>1. Out(draft.change) \in T /\ Out(draft.change).at = draft.change
    BY <1>1, <1>7 DEF Out, T, Draft
  <2>2. /\ coins' \in Seq(T) /\ Len(coins') = n + 1 /\ DOMAIN coins' = 1 .. n + 1
        /\ \A c \in 1 .. n : coins'[c] = paid[c]
        /\ coins'[n + 1] = Out(draft.change)
    BY <1>4, <1>7, <2>1, AppendProperties, LenProperties
  <2>3. Grows
    BY <1>1, <1>2, <1>7, <2>2 DEF Grows, T
  <2> QED BY <2>3, ChainKeeps DEF Publish
<1> QED BY <1>5, <1>6, <1>7

-----------------------------------------------------------------------------
(* Steps of a walk change nothing but the walk. *)
LEMMA ScanKeeps ==
  ASSUME IInv, UNCHANGED <<coins, snap, ahead, draft>>, scan' \in Scan,
         Walking' => /\ WalkOK' /\ scan'.index < Longest
                     /\ scan'.left \subseteq BatchFrom(scan'.branch, scan'.index),
         Fetching' => FetchOK' /\ scan'.left \subseteq scan'.hits,
         scan'.phase = "rest" => ViewOK(scan.view)'
  PROVE  IInv'
<1> USE DiscoveryAssumption
<1>1. Used' = Used
  BY DEF Used
<1>2. Sound(snap)' /\ ViewOK(snap)'
  BY <1>1 DEF IInv, ViewOK, Sound
<1>3. TypeOK'
  BY <1>1, <1>2 DEF IInv, TypeOK, WalkOK, FetchOK, ViewOK
<1> QED
  BY <1>1, <1>2, <1>3 DEF IInv, ChangeStaysInReach, WithinGap

LEMMA WalkBegins == ASSUME IInv, BeginRefresh PROVE IInv'
<1> USE DiscoveryAssumption
<1> DEFINE owed == {c \in Unspent : WithinGap(coins[c].at, Used)}
<1>1. /\ UNCHANGED <<coins, snap, ahead, draft>>
      /\ scan' = [phase |-> "walk", branch |-> Receive, index |-> 0, left |-> BatchFrom(Receive, 0),
                  hits |-> {}, coins |-> {}, truncated |-> FALSE, began |-> Used, owed |-> owed]
  BY DEF BeginRefresh
<1>2. Used \subseteq Address /\ owed \subseteq Coin /\ BatchFrom(Receive, 0) \subseteq Address
  <2>1. DOMAIN coins \subseteq Coin /\ \A c \in DOMAIN coins : coins[c].at \in Address
    <3>1. DOMAIN coins = 1 .. Len(coins) /\ Len(coins) \in Nat /\ Len(coins) <= MaxCoins
      BY LenProperties DEF IInv, TypeOK
    <3>2. \A c \in 1 .. Len(coins) : coins[c] \in [at : Address, spent : BOOLEAN]
      BY ElementOfSeq DEF IInv, TypeOK
    <3> QED BY <3>1, <3>2 DEF Coin
  <2> QED BY <2>1 DEF Used, Unspent, BatchFrom, Address, Receive
<1>3. scan' \in Scan
  BY <1>1, <1>2 DEF Scan, Walk, Receive
<1>4. WalkOK'
  <2>1. /\ scan'.hits = {} /\ scan'.began = Used /\ scan'.coins = {} /\ scan'.owed = owed
        /\ scan'.branch = Receive /\ scan'.index = 0 /\ ~ scan'.truncated
        /\ scan'.left = BatchFrom(Receive, 0)
    BY <1>1
  <2>2. Used' = Used
    BY <1>1 DEF Used
  <2>3. OwedAreReached(owed, Used)'
    <3>1. \A c \in owed : c \in DOMAIN coins /\ coins[c].at \in Used /\ WithinGap(coins[c].at, Used)
      BY DEF Unspent, Used
    <3> QED BY <1>1, <2>2, <3>1 DEF OwedAreReached, Unspent, WithinGap
  <2>4. \A a \in Used : ~ (a[2] < 0)
    BY <1>2 DEF Address
  <2>6. NoGapTo(Receive, 0, {})
    BY DEF NoGapTo
  <2>7. OwedAreReached(scan.owed, scan.began)'
    BY <1>1, <2>1, <2>2, <2>3 DEF OwedAreReached, WithinGap, Unspent
  <2> QED
    BY <2>1, <2>2, <2>4, <2>6, <2>7 DEF WalkOK, NoGapTo, Receive, Change
<1> QED
  BY <1>1, <1>2, <1>3, <1>4, ScanKeeps DEF Walking, Fetching, Receive

LEMMA Answered == ASSUME IInv, NEW a \in scan.left, Answer(a) PROVE IInv'
<1> USE DiscoveryAssumption
<1>1. /\ UNCHANGED <<coins, snap, ahead, draft>> /\ scan \in Walk /\ scan.phase = "walk" /\ WalkOK
      /\ scan' = [scan EXCEPT !.left = @ \ {a}, !.hits = @ \cup ({a} \cap Used)]
      /\ scan.index < Longest /\ scan.left \subseteq BatchFrom(scan.branch, scan.index)
  BY DEF Answer, Walking, IInv, TypeOK, Scan
<1>2. a \in Address /\ a[1] = scan.branch /\ a[2] < Last /\ a \in BatchFrom(scan.branch, scan.index)
  <2>1. a \in BatchFrom(scan.branch, scan.index) /\ a \in Address
    BY <1>1 DEF Walk
  <2>2. a[1] = scan.branch /\ a[2] \in scan.index .. scan.index + Batch - 1 /\ a[2] < Longest
    BY <2>1 DEF BatchFrom
  <2> QED BY <1>1, <2>1, <2>2 DEF Last, Walk
<1>3. /\ scan' \in Walk /\ scan'.phase = scan.phase /\ scan'.branch = scan.branch
      /\ scan'.index = scan.index /\ scan'.coins = scan.coins /\ scan'.truncated = scan.truncated
      /\ scan'.began = scan.began /\ scan'.owed = scan.owed
      /\ scan'.left = scan.left \ {a} /\ scan'.hits = scan.hits \cup ({a} \cap Used)
  BY <1>1, <1>2 DEF Walk
<1>4. WalkOK'
  <2>1. Used' = Used /\ Last' = Last
    BY <1>1, <1>3 DEF Used, Last
  <2>2. scan'.hits \subseteq Used /\ scan.hits \subseteq scan'.hits /\ scan.began \subseteq Used
    BY <1>1, <1>3 DEF WalkOK
  <2>3. \A b \in scan'.hits : b[1] = scan.branch => b[2] < Last
    BY <1>1, <1>2, <1>3 DEF WalkOK
  <2>4. \A b \in scan.began : (/\ b[1] = scan.branch
                               /\ \/ b[2] < scan.index
                                  \/ b \in BatchFrom(scan.branch, scan.index) \ scan'.left)
                                 => b \in scan'.hits
    BY <1>1, <1>2, <1>3, <2>2 DEF WalkOK
  <2>5. NoGapTo(scan.branch, scan.index, scan'.hits)
    BY <1>1, <2>2 DEF WalkOK, NoGapTo
  <2>6. scan.branch = Receive => ~ scan.truncated /\ \A b \in scan'.hits : b[1] = Receive
    BY <1>1, <1>2, <1>3 DEF WalkOK
  <2>7. scan.branch = Change => BranchIsDone(Receive)'
    <3> SUFFICES ASSUME scan.branch = Change PROVE BranchIsDone(Receive)'
      OBVIOUS
    <3>1. BranchIsDone(Receive)
      BY <1>1 DEF WalkOK
    <3>2. \A b \in scan'.hits : b[1] = Receive => b \in scan.hits
      BY <1>2, <1>3 DEF Receive, Change
    <3> QED BY <1>3, <2>2, <3>1, <3>2, ReachGrows DEF BranchIsDone, WithinGap
  <2>8. OwedAreReached(scan.owed, scan.began)'
    BY <1>1, <1>3 DEF WalkOK, OwedAreReached, WithinGap
  <2> QED
    BY <1>1, <1>3, <2>1, <2>2, <2>3, <2>4, <2>5, <2>6, <2>7, <2>8 DEF WalkOK, NoGapTo, BatchFrom
<1> QED
  BY <1>1, <1>3, <1>4, ScanKeeps DEF Walking, Fetching, Scan

(* A batch answered in full: whether or not the gap is closed in it, the   *)
(* branch so far holds what the gap limit reaches, and nothing else.       *)
LEMMA BatchEnds ==
  ASSUME IInv, Walking, scan.left = {}
  PROVE  /\ Last \in Nat /\ Last <= Longest /\ scan.index < Last
         /\ Stops = {} => /\ NoGapTo(scan.branch, Last, scan.hits)
                          /\ \A a \in scan.hits : a[1] = scan.branch => WithinGap(a, scan.hits)
         /\ \A a \in scan.began : (a[1] = scan.branch /\ a[2] < Last) => a \in scan.hits
         /\ Stops # {} =>
              /\ \A a \in Walked : a[1] = scan.branch => WithinGap(a, Walked)
              /\ \A a \in scan.began : (a[1] = scan.branch /\ WithinGap(a, scan.began)) => a \in Walked
<1> USE DiscoveryAssumption
<1> DEFINE b == scan.branch  i == scan.index
<1>1. /\ scan \in Walk /\ WalkOK /\ i \in Nat /\ i < Longest /\ scan.hits \subseteq Address
      /\ scan.began \subseteq Address
  BY DEF Walking, IInv, TypeOK, Scan, Walk
<1>2. Last \in Nat /\ Last <= Longest /\ i < Last /\ Last <= i + Batch
  BY <1>1 DEF Last
<1>3. ASSUME NEW a \in scan.began, a[1] = b, a[2] < Last PROVE a \in scan.hits
  <2>1. a \in Address
    BY <1>1
  <2>2. a[2] < i \/ a \in BatchFrom(b, i)
    <3>1. CASE a[2] < i
      BY <3>1
    <3>2. CASE ~ (a[2] < i)
      <4>1. a[2] \in i .. i + Batch - 1 /\ a[2] < Longest
        BY <1>1, <1>2, <1>3, <2>1, <3>2 DEF Address
      <4>2. a = <<b, a[2]>>
        BY <1>3, <2>1 DEF Address
      <4> QED BY <4>1, <4>2 DEF BatchFrom
    <3> QED BY <3>1, <3>2
  <2> QED BY <1>1, <1>3, <2>2 DEF WalkOK
<1>4. ASSUME NEW n \in Gap .. Last, n \notin Stops
      PROVE  \E k \in n - Gap .. n - 1 : <<b, k>> \in scan.hits
  <2>1. CASE n <= i
    BY <1>1, <1>4, <2>1 DEF WalkOK, NoGapTo
  <2>2. CASE i < n
    BY <1>1, <1>2, <1>4, <2>2 DEF Stops, Closes
  <2> QED BY <1>1, <1>2, <2>1, <2>2
<1>5. ASSUME NEW a \in scan.hits, a[1] = b PROVE a[2] \in Nat /\ a[2] < Last
  BY <1>1, <1>5 DEF WalkOK, Address
<1>6. ASSUME Stops = {}
      PROVE  /\ NoGapTo(b, Last, scan.hits)
             /\ \A a \in scan.hits : a[1] = b => WithinGap(a, scan.hits)
  <2>1. NoGapTo(b, Last, scan.hits)
    BY <1>4, <1>6 DEF NoGapTo
  <2>2. ASSUME NEW a \in scan.hits, a[1] = b PROVE WithinGap(a, scan.hits)
    <3>1. a[2] \in Nat /\ a[2] < Last
      BY <1>5, <2>2
    <3>2. \A n \in Gap .. a[2] : n \in Gap .. Last
      BY <1>2, <3>1
    <3> QED BY <2>1, <2>2, <3>2 DEF NoGapTo, WithinGap
  <2> QED BY <2>1, <2>2
<1>7. ASSUME NEW a \in Walked, a[1] = b PROVE WithinGap(a, Walked)
  <2>1. a \in scan.hits /\ a[2] \in Nat /\ a[2] < Last /\ \A n \in Stops : a[2] < n
    BY <1>5, <1>7 DEF Walked
  <2>2. ASSUME NEW n \in Gap .. a[2]
        PROVE  \E k \in n - Gap .. n - 1 : <<a[1], k>> \in Walked
    <3>1. n \in Gap .. Last /\ n \notin Stops
      <4>1. n \in Int /\ n <= a[2] /\ Gap <= n
        BY <2>1, <2>2
      <4>2. \A s \in Stops : s \in Int
        BY <1>1, <1>2 DEF Stops
      <4> QED BY <1>2, <2>1, <4>1, <4>2
    <3>2. PICK k \in n - Gap .. n - 1 : <<b, k>> \in scan.hits
      BY <1>4, <3>1
    <3>3. \A s \in Stops : k < s
      <4>1. \A s \in Stops : s \in Int
        BY <1>1, <1>2 DEF Stops
      <4> QED BY <2>1, <3>1, <4>1
    <3> QED BY <1>7, <3>2, <3>3 DEF Walked
  <2> QED BY <2>2 DEF WithinGap
<1>8. ASSUME NEW a \in scan.began, a[1] = b, WithinGap(a, scan.began), Stops # {}
      PROVE  a \in Walked
  <2>1. a \in Address /\ a[2] \in Nat
    BY <1>1 DEF Address
  <2>2. ASSUME NEW s \in Stops PROVE a[2] < s
    <3>1. s \in i + 1 .. Last /\ s >= Gap /\ \A k \in s - Gap .. s - 1 : <<b, k>> \notin scan.hits
      BY <2>2 DEF Stops, Closes
    <3>2. CASE s <= a[2]
      <4>1. PICK k \in s - Gap .. s - 1 : <<b, k>> \in scan.began
        BY <1>1, <1>2, <1>8, <2>1, <3>1, <3>2 DEF WithinGap
      <4>2. k < Last
        BY <1>1, <1>2, <3>1
      <4> QED BY <1>3, <3>1, <4>1, <4>2
    <3> QED BY <1>1, <1>2, <2>1, <3>1, <3>2
  <2>3. a[2] < Last
    <3>1. PICK s \in Stops : TRUE
      BY <1>8
    <3>2. a[2] < s /\ s <= Last /\ s \in Int
      BY <1>1, <1>2, <2>2 DEF Stops
    <3> QED BY <1>2, <2>1, <3>2
  <2> QED BY <1>3, <1>8, <2>2, <2>3 DEF Walked
<1> QED BY <1>2, <1>3, <1>6, <1>7, <1>8

(* On to the next batch, the other branch, or the coins.                   *)
LEMMA BatchClosed == ASSUME IInv, CloseBatch PROVE IInv'
<1> USE DiscoveryAssumption
<1> DEFINE closed == Stops # {}
           hits == IF closed THEN Walked ELSE scan.hits
           over == closed \/ Last >= Longest
           onward == [scan EXCEPT !.index = Last, !.left = BatchFrom(scan.branch, Last)]
           other == [scan EXCEPT !.branch = Change, !.index = 0, !.left = BatchFrom(Change, 0),
                                 !.hits = hits, !.truncated = ~ closed]
           fetch == [scan EXCEPT !.phase = "coins", !.left = hits, !.hits = hits,
                                 !.truncated = @ \/ ~ closed]
<1>1. /\ UNCHANGED <<coins, snap, ahead, draft>> /\ scan \in Walk /\ scan.phase = "walk" /\ WalkOK
      /\ Walking /\ scan.left = {} /\ scan.index < Longest /\ scan.index \in Nat
  BY DEF CloseBatch, Walking, IInv, TypeOK, Scan, Walk
<1>2. \/ ~ over /\ scan' = onward
      \/ over /\ scan.branch = Receive /\ scan' = other
      \/ over /\ scan.branch # Receive /\ scan' = fetch
  BY DEF CloseBatch
<1>3. /\ Last \in Nat /\ Last <= Longest /\ scan.index < Last
      /\ ~ closed => /\ NoGapTo(scan.branch, Last, scan.hits)
                     /\ \A a \in scan.hits : a[1] = scan.branch => WithinGap(a, scan.hits)
      /\ \A a \in scan.began : (a[1] = scan.branch /\ a[2] < Last) => a \in scan.hits
      /\ closed => /\ \A a \in hits : a[1] = scan.branch => WithinGap(a, hits)
                   /\ \A a \in scan.began :
                        (a[1] = scan.branch /\ WithinGap(a, scan.began)) => a \in hits
  BY <1>1, BatchEnds
<1>4. /\ hits \subseteq scan.hits /\ hits \in SUBSET Address /\ closed \in BOOLEAN
      /\ \A a \in scan.hits : a[1] # scan.branch => a \in hits
  BY <1>1 DEF Walked, Walk
<1> HIDE DEF closed, hits
<1>5. \A i \in Nat : \A br \in {Receive, Change} : BatchFrom(br, i) \in SUBSET Address
  BY DEF BatchFrom, Address
<1>6. Used' = Used
  BY <1>1 DEF Used
<1>7. /\ OwedAreReached(scan.owed, scan.began)
      /\ scan.hits \subseteq Used /\ scan.began \subseteq Used /\ scan.coins = {}
      /\ scan.began \subseteq Address /\ scan.hits \subseteq Address
  BY <1>1 DEF WalkOK, Walk
<1>8. CASE ~ over /\ scan' = onward
  <2>1. /\ scan' \in Walk /\ scan'.phase = "walk" /\ scan'.index = Last
        /\ scan'.left = BatchFrom(scan.branch, Last) /\ scan'.hits = scan.hits
        /\ scan'.branch = scan.branch /\ scan'.coins = scan.coins /\ scan'.began = scan.began
        /\ scan'.owed = scan.owed /\ scan'.truncated = scan.truncated
    BY <1>1, <1>3, <1>5, <1>8 DEF Walk
  <2>2. ~ closed /\ Last < Longest
    BY <1>3, <1>8
  <2>3. Last' \in Nat /\ Last < Last'
    BY <1>3, <2>1, <2>2 DEF Last
  <2>4. \A a \in scan.hits : a[1] = scan.branch => a[2] < Last'
    BY <1>1, <1>3, <1>7, <2>3 DEF WalkOK, Address
  <2>5. \A a \in scan.began : (a[1] = scan.branch /\ a[2] < Last) => a \in scan.hits
    BY <1>3
  <2>6. scan.branch = Change => BranchIsDone(Receive)'
    BY <1>1, <2>1 DEF WalkOK, BranchIsDone, WithinGap
  <2>7. OwedAreReached(scan.owed, scan.began)'
    BY <1>1, <1>7, <2>1 DEF WithinGap, OwedAreReached
  <2>8. NoGapTo(scan.branch, Last, scan.hits)
    BY <1>3, <2>2
  <2>9. scan.branch = Receive => ~ scan.truncated /\ \A a \in scan.hits : a[1] = Receive
    BY <1>1 DEF WalkOK
  <2>10. WalkOK'
    <3>1. NoGapTo(scan.branch, scan.index, scan.hits)'
      BY <2>1, <2>8 DEF NoGapTo
    <3> QED
      BY <1>6, <1>7, <2>1, <2>4, <2>5, <2>6, <2>7, <2>9, <3>1 DEF WalkOK
  <2> QED
    BY <1>1, <2>1, <2>2, <2>10, ScanKeeps DEF Walking, Fetching, Scan
<1>9. CASE over /\ scan.branch = Receive /\ scan' = other
  <2>1. /\ scan' \in Walk /\ scan'.phase = "walk" /\ scan'.index = 0
        /\ scan'.left = BatchFrom(Change, 0) /\ scan'.hits = hits
        /\ scan'.branch = Change /\ scan'.coins = scan.coins /\ scan'.began = scan.began
        /\ scan'.owed = scan.owed /\ scan'.truncated = ~ closed
    <3>1. BatchFrom(Change, 0) \in SUBSET Address /\ (~ closed) \in BOOLEAN
      BY <1>5
    <3> QED BY <1>1, <1>4, <1>9, <3>1 DEF Walk
  <2>2. \A a \in scan.hits : a[1] = Receive /\ a[2] < Last
    BY <1>1, <1>9 DEF WalkOK
  <2>3. \A a \in hits : a[2] < Longest /\ WithinGap(a, hits)
    <3>1. \A a \in hits : WithinGap(a, hits)
      BY <1>3, <1>4, <1>9, <2>2 DEF hits
    <3> QED BY <1>3, <1>4, <1>7, <2>2, <3>1 DEF Address
  <2>4. BranchIsDone(Receive)'
    <3>1. closed => \A a \in scan.began : (a[1] = Receive /\ WithinGap(a, scan.began)) => a \in hits
      BY <1>3, <1>9
    <3> QED BY <2>1, <2>3, <3>1 DEF BranchIsDone, WithinGap
  <2>5. OwedAreReached(scan.owed, scan.began)'
    BY <1>1, <1>7, <2>1 DEF WithinGap, OwedAreReached
  <2>6. \A a \in scan.began : ~ (a[2] < 0)
    BY <1>7 DEF Address
  <2>7. NoGapTo(Change, 0, hits)
    BY DEF NoGapTo
  <2>8. WalkOK'
    <3>1. NoGapTo(scan.branch, scan.index, scan.hits)'
      BY <2>1, <2>7 DEF NoGapTo
    <3>2. \A a \in hits : a[1] # Change
      BY <1>4, <2>2 DEF Receive, Change
    <3> QED
      BY <1>4, <1>6, <1>7, <2>1, <2>4, <2>5, <2>6, <3>1, <3>2 DEF WalkOK, Receive, Change
  <2> QED
    BY <1>1, <2>1, <2>8, ScanKeeps DEF Walking, Fetching, Scan
<1>10. CASE over /\ scan.branch # Receive /\ scan' = fetch
  <2>1. scan.branch = Change /\ scan.truncated \in BOOLEAN
    BY <1>1, <1>10 DEF Walk
  <2> DEFINE truncated == scan.truncated \/ ~ closed
  <2>2. /\ scan' \in Walk /\ scan'.phase = "coins" /\ scan'.left = hits /\ scan'.hits = hits
        /\ scan'.coins = scan.coins /\ scan'.began = scan.began
        /\ scan'.owed = scan.owed /\ scan'.truncated = truncated
    <3>1. truncated \in BOOLEAN
      OBVIOUS
    <3>2. scan' = [scan EXCEPT !.phase = "coins", !.left = hits, !.hits = hits, !.truncated = truncated]
      BY <1>10
    <3> HIDE DEF truncated
    <3> QED BY <1>1, <1>4, <3>1, <3>2 DEF Walk
  <2>3. BranchIsDone(Receive)
    BY <1>1, <2>1 DEF WalkOK
  <2>4. BranchIsDone(Receive)'
    <3>1. \A a \in scan.hits : a[1] = Receive => a \in hits
      BY <1>4, <2>1 DEF Receive, Change
    <3>2. ASSUME NEW a \in hits, a[1] = Receive PROVE a[2] < Longest /\ WithinGap(a, hits)
      <4>1. a[2] < Longest /\ WithinGap(a, scan.hits)
        BY <1>4, <2>3, <3>2 DEF BranchIsDone
      <4>2. ASSUME NEW k, <<a[1], k>> \in scan.hits PROVE <<a[1], k>> \in hits
        BY <3>1, <3>2, <4>2
      <4> QED BY <4>1, <4>2 DEF WithinGap
    <3> QED BY <2>2, <2>3, <3>1, <3>2 DEF BranchIsDone, WithinGap
  <2>5. BranchIsDone(Change)'
    <3>1. \A a \in hits : a[1] = Change => a[2] < Longest
      BY <1>1, <1>3, <1>4, <1>7, <2>1 DEF WalkOK, Address
    <3>2. \A a \in hits : a[1] = Change => WithinGap(a, hits)
      BY <1>3, <2>1 DEF hits
    <3>3. closed => \A a \in scan.began : (a[1] = Change /\ WithinGap(a, scan.began)) => a \in hits
      BY <1>3, <2>1
    <3> QED BY <2>2, <3>1, <3>2, <3>3 DEF BranchIsDone, WithinGap
  <2>6. OwedAreReached(scan.owed, scan.began)'
    BY <1>1, <1>7, <2>2 DEF WithinGap, OwedAreReached
  <2>7. ~ truncated => \A c \in scan.owed : coins[c].at \in hits
    <3> SUFFICES ASSUME ~ truncated, NEW c \in scan.owed PROVE coins[c].at \in hits
      OBVIOUS
    <3>1. closed /\ coins[c].at \in scan.began /\ WithinGap(coins[c].at, scan.began)
      BY <1>7 DEF OwedAreReached
    <3>2. coins[c].at[1] = Receive \/ coins[c].at[1] = Change
      BY <1>7, <3>1 DEF Address
    <3>3. CASE coins[c].at[1] = Change
      BY <1>3, <2>1, <3>1, <3>3
    <3>4. CASE coins[c].at[1] = Receive
      BY <1>4, <2>1, <2>3, <3>1, <3>4 DEF BranchIsDone, Receive, Change
    <3> QED BY <3>2, <3>3, <3>4
  <2>8. FetchOK'
    BY <1>1, <1>4, <1>6, <1>7, <2>2, <2>4, <2>5, <2>6, <2>7 DEF FetchOK
  <2> QED
    BY <1>1, <2>2, <2>8, ScanKeeps DEF Walking, Fetching, Scan
<1> QED BY <1>2, <1>8, <1>9, <1>10

(* The coins of one used address, as they are when it is asked. *)
LEMMA Fetched == ASSUME IInv, NEW a \in scan.left, Fetch(a) PROVE IInv'
<1> USE DiscoveryAssumption
<1>1. /\ UNCHANGED <<coins, snap, ahead, draft>> /\ scan \in Walk /\ scan.phase = "coins" /\ FetchOK
      /\ scan' = [scan EXCEPT !.left = @ \ {a}, !.coins = @ \cup Here(a)]
      /\ scan.left \subseteq scan.hits
  BY DEF Fetch, Fetching, IInv, TypeOK, Scan
<1>2. Here(a) \subseteq Coin
  <2>1. DOMAIN coins = 1 .. Len(coins) /\ Len(coins) \in Nat /\ Len(coins) <= MaxCoins
    BY LenProperties DEF IInv, TypeOK
  <2> QED BY <2>1 DEF Here, Unspent, Coin
<1>3. /\ scan' \in Walk /\ scan'.phase = "coins" /\ scan'.hits = scan.hits /\ scan'.began = scan.began
      /\ scan'.owed = scan.owed /\ scan'.truncated = scan.truncated
      /\ scan'.left = scan.left \ {a} /\ scan'.coins = scan.coins \cup Here(a)
  BY <1>1, <1>2 DEF Walk
<1>4. FetchOK'
  <2>1. Used' = Used /\ Unspent' = Unspent
    BY <1>1 DEF Used, Unspent
  <2>2. \A c \in scan'.coins : c \in DOMAIN coins /\ coins[c].at \in scan.hits
    BY <1>1, <1>3 DEF FetchOK, Here, Unspent
  <2>3. ~ scan.truncated =>
          \A c \in scan.owed \cap Unspent : coins[c].at \notin scan'.left => c \in scan'.coins
    BY <1>1, <1>3 DEF FetchOK, Here
  <2>4. OwedAreReached(scan.owed, scan.began)'
    BY <1>1, <1>3 DEF FetchOK, WithinGap, OwedAreReached
  <2>5. BranchIsDone(Receive)' /\ BranchIsDone(Change)'
    BY <1>1, <1>3 DEF FetchOK, BranchIsDone, WithinGap
  <2> QED
    BY <1>1, <1>3, <2>1, <2>2, <2>3, <2>4, <2>5 DEF FetchOK
<1> QED
  BY <1>1, <1>3, <1>4, ScanKeeps DEF Walking, Fetching, Scan

(* What a finished walk says is sound, owes nothing, and holds every change*)
(* address used, within the gap, when it began.                            *)
LEMMA FoundView ==
  ASSUME IInv, Discovered
  PROVE  LET v == [used |-> scan.hits, coins |-> scan.coins, began |-> scan.began,
                   owed |-> scan.owed \cap Unspent]
         IN  v \in View /\ ViewOK(v)
<1> USE DiscoveryAssumption
<1> DEFINE v == [used |-> scan.hits, coins |-> scan.coins, began |-> scan.began,
                 owed |-> scan.owed \cap Unspent]
<1>1. /\ scan \in Walk /\ FetchOK /\ ~ scan.truncated /\ scan.left = {}
  BY DEF Discovered, Fetching, IInv, TypeOK, Scan
<1>2. v \in View
  BY <1>1 DEF Walk, View
<1>3. \A a \in scan.hits : a[1] = Receive \/ a[1] = Change
  BY <1>1 DEF Walk, Address
<1>4. Sound(v)
  BY <1>1, <1>2, <1>3 DEF Sound, FetchOK, BranchIsDone
<1>5. v.owed \subseteq v.coins
  BY <1>1 DEF FetchOK
<1>6. \A a \in v.began : (a[1] = Change /\ WithinGap(a, v.began)) => a \in v.used
  BY <1>1 DEF FetchOK, BranchIsDone
<1> QED BY <1>1, <1>2, <1>4, <1>5, <1>6 DEF ViewOK, FetchOK

LEMMA Rested ==
  ASSUME IInv, UNCHANGED <<coins, snap, ahead, draft>>,
         NEW v \in View, ViewOK(v), scan' = Rest(v)
  PROVE  IInv'
<1> USE DiscoveryAssumption
<1>1. scan' \in Scan /\ scan'.phase = "rest" /\ scan'.view = v
  BY DEF Rest, Scan
<1>2. ViewOK(scan.view)'
  BY <1>1 DEF ViewOK, Sound, Used, WithinGap
<1> QED BY <1>1, <1>2, ScanKeeps DEF Walking, Fetching

(* The screen shows a view that is sound, and nothing else is touched but  *)
(* what a launch clears.                                                   *)
LEMMA Shown ==
  ASSUME IInv, UNCHANGED coins, NEW v \in View, ViewOK(v), snap' = v,
         ahead' \in {ahead, 0}, draft' \in {draft, None},
         \/ scan' = scan \/ scan' = None \/ scan' = Rest(v)
  PROVE  IInv'
<1> USE DiscoveryAssumption
<1>1. Used' = Used /\ Unspent' = Unspent
  BY DEF Used, Unspent
<1>2. ASSUME NEW x, ViewOK(x) PROVE ViewOK(x)' /\ Sound(x)'
  BY <1>1, <1>2 DEF ViewOK, Sound, WithinGap
<1>3. ViewOK(snap)' /\ Sound(snap)' /\ ahead' \in 0 .. MaxAhead
  <2>1. ahead' \in 0 .. MaxAhead
    BY DEF IInv, TypeOK
  <2>2. ViewOK(snap)'
    BY <1>1 DEF ViewOK, Sound
  <2> QED BY <2>1, <2>2 DEF ViewOK
<1>4. draft' # None => draft' = draft
  OBVIOUS
<1>5. CASE scan' = scan
  <2>1. Walking' = Walking /\ Fetching' = Fetching
    BY <1>5 DEF Walking, Fetching
  <2>2. Walking => WalkOK'
    BY <1>1, <1>5 DEF IInv, WalkOK, OwedAreReached, BranchIsDone, NoGapTo, WithinGap, Last
  <2>3. Fetching => FetchOK'
    BY <1>1, <1>5 DEF IInv, FetchOK, OwedAreReached, BranchIsDone, WithinGap
  <2>4. (scan # None /\ scan.phase = "rest") => ViewOK(scan.view)' /\ Sound(scan.view)'
    <3> SUFFICES ASSUME scan # None, scan.phase = "rest" PROVE ViewOK(scan.view)' /\ Sound(scan.view)'
      OBVIOUS
    <3>1. ViewOK(scan.view)
      BY DEF IInv
    <3> QED BY <1>1, <1>5, <3>1 DEF ViewOK, Sound, WithinGap
  <2>5. TypeOK'
    BY <1>1, <1>3, <1>4, <1>5, <2>1, <2>4 DEF IInv, TypeOK
  <2> QED
    BY <1>1, <1>3, <1>4, <1>5, <2>1, <2>2, <2>3, <2>4, <2>5 DEF IInv, ChangeStaysInReach, WithinGap
<1>6. CASE scan' = None
  <2>1. TypeOK'
    BY <1>1, <1>3, <1>4, <1>6 DEF IInv, TypeOK, Walking, Fetching
  <2> QED BY <1>1, <1>3, <1>4, <1>6, <2>1 DEF IInv, ChangeStaysInReach, WithinGap, Walking, Fetching
<1>7. CASE scan' = Rest(v)
  <2>1. scan' \in Scan /\ scan'.phase = "rest" /\ scan'.view = v
    BY <1>7 DEF Rest, Scan
  <2>2. ViewOK(scan.view)' /\ Sound(scan.view)'
    BY <1>1, <2>1 DEF ViewOK, Sound, WithinGap
  <2>3. TypeOK'
    BY <1>1, <1>3, <1>4, <2>1, <2>2 DEF IInv, TypeOK, Walking, Fetching
  <2> QED BY <1>1, <1>3, <1>4, <2>1, <2>2, <2>3 DEF IInv, ChangeStaysInReach, WithinGap, Walking, Fetching
<1> QED BY <1>5, <1>6, <1>7

LEMMA EmptyIsOK == Empty \in View /\ (TypeOK => ViewOK(Empty))
BY DEF Empty, View, ViewOK, Sound

(* The end of a walk, and the view of the screen. *)
LEMMA ViewsKeep ==
  ASSUME IInv, Discovered \/ Refused \/ Redraw \/ EndRefresh \/ Rebuild \/ Relaunch PROVE IInv'
<1> USE DiscoveryAssumption
<1>0. snap \in View /\ ViewOK(snap) /\ ViewOK(Empty) /\ Empty \in View
  BY EmptyIsOK DEF IInv, TypeOK, Sound
<1>1. CASE Discovered
  BY <1>1, FoundView, Rested DEF Discovered
<1>2. CASE Refused
  <2>1. scan' = Rest(snap) /\ UNCHANGED <<coins, snap, ahead, draft>>
    BY <1>2 DEF Refused
  <2>2. PICK v : v = snap
    OBVIOUS
  <2> QED BY <1>0, <2>1, <2>2, Rested
<1>3. CASE Redraw \/ EndRefresh
  <2>1. PICK v : v = scan.view
    OBVIOUS
  <2>2. v \in View /\ ViewOK(v)
    BY <1>3, <2>1 DEF Redraw, EndRefresh, IInv, TypeOK, Sound
  <2>3. /\ snap' = v /\ ahead' \in {ahead, 0} /\ draft' = draft /\ coins' = coins
        /\ scan' = scan \/ scan' = None
    BY <1>3, <2>1 DEF Redraw, EndRefresh
  <2> QED BY <2>2, <2>3, Shown
<1>4. CASE Rebuild \/ Relaunch
  <2>1. /\ snap' = Empty /\ ahead' \in {ahead, 0} /\ draft' \in {draft, None} /\ coins' = coins
        /\ scan' = None \/ scan' = Rest(Empty)
    BY <1>4 DEF Rebuild, Relaunch
  <2> QED BY <1>0, <2>1, Shown
<1> QED BY <1>1, <1>2, <1>3, <1>4

-----------------------------------------------------------------------------
(* The greatest change index seen, -1 if none is.                          *)
LEMMA GreatestSeen ==
  ASSUME DiscoveryAssumption, TypeOK
  PROVE  /\ Max(SeenChange \cup {-1}) \in Nat \cup {-1}
         /\ Max(SeenChange \cup {-1}) # -1 => <<Change, Max(SeenChange \cup {-1})>> \in snap.used
         /\ \A n \in SeenChange : n \in Nat /\ n <= Max(SeenChange \cup {-1})
<1> USE DEF DiscoveryAssumption
<1> DEFINE S == SeenChange  m == Max(S \cup {-1})
<1>1. snap.used \subseteq Address /\ \A a \in snap.used : a[2] < Longest
  BY DEF TypeOK, Sound, View
<1>2. S \in SUBSET Nat /\ \A n \in S : n <= Longest /\ <<Change, n>> \in snap.used
  <2>1. ASSUME NEW n \in S PROVE n \in Nat /\ n <= Longest /\ <<Change, n>> \in snap.used
    <3>1. PICK a \in snap.used : a[1] = Change /\ n = a[2]
      BY DEF SeenChange
    <3>2. a \in Address /\ a[2] < Longest
      BY <1>1
    <3>3. a = <<Change, n>> /\ n \in Nat
      BY <3>1, <3>2 DEF Address
    <3> QED BY <3>1, <3>2, <3>3
  <2> QED BY <2>1
<1>3. IsFiniteSet(S)
  <2> HIDE DEF S
  <2> QED BY <1>2, FS_BoundedSetOfNaturals
<1>4. \E x \in S \cup {-1} : \A y \in S \cup {-1} : x >= y
  <2> HIDE DEF S
  <2>1. CASE S = {}
    BY <2>1
  <2>2. CASE S # {}
    <3>1. PICK x \in S : \A n \in S : n <= x
      BY <1>2, <1>3, <2>2, Greatest
    <3>2. x >= -1 /\ \A n \in S : x >= n
      BY <1>2, <3>1
    <3> QED BY <3>1, <3>2
  <2> QED BY <2>1, <2>2
<1>5. m \in S \cup {-1} /\ \A y \in S \cup {-1} : m >= y
  BY <1>4 DEF Max
<1> HIDE DEF m
<1>6. m \in Nat \cup {-1} /\ \A n \in S : n \in Nat /\ n <= m
  <2> HIDE DEF S
  <2> QED BY <1>2, <1>5
<1>7. m # -1 => <<Change, m>> \in snap.used
  <2> HIDE DEF S
  <2> QED BY <1>2, <1>5
<1> QED BY <1>6, <1>7 DEF m

(* One of the first Gap drafts after a refresh names an address within the *)
(* gap; of the others nothing is claimed.                                  *)
LEMMA Drafted ==
  ASSUME IInv, NEW S \in SUBSET snap.coins, NEW changes \in BOOLEAN, Prepare(S, changes)
  PROVE  IInv'
<1> USE DiscoveryAssumption
<1> DEFINE m == Max(SeenChange \cup {-1})  next == m + 1 + ahead
<1>1. /\ ahead \in Nat /\ ahead < MaxAhead /\ ahead' = ahead + 1
      /\ coins' = coins /\ snap' = snap /\ scan' = scan
      /\ draft' = [inputs |-> S, change |-> IF changes THEN <<Change, next>> ELSE None,
                  near |-> ahead < Gap]
  BY DEF Prepare, nextChangeIndex, IInv, TypeOK
<1>2. m \in Nat \cup {-1} /\ (m # -1 => <<Change, m>> \in snap.used)
  BY GreatestSeen DEF IInv
<1> HIDE DEF m
<1>3. next \in Nat
  BY <1>1, <1>2
<1>4. snap.coins \subseteq DOMAIN coins /\ snap.coins \subseteq Coin
  BY DEF IInv, TypeOK, Sound, View
<1>5. draft' \in Draft /\ draft'.inputs = S /\ draft'.change \in {None, <<Change, next>>}
      /\ draft'.near = (ahead < Gap)
  <2>1. <<Change, next>> \in Address
    BY <1>3 DEF Address
  <2> QED BY <1>1, <1>4, <2>1 DEF Draft
<1>6. TypeOK'
  <2>1. Used' = Used /\ Walking' = Walking /\ Fetching' = Fetching
    BY <1>1 DEF Used, Walking, Fetching
  <2>2. Sound(snap)' /\ ((scan # None /\ scan.phase = "rest") => Sound(scan.view)')
    BY <1>1 DEF IInv, TypeOK, Sound
  <2> QED BY <1>1, <1>4, <1>5, <2>1, <2>2 DEF IInv, TypeOK
<1>7. ASSUME ahead < Gap PROVE WithinGap(<<Change, next>>, Used)
  <2>1. Gap \in Nat
    BY DEF DiscoveryAssumption
  <2>2. ASSUME NEW n \in Gap .. next
        PROVE  \E k \in n - Gap .. n - 1 : <<Change, k>> \in Used
    <3>1. CASE n <= m
      <4>1. m # -1 /\ WithinGap(<<Change, m>>, snap.used) /\ snap.used \subseteq Used
        BY <1>2, <2>1, <2>2, <3>1 DEF IInv, ViewOK, Sound
      <4>2. n \in Gap .. m
        BY <1>2, <2>1, <2>2, <3>1
      <4> QED BY <4>1, <4>2 DEF WithinGap
    <3>2. CASE m < n
      <4>1. m \in n - Gap .. n - 1 /\ m # -1
        BY <1>1, <1>2, <1>3, <1>7, <2>1, <2>2, <3>2
      <4> QED BY <1>2, <4>1 DEF IInv, ViewOK
    <3> QED BY <1>2, <1>3, <2>1, <2>2, <3>1, <3>2
  <2> QED BY <2>2 DEF WithinGap
<1>9. Used' = Used
  BY <1>1 DEF Used
<1>10. Walking' => WalkOK'
  BY <1>1, <1>9 DEF Walking, IInv, WalkOK, OwedAreReached, BranchIsDone, NoGapTo, WithinGap, Last
<1>11. Fetching' => FetchOK'
  BY <1>1, <1>9 DEF Fetching, IInv, FetchOK, OwedAreReached, BranchIsDone, WithinGap, Unspent
<1>12. ViewOK(snap)' /\ ((scan' # None /\ scan'.phase = "rest") => ViewOK(scan.view)')
  BY <1>1, <1>9 DEF IInv, ViewOK, Sound, WithinGap
<1>13. ChangeStaysInReach'
  BY <1>5, <1>7, <1>9 DEF ChangeStaysInReach, WithinGap
<1> QED
  BY <1>6, <1>9, <1>10, <1>11, <1>12, <1>13 DEF IInv, ChangeStaysInReach, WithinGap

-----------------------------------------------------------------------------
LEMMA Start == DiscoveryAssumption /\ Init => IInv
<1> SUFFICES ASSUME DiscoveryAssumption, Init PROVE IInv
  OBVIOUS
<1>1. coins \in Seq([at : Address, spent : BOOLEAN]) /\ Len(coins) = 0 /\ Used = {}
  BY EmptySeq DEF Init, Used
<1>2. ViewOK(Empty) /\ Sound(Empty)
  BY DEF Empty, View, ViewOK, Sound
<1>3. TypeOK
  BY <1>1, <1>2 DEF Init, TypeOK, DiscoveryAssumption, Walking, Fetching
<1> QED
  BY <1>1, <1>2, <1>3 DEF Init, IInv, ChangeStaysInReach, Walking, Fetching

LEMMA Preserved == DiscoveryAssumption /\ IInv /\ [Next]_vars => IInv'
<1> SUFFICES ASSUME DiscoveryAssumption, IInv, [Next]_vars PROVE IInv'
  OBVIOUS
<1>1. CASE \E i \in Handed : Pay(i)
  BY <1>1, Paid
<1>2. CASE BeginRefresh
  BY <1>2, WalkBegins
<1>3. CASE Walking /\ \E a \in scan.left : Answer(a)
  BY <1>3, Answered
<1>4. CASE CloseBatch
  BY <1>4, BatchClosed
<1>5. CASE Fetching /\ \E a \in scan.left : Fetch(a)
  BY <1>5, Fetched
<1>6. CASE Discovered \/ Refused \/ Redraw \/ EndRefresh \/ Rebuild \/ Relaunch
  BY <1>6, ViewsKeep
<1>7. CASE \E S \in SUBSET snap.coins, changes \in BOOLEAN : Prepare(S, changes)
  BY <1>7, Drafted
<1>8. CASE Publish
  BY <1>8, Published
<1>9. CASE UNCHANGED vars
  <2>1. Grows
    BY <1>9 DEF vars, Grows, IInv, TypeOK
  <2> QED BY <1>9, <2>1, ChainKeeps DEF vars
<1> QED
  BY <1>1, <1>2, <1>3, <1>4, <1>5, <1>6, <1>7, <1>8, <1>9 DEF Next

(* What the screen may rely on, for any gap, batch and cap. *)
THEOREM Invariance == Spec => []IInv
<1>1. Init => IInv
  BY DiscoveryAssumption, Start
<1>2. IInv /\ [Next]_vars => IInv'
  BY DiscoveryAssumption, Preserved
<1> QED BY <1>1, <1>2, PTL DEF Spec

(* Every view that is shown, or on its way, holds addresses the gap limit  *)
(* reaches and coins at those addresses (discover.ts: walkBranch).         *)
THEOREM TypeCorrect == Spec => []TypeOK
<1>1. IInv => TypeOK
  BY DEF IInv
<1> QED BY Invariance, <1>1, PTL

(* A walk leaves out no coin that lay within the gap from its first        *)
(* question to its last (discover.ts: discover).                           *)
THEOREM NoCoinIsHidden == Spec => []BalanceIsWhole
<1>1. IInv => BalanceIsWhole
  BY DEF IInv, ViewOK, BalanceIsWhole
<1> QED BY Invariance, <1>1, PTL

(* One of the first Gap drafts after a refresh never sends change where a  *)
(* walk stops short of it, however many follow (build.ts: nextChangeIndex).*)
THEOREM ChangeIsFound == Spec => []ChangeStaysInReach
<1>1. IInv => ChangeStaysInReach
  BY DEF IInv
<1> QED BY Invariance, <1>1, PTL

(* No draft, however many went before it, sends change to an address that  *)
(* was used within the gap when the walk it reads began (build.ts:         *)
(* nextChangeIndex).                                                       *)
THEOREM ChangeGoesPastTheSeen == Spec => ChangeIsFresh
<1> DEFINE seen == {a \in snap.began : WithinGap(a, snap.began)}
<1>1. ASSUME IInv, [Next]_vars PROVE [ahead' > ahead => draft'.change \notin seen]_vars
  <2> SUFFICES ASSUME Next, ahead' > ahead PROVE draft'.change \notin seen
    BY <1>1
  <2>0. ahead \in Nat
    BY <1>1 DEF IInv, TypeOK
  <2>1. PICK S \in SUBSET snap.coins, changes \in BOOLEAN : Prepare(S, changes)
    <3>1. /\ \A i : Pay(i) => ahead' = ahead
          /\ \A a : (Answer(a) \/ Fetch(a)) => ahead' = ahead
          /\ (BeginRefresh \/ Discovered \/ Refused \/ Redraw \/ Rebuild \/ Publish) => ahead' = ahead
      BY DEF Pay, Answer, Fetch, BeginRefresh, Discovered, Refused, Redraw, Rebuild, Publish
    <3>2. CloseBatch => ahead' = ahead
      BY DEF CloseBatch
    <3>3. (EndRefresh \/ Relaunch) => ahead' = 0
      BY DEF EndRefresh, Relaunch
    <3>4. ~ (ahead' = ahead \/ ahead' = 0)
      BY <2>0
    <3> QED BY <3>1, <3>2, <3>3, <3>4 DEF Next
  <2>2. draft'.change \in {None, <<Change, Max(SeenChange \cup {-1}) + 1 + ahead>>}
    BY <2>1 DEF Prepare, nextChangeIndex
  <2>3. snap.began \subseteq Address /\ None \notin Address
    BY <1>1, DiscoveryAssumption DEF DiscoveryAssumption, IInv, TypeOK, Sound, View
  <2>4. ASSUME draft'.change \in seen PROVE FALSE
    <3> DEFINE m == Max(SeenChange \cup {-1})  n == m + 1 + ahead
    <3>1. <<Change, n>> \in snap.began /\ WithinGap(<<Change, n>>, snap.began)
      BY <2>2, <2>3, <2>4
    <3> HIDE DEF m
    <3>2. <<Change, n>> \in snap.used
      BY <1>1, <3>1 DEF IInv, ViewOK
    <3>3. n \in SeenChange
      BY <3>2 DEF SeenChange
    <3>4. m \in Nat \cup {-1} /\ n <= m
      BY <1>1, <3>3, DiscoveryAssumption, GreatestSeen DEF IInv, m
    <3> QED BY <2>0, <3>4
  <2> QED BY <2>4
<1> QED BY Invariance, <1>1, PTL DEF Spec, ChangeIsFresh
(* What a batch answered in full leads to is further on.                   *)
LEMMA ClosingIsOnward == ASSUME IInv, CloseBatch PROVE Onward
<1> USE DiscoveryAssumption
<1> DEFINE closed == Stops # {}
           hits == IF closed THEN Walked ELSE scan.hits
<1>1. /\ scan \in Walk /\ scan.phase = "walk" /\ Walking /\ scan.left = {}
      /\ scan.index \in Nat /\ scan.branch \in {Receive, Change} /\ scan.truncated \in BOOLEAN
  BY DEF CloseBatch, Walking, IInv, TypeOK, Scan, Walk
<1>2. Last \in Nat /\ scan.index < Last
  BY <1>1, BatchEnds
<1>3. CASE /\ Last < Longest
           /\ scan' = [scan EXCEPT !.index = Last, !.left = BatchFrom(scan.branch, Last)]
  <2>1. /\ scan'.phase = scan.phase /\ scan'.began = scan.began
        /\ scan'.branch = scan.branch /\ scan'.index = Last
    BY <1>1, <1>3 DEF Walk
  <2> QED BY <1>2, <1>3, <2>1 DEF Onward
<1>4. CASE /\ scan.branch = Receive
           /\ scan' = [scan EXCEPT !.branch = Change, !.index = 0, !.left = BatchFrom(Change, 0),
                                   !.hits = hits, !.truncated = ~ closed]
  <2>1. scan'.phase = scan.phase /\ scan'.began = scan.began /\ scan'.branch = Change
    BY <1>1, <1>4 DEF Walk
  <2> QED BY <1>4, <2>1 DEF Onward
<1>5. CASE scan' = [scan EXCEPT !.phase = "coins", !.left = hits, !.hits = hits,
                                !.truncated = @ \/ ~ closed]
  <2>1. scan'.phase = "coins"
    BY <1>1, <1>5 DEF Walk
  <2> QED BY <1>1, <2>1 DEF Onward
<1>6. \/ /\ Last < Longest
         /\ scan' = [scan EXCEPT !.index = Last, !.left = BatchFrom(scan.branch, Last)]
      \/ /\ scan.branch = Receive
         /\ scan' = [scan EXCEPT !.branch = Change, !.index = 0, !.left = BatchFrom(Change, 0),
                                 !.hits = hits, !.truncated = ~ closed]
      \/ scan' = [scan EXCEPT !.phase = "coins", !.left = hits, !.hits = hits,
                              !.truncated = @ \/ ~ closed]
  <2> HIDE DEF closed, hits
  <2>1. ~ (closed \/ Last >= Longest) => Last < Longest
    BY <1>2
  <2> QED BY <1>1, <2>1 DEF CloseBatch, closed, hits
<1> QED BY <1>3, <1>4, <1>5, <1>6

(* Whatever is paid and published under it, a walk only goes on...         *)
THEOREM WalksAdvance == Spec => WalkAdvances
<1>1. IInv /\ [Next]_vars =>
        [(Walking \/ Fetching) /\ scan' # scan => scan' = None \/ Onward]_vars
  <2> SUFFICES ASSUME IInv, Next, Walking \/ Fetching, scan' # scan
               PROVE  scan' = None \/ Onward
    OBVIOUS
  <2>1. scan \in Walk /\ scan # None
    BY DEF IInv, TypeOK, Walking, Fetching, Scan
  <2>2. CASE Discovered \/ Refused \/ Rebuild
    BY <2>1, <2>2 DEF Discovered, Refused, Rebuild, Rest, Onward
  <2>3. CASE Relaunch
    BY <2>3 DEF Relaunch
  <2>4. ASSUME NEW a \in scan.left, Answer(a) \/ Fetch(a) PROVE Onward
    <3>1. /\ scan'.phase = scan.phase /\ scan'.began = scan.began /\ scan'.branch = scan.branch
          /\ scan'.index = scan.index /\ scan'.left = scan.left \ {a}
      BY <2>1, <2>4 DEF Answer, Fetch, Walk
    <3> QED BY <3>1 DEF Onward
  <2>5. CASE CloseBatch
    BY <2>5, ClosingIsOnward
  <2>6. ~ (BeginRefresh \/ Redraw \/ EndRefresh)
    BY <2>1 DEF BeginRefresh, Redraw, EndRefresh, Walking, Fetching
  <2>7. /\ \A i : ~ Pay(i)
        /\ \A S, changes : ~ Prepare(S, changes)
        /\ ~ Publish
    BY DEF Pay, Prepare, Publish
  <2> QED BY <2>2, <2>3, <2>4, <2>5, <2>6, <2>7 DEF Next
<1> QED BY Invariance, <1>1, PTL DEF Spec, WalkAdvances

(* ...and it only ever waits for so many answers.                          *)
THEOREM OnlySoManyAnswers == Spec => [](Walking \/ Fetching => IsFiniteSet(scan.left))
<1>1. ASSUME IInv, Walking \/ Fetching PROVE IsFiniteSet(scan.left)
  <2> USE DiscoveryAssumption
  <2>1. CASE Walking
    <3> DEFINE asked == scan.index .. scan.index + Batch - 1
    <3>1. scan.index \in Nat /\ scan.left \subseteq BatchFrom(scan.branch, scan.index)
      BY <1>1, <2>1 DEF IInv, TypeOK, Walking, Scan, Walk
    <3>2. IsFiniteSet({scan.branch} \X asked)
      <4>1. IsFiniteSet(asked)
        BY <3>1, FS_Interval
      <4>2. IsFiniteSet({scan.branch})
        BY FS_Singleton
      <4> HIDE DEF asked
      <4> QED BY <4>1, <4>2, FS_Product
    <3>3. scan.left \in SUBSET ({scan.branch} \X asked)
      BY <3>1 DEF BatchFrom
    <3> QED BY <3>2, <3>3, FS_Subset
  <2>2. CASE Fetching
    <3>1. scan.left \in SUBSET Used
      BY <1>1, <2>2 DEF IInv, TypeOK, FetchOK
    <3>2. IsFiniteSet(DOMAIN coins)
      <4>1. DOMAIN coins = 1 .. Len(coins) /\ Len(coins) \in Nat
        BY <1>1, LenProperties DEF IInv, TypeOK
      <4> QED BY <4>1, FS_Interval
    <3>3. IsFiniteSet(Used)
      <4> DEFINE at == [c \in DOMAIN coins |-> coins[c].at]
      <4>1. at \in Surjection(DOMAIN coins, Used)
        BY DEF Used, Surjection
      <4> QED BY <3>2, <4>1, FS_Surjection
    <3> QED BY <3>1, <3>3, FS_Subset
  <2> QED BY <1>1, <2>1, <2>2
<1>2. IInv => (Walking \/ Fetching => IsFiniteSet(scan.left))
  BY <1>1
<1> QED BY Invariance, <1>2, PTL
=============================================================================
