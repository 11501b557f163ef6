----------------------------- MODULE Discovery ------------------------------
(***************************************************************************)
(* The wallet's view of its Bitcoin account: the walk that finds the used  *)
(* addresses of its two branches and then their coins (discover.ts,        *)
(* watcher.ts), and the place of the next change output, which is read     *)
(* from that walk and from the drafts made since (build.ts, store.tsx).    *)
(*                                                                         *)
(* The node answers one address at a time, so payments arrive, drafts are  *)
(* prepared and published while a walk is under way.  Amounts, fees and    *)
(* confirmations are left out: a selection is any set of coins shown, with *)
(* or without a change output.                                             *)
(***************************************************************************)
EXTENDS Integers, Sequences, FiniteSets, FiniteSetsExt

CONSTANTS Gap,       \* GAP_LIMIT
          Batch,     \* addresses asked about at once
          Longest,   \* MAX_ADDRESSES
          Handed,    \* receive addresses somebody may pay to
          MaxCoins,  \* bound: outputs paid to the account
          MaxAhead,  \* bound: drafts prepared between two refreshes, above
                     \* Gap where what becomes of the last ones is to show
          None

Receive == 0
Change == 1
Address == {Receive, Change} \X Nat
Coin == 1 .. MaxCoins

(* A view: used addresses, coins, and, as history, the addresses used and  *)
(* the coins the walk owes, those within the gap when it began.            *)
View == [used : SUBSET Address, coins : SUBSET Coin,
         began : SUBSET Address, owed : SUBSET Coin]
(* `near` is history: fewer than Gap drafts were prepared before this one. *)
Draft == [inputs : SUBSET Coin, change : Address \cup {None}, near : BOOLEAN]
Walk == [phase : {"walk", "coins"}, branch : {Receive, Change}, index : Nat,
         left : SUBSET Address, hits : SUBSET Address, coins : SUBSET Coin,
         truncated : BOOLEAN, began : SUBSET Address, owed : SUBSET Coin]
Scan == Walk \cup [phase : {"rest"}, view : View]

ASSUME DiscoveryAssumption ==
  /\ Gap \in Nat \ {0} /\ Batch \in Nat \ {0} /\ Longest \in Nat \ {0}
  /\ Handed \subseteq Nat /\ MaxCoins \in Nat /\ MaxAhead \in Nat
  /\ None \notin Address \cup Draft \cup Scan

VARIABLES coins,  \* the chain: the account's outputs, where and whether spent
          snap,   \* the snapshot on the screen
          ahead,  \* changeAhead
          draft,  \* the draft of the session
          scan    \* the refresh under way

vars == <<coins, snap, ahead, draft, scan>>

-----------------------------------------------------------------------------
Used == {coins[c].at : c \in DOMAIN coins}
Unspent == {c \in DOMAIN coins : ~ coins[c].spent}
Here(a) == {c \in Unspent : coins[c].at = a}

(* Addresses with no run of Gap unused ones below them. *)
WithinGap(a, U) == \A n \in Gap .. a[2] : \E k \in n - Gap .. n - 1 : <<a[1], k>> \in U

-----------------------------------------------------------------------------
Empty == [used |-> {}, coins |-> {}, began |-> {}, owed |-> {}]

BatchFrom(b, i) == {b} \X {k \in i .. i + Batch - 1 : k < Longest}

Init == /\ coins = <<>> /\ snap = Empty /\ ahead = 0
        /\ draft = None /\ scan = None

Out(a) == [at |-> a, spent |-> FALSE]

(* Somebody pays to a receive address. *)
Pay(i) == /\ Len(coins) < MaxCoins
          /\ coins' = Append(coins, Out(<<Receive, i>>))
          /\ UNCHANGED <<snap, ahead, draft, scan>>

-----------------------------------------------------------------------------
Walking == scan # None /\ scan.phase = "walk"
Fetching == scan # None /\ scan.phase = "coins"

BeginRefresh ==
  /\ scan = None
  /\ scan' = [phase |-> "walk", branch |-> Receive, index |-> 0, left |-> BatchFrom(Receive, 0),
              hits |-> {}, coins |-> {}, truncated |-> FALSE, began |-> Used,
              owed |-> {c \in Unspent : WithinGap(coins[c].at, Used)}]
  /\ UNCHANGED <<coins, snap, ahead, draft>>

(* addressActivity of one address of the batch. *)
Answer(a) ==
  /\ Walking /\ a \in scan.left
  /\ scan' = [scan EXCEPT !.left = @ \ {a}, !.hits = @ \cup ({a} \cap Used)]
  /\ UNCHANGED <<coins, snap, ahead, draft>>

(* Where the batch's answers close the gap, or the end of the batch. *)
Closes(n) == n >= Gap /\ \A k \in n - Gap .. n - 1 : <<scan.branch, k>> \notin scan.hits
Last == IF scan.index + Batch < Longest THEN scan.index + Batch ELSE Longest
Stops == {n \in scan.index + 1 .. Last : Closes(n)}

(* Mutant: the answers past the one that closes the gap are kept.          *)
WalkedPast == scan.hits

Walked == {a \in scan.hits : a[1] = scan.branch => \A n \in Stops : a[2] < n}

(* Mutant: a batch with nothing used in it ends the branch.                *)
CloseBatchOnEmpty ==
  /\ Walking /\ scan.left = {}
  /\ LET closed == scan.hits \cap BatchFrom(scan.branch, scan.index) = {}
         over == closed \/ Last >= Longest
     IN  scan' = CASE ~ over -> [scan EXCEPT !.index = Last, !.left = BatchFrom(scan.branch, Last)]
                   [] over /\ scan.branch = Receive ->
                        [scan EXCEPT !.branch = Change, !.index = 0, !.left = BatchFrom(Change, 0),
                                     !.truncated = ~ closed]
                   [] OTHER -> [scan EXCEPT !.phase = "coins", !.left = scan.hits,
                                            !.truncated = @ \/ ~ closed]
  /\ UNCHANGED <<coins, snap, ahead, draft>>

(* walkBranch folds the batch in order: on to the next batch, or to the    *)
(* change branch, or to the coins of the used addresses.                   *)
CloseBatch ==
  /\ Walking /\ scan.left = {}
  /\ LET closed == Stops # {}
         hits == IF closed THEN Walked ELSE scan.hits
         over == closed \/ Last >= Longest
     IN  scan' = CASE ~ over -> [scan EXCEPT !.index = Last, !.left = BatchFrom(scan.branch, Last)]
                   [] over /\ scan.branch = Receive ->
                        [scan EXCEPT !.branch = Change, !.index = 0, !.left = BatchFrom(Change, 0),
                                     !.hits = hits, !.truncated = ~ closed]
                   [] OTHER -> [scan EXCEPT !.phase = "coins", !.left = hits, !.hits = hits,
                                            !.truncated = @ \/ ~ closed]
  /\ UNCHANGED <<coins, snap, ahead, draft>>

(* addressUtxos of one used address. *)
Fetch(a) ==
  /\ Fetching /\ ~ scan.truncated /\ a \in scan.left
  /\ scan' = [scan EXCEPT !.left = @ \ {a}, !.coins = @ \cup Here(a)]
  /\ UNCHANGED <<coins, snap, ahead, draft>>

(* The account has its answer, a view or the one it had before; what is    *)
(* left of the refresh is about other accounts and chains.                 *)
Rest(view) == [phase |-> "rest", view |-> view]

Discovered ==
  /\ Fetching /\ ~ scan.truncated /\ scan.left = {}
  /\ scan' = Rest([used |-> scan.hits, coins |-> scan.coins, began |-> scan.began,
                   owed |-> scan.owed \cap Unspent])
  /\ UNCHANGED <<coins, snap, ahead, draft>>

(* An address that is not answered, at any point, or a branch cut at the   *)
(* cap: the whole walk is refused.                                         *)
Refused ==
  /\ Walking \/ Fetching
  /\ scan' = Rest(snap)
  /\ UNCHANGED <<coins, snap, ahead, draft>>

(* The screen is drawn again before the refresh has ended. *)
Redraw ==
  /\ scan # None /\ scan.phase = "rest" /\ scan.view # snap
  /\ snap' = scan.view
  /\ UNCHANGED <<coins, ahead, draft, scan>>

EndRefresh ==
  /\ scan # None /\ scan.phase = "rest"
  /\ snap' = scan.view /\ ahead' = 0 /\ scan' = None
  /\ UNCHANGED <<coins, draft>>

(* New keys or another node: a watcher with an empty view.  A refresh of   *)
(* the old watcher still runs, and still ends.                             *)
Rebuild ==
  /\ snap' = Empty
  /\ scan' = IF scan = None THEN None ELSE Rest(Empty)
  /\ UNCHANGED <<coins, ahead, draft>>

Relaunch ==
  /\ snap' = Empty /\ ahead' = 0 /\ draft' = None /\ scan' = None
  /\ UNCHANGED coins

-----------------------------------------------------------------------------
SeenChange == {a[2] : a \in {b \in snap.used : b[1] = Change}}

(* Mutant: the first free index of the change branch.                      *)
FirstHole == Min({i \in 0 .. Cardinality(SeenChange) : i \notin SeenChange}) + ahead

(* Mutant: an index of its own choosing.                                   *)
ChosenIndex == Gap + ahead

(* The addresses seen have no holes, so the first unused one past every    *)
(* used one is the one after it.                                           *)
nextChangeIndex == Max(SeenChange \cup {-1}) + 1 + ahead

(* prepareDraft: the offset moves on whether or not there is change, and   *)
(* the code lets it move on for ever.                                      *)
Prepare(S, changes) ==
  /\ S # {} /\ ahead < MaxAhead
  /\ draft' = [inputs |-> S, change |-> IF changes THEN <<Change, nextChangeIndex>> ELSE None,
               near |-> ahead < Gap]
  /\ ahead' = ahead + 1
  /\ UNCHANGED <<coins, snap, scan>>

(* The node takes the signed draft when none of its inputs is spent. *)
Publish ==
  /\ draft # None /\ draft.inputs \subseteq Unspent
  /\ LET paid == [c \in DOMAIN coins |-> [coins[c] EXCEPT !.spent = @ \/ c \in draft.inputs]]
     IN  IF draft.change = None THEN coins' = paid
         ELSE /\ Len(coins) < MaxCoins
              /\ coins' = Append(paid, Out(draft.change))
  /\ UNCHANGED <<snap, ahead, draft, scan>>

Next == \/ \E i \in Handed : Pay(i)
        \/ BeginRefresh
        \/ Walking /\ \E a \in scan.left : Answer(a)
        \/ CloseBatch
        \/ Fetching /\ \E a \in scan.left : Fetch(a)
        \/ Discovered \/ Refused \/ Redraw \/ EndRefresh
        \/ Rebuild \/ Relaunch
        \/ \E S \in SUBSET snap.coins, changes \in BOOLEAN : Prepare(S, changes)
        \/ Publish

Spec == Init /\ [][Next]_vars

-----------------------------------------------------------------------------
(* The variables have their types; a view, shown or on its way, has used   *)
(* addresses the gap limit would reach and coins at those addresses only,  *)
(* and a walk has asked about nothing past its batch and its cap.          *)
Sound(v) == /\ v \in View
            /\ \A a \in v.used : a[2] < Longest /\ WithinGap(a, v.used)
            /\ \A c \in v.coins : c \in DOMAIN coins /\ coins[c].at \in v.used
TypeOK ==
  /\ coins \in Seq([at : Address, spent : BOOLEAN]) /\ Len(coins) <= MaxCoins
  /\ Sound(snap) /\ ahead \in 0 .. MaxAhead
  /\ draft \in Draft \cup {None} /\ scan \in Scan \cup {None}
  /\ draft # None => /\ draft.inputs \subseteq DOMAIN coins
                     /\ draft.change # None => draft.change[1] = Change
  /\ Walking => /\ scan.index < Longest /\ scan.left \subseteq BatchFrom(scan.branch, scan.index)
                /\ scan.hits \subseteq Used
  /\ Fetching => scan.left \subseteq scan.hits /\ scan.hits \subseteq Used
  /\ (scan # None /\ scan.phase = "rest") => Sound(scan.view)

(* A balance is never confidently too low: every coin that lay, from the   *)
(* first question of a walk to its last, at an address within the gap when *)
(* it began is in the view that walk gives (discover.ts: walkBranch).      *)
BalanceIsWhole == snap.owed \subseteq snap.coins

(* build.ts: nextChangeIndex keeps change "inside the window" for the      *)
(* first Gap drafts after a refresh, whatever becomes of the others, of    *)
(* the view it reads and of the refreshes: from the moment such a draft is *)
(* prepared, its change is where a walk looks, published or not.  Of later *)
(* drafts it is not so.                                                    *)
ChangeStaysInReach ==
  draft # None /\ draft.change # None /\ draft.near => WithinGap(draft.change, Used)

(* build.ts: "address reuse is the thing this function exists to avoid".   *)
(* However far the offset has run, a draft never sends its change to an    *)
(* address that was used, where a walk looks, when the walk it reads began.*)
ChangeIsFresh ==
  [][ahead' > ahead =>
       draft'.change \notin {a \in snap.began : WithinGap(a, snap.began)}]_vars

(* Two payments never land change on one address (store.tsx: prepareDraft).*)
ChangeIsNotReused ==
  \A c, d \in DOMAIN coins :
     coins[c].at = coins[d].at /\ coins[c].at[1] = Change => c = d

(* discover, walkBranch: payments and publishings go on under a walk, and  *)
(* still no step of it asks the same again: it ends, or moves to the coins *)
(* or to the change branch, or to a later batch below the cap, or has one  *)
(* answer fewer to wait for.                                               *)
Onward ==
  \/ scan'.phase = "rest"
  \/ scan.phase = "walk" /\ scan'.phase = "coins"
  \/ /\ scan'.phase = scan.phase /\ scan'.began = scan.began
     /\ \/ scan.branch = Receive /\ scan'.branch = Change
        \/ /\ scan'.branch = scan.branch
           /\ \/ scan.index < scan'.index /\ scan'.index < Longest
              \/ scan'.index = scan.index /\ scan'.left \subseteq scan.left /\ scan'.left # scan.left
WalkAdvances == [][(Walking \/ Fetching) /\ scan' # scan => scan' = None \/ Onward]_vars

=============================================================================
