------------------------------ MODULE ArbSizing ------------------------------
(* How large the next trade is: detection looks for the most profitable size   *)
(* of every direction of a pipeline in one market, and the router caps each by *)
(* what the wallets hold in the market of its own, later moment. Sizes are a   *)
(* grid; a curve gives the profit of each size, a need the cNGN it moves.      *)
EXTENDS Integers, Sequences, FiniteSets

CONSTANTS
  Markets,     \* states of the pools, under one book
  Curve,       \* profit of a size, by market and direction
  Need,        \* cNGN bought by a size, by market and direction
  BuyCap,      \* size a wallet's cNGN allows, from the inverted walk of the bids
  Top,         \* largest size the searches look at
  SpreadSize,  \* size of the spread check
  Tol,         \* tolerance of the search for the peak
  Purses,      \* what a wallet may hold, of either token
  MaxSingle,   \* max_single_trade_usd
  Cost         \* gas and the least profit worth a trade

Directions == {"QUIDAX_TO_UNI_BASE", "UNI_BASE_TO_QUIDAX",
               "UNI_BSC_TO_UNI_BASE", "UNI_BASE_TO_UNI_BSC"}

Pipeline == [cex_dex |-> <<"QUIDAX_TO_UNI_BASE", "UNI_BASE_TO_QUIDAX">>,
             dex_dex |-> <<"UNI_BSC_TO_UNI_BASE", "UNI_BASE_TO_UNI_BSC">>]

Sizes   == 0..Top
Unknown == -1          \* a balance nobody has read

(* A profit rises to its peak and falls behind it.                             *)
Unimodal(f) ==
  \E p \in Sizes :
    /\ \A x, y \in 0..p : x < y => f[x] < f[y]
    /\ \A x, y \in p..Top : x < y => f[x] > f[y]

ASSUME SizingAssumption ==
  /\ Top \in Nat /\ SpreadSize \in 1..Top /\ Tol \in Nat /\ Tol >= 2
  /\ Purses \subseteq Nat /\ MaxSingle \in Nat /\ Cost \in Nat
  /\ Curve \in [Markets -> [Directions -> [Sizes -> Int]]]
  /\ Need \in [Markets -> [Directions -> [Sizes -> Nat]]]
  /\ BuyCap \in [Markets -> [Purses -> Nat]]
  /\ \A m \in Markets, d \in Directions :
       /\ Unimodal(Curve[m][d]) /\ Curve[m][d][0] = 0
       /\ Need[m][d][0] = 0
       /\ \A x, y \in Sizes : x <= y => Need[m][d][x] <= Need[m][d][y]
  /\ \A m \in Markets, c \in Purses, x \in Sizes :
       x <= BuyCap[m][c] => Need[m]["QUIDAX_TO_UNI_BASE"][x] <= c

VARIABLES
  pipeline,  \* which update this is
  market,    \* the pool cache and the book
  stable,    \* per_account_stable of each direction's buy venue
  cngn,      \* per_account_cngn of each direction's sell venue
  phase,     \* where the update is
  todo,      \* directions not searched yet
  low, high, \* the interval a search has left
  dead,      \* directions the spread check skipped
  cands,     \* candidates, with their size and profit at detection
  scored,    \* candidates the router accepts
  chosen     \* the route taken, if any

purse == <<stable, cngn>>
span  == <<low, high>>
sizingVars == <<pipeline, market, purse, phase, todo, span, dead, cands, scored, chosen>>

NoRoute == [direction |-> "none", size |-> 0, net |-> 0]

Phases == {"detect", "search", "route", "cap", "done"}

SizingInit ==
  /\ pipeline \in DOMAIN Pipeline
  /\ market \in Markets
  /\ stable \in [Directions -> Purses \cup {Unknown}]
  /\ cngn \in [Directions -> Purses \cup {Unknown}]
  /\ phase = "detect"
  /\ todo = Pipeline[pipeline]
  /\ low = 0 /\ high = 0
  /\ dead = {}
  /\ cands = <<>>
  /\ scored = {}
  /\ chosen = NoRoute

-----------------------------------------------------------------------------
(* Detection, in a worker thread, on the market it loaded as it began.         *)

f == Curve[market][Head(todo)]

(* A direction whose smallest trade brings nothing is not searched at all.     *)
SpreadCheck ==
  /\ phase = "detect" /\ todo # <<>>
  /\ IF pipeline = "cex_dex" /\ f[SpreadSize] <= 0
       THEN /\ todo' = Tail(todo)
            /\ dead' = dead \cup {Head(todo)}
            /\ UNCHANGED <<phase, span>>
       ELSE /\ phase' = "search"
            /\ low' = 1 /\ high' = Top
            /\ UNCHANGED <<todo, dead>>
  /\ UNCHANGED <<pipeline, market, purse, cands, scored, chosen>>

Third == (high - low) \div 3

(* _ternary_search: a third of the interval is dropped at a time.              *)
NarrowDown ==
  /\ phase = "search" /\ high - low > Tol
  /\ IF f[low + Third] < f[high - Third]
       THEN high' = high - Third /\ UNCHANGED low
       ELSE low' = low + Third /\ UNCHANGED high
  /\ UNCHANGED <<pipeline, market, purse, phase, todo, dead, cands, scored, chosen>>

Narrow ==
  /\ phase = "search" /\ high - low > Tol
  /\ IF f[low + Third] < f[high - Third]
       THEN low' = low + Third /\ UNCHANGED high
       ELSE high' = high - Third /\ UNCHANGED low
  /\ UNCHANGED <<pipeline, market, purse, phase, todo, dead, cands, scored, chosen>>

Middle == (low + high) \div 2

Found ==
  /\ phase = "search" /\ high - low <= Tol
  /\ cands' = Append(cands, [direction |-> Head(todo), size |-> Middle,
                             profit |-> f[Middle]])
  /\ todo' = Tail(todo)
  /\ phase' = "detect"
  /\ UNCHANGED <<pipeline, market, purse, span, dead, scored, chosen>>

(* Of the two DEX directions only the better one is offered, and only with a   *)
(* profit.                                                                     *)
Offered ==
  IF pipeline = "cex_dex" THEN cands
  ELSE LET best == IF cands[1].profit >= cands[2].profit THEN cands[1] ELSE cands[2]
       IN IF best.profit > 0 THEN <<best>> ELSE <<>>

(* The loop goes on while the thread computes: the router sees whatever the    *)
(* market is by then.                                                          *)
Detected ==
  /\ phase = "detect" /\ todo = <<>>
  /\ cands' = Offered
  /\ market' \in Markets
  /\ phase' = "route"
  /\ UNCHANGED <<pipeline, purse, todo, span, dead, scored, chosen>>

-----------------------------------------------------------------------------
(* select_route, without a pause.                                              *)

Min2(a, b) == IF a <= b THEN a ELSE b

cand  == Head(cands)
Holds(b) == b > 0

(* The size before the cap of the sell side's cNGN.                            *)
Capped == Min2(cand.size, Min2(stable[cand.direction], MaxSingle))

(* Only a size other than the one detection priced is priced again, except     *)
(* between two pools, where every size is.                                     *)
Expected(size) ==
  IF pipeline = "dex_dex" \/ size # cand.size
    THEN Curve[market][cand.direction][size]
    ELSE cand.profit

Scored(size) ==
  IF size > 0 /\ Expected(size) >= Cost
    THEN scored \cup {[direction |-> cand.direction, size |-> size,
                       net |-> Expected(size) - Cost]}
    ELSE scored

Skip ==
  /\ phase = "route" /\ cands # <<>>
  /\ ~(Holds(stable[cand.direction]) /\ Holds(cngn[cand.direction]))
  /\ cands' = Tail(cands)
  /\ UNCHANGED <<pipeline, market, purse, phase, todo, span, dead, scored, chosen>>

Ready ==
  /\ phase = "route" /\ cands # <<>>
  /\ Holds(stable[cand.direction]) /\ Holds(cngn[cand.direction])

CapByBookUncapped ==
  /\ Ready /\ cand.direction = "QUIDAX_TO_UNI_BASE"
  /\ scored' = Scored(Capped)
  /\ cands' = Tail(cands)
  /\ UNCHANGED <<pipeline, market, purse, phase, todo, span, dead, chosen>>

CapByBook ==
  /\ Ready /\ cand.direction = "QUIDAX_TO_UNI_BASE"
  /\ scored' = Scored(Min2(Capped, BuyCap[market][cngn[cand.direction]]))
  /\ cands' = Tail(cands)
  /\ UNCHANGED <<pipeline, market, purse, phase, todo, span, dead, chosen>>

g == Need[market][cand.direction]

(* The buy leg inverted by bisection, unless the largest size fits as it is.   *)
CapBySearch ==
  /\ Ready /\ cand.direction # "QUIDAX_TO_UNI_BASE"
  /\ phase' = "cap"
  /\ low' = IF g[Top] <= cngn[cand.direction] THEN Top ELSE 0
  /\ high' = Top
  /\ UNCHANGED <<pipeline, market, purse, todo, dead, cands, scored, chosen>>

Halve ==
  /\ phase = "cap" /\ high - low > 1
  /\ IF g[Middle] <= cngn[cand.direction]
       THEN low' = Middle /\ UNCHANGED high
       ELSE high' = Middle /\ UNCHANGED low
  /\ UNCHANGED <<pipeline, market, purse, phase, todo, dead, cands, scored, chosen>>

Score ==
  /\ phase = "cap" /\ high - low <= 1
  /\ scored' = Scored(Min2(Capped, low))
  /\ cands' = Tail(cands)
  /\ phase' = "route"
  /\ UNCHANGED <<pipeline, market, purse, todo, span, dead, chosen>>

Choose ==
  /\ phase = "route" /\ cands = <<>>
  /\ chosen' \in IF scored = {} THEN {NoRoute}
                 ELSE {r \in scored : \A s \in scored : s.net <= r.net}
  /\ phase' = "done"
  /\ UNCHANGED <<pipeline, market, purse, todo, span, dead, cands, scored>>

SizingNext ==
  \/ SpreadCheck \/ Narrow \/ Found \/ Detected
  \/ Skip \/ CapByBook \/ CapBySearch \/ Halve \/ Score \/ Choose

SizingSpec == SizingInit /\ [][SizingNext]_sizingVars

-----------------------------------------------------------------------------
SizingTypeOK ==
  /\ pipeline \in DOMAIN Pipeline /\ market \in Markets /\ phase \in Phases
  /\ stable \in [Directions -> Purses \cup {Unknown}]
  /\ cngn \in [Directions -> Purses \cup {Unknown}]
  /\ todo \in Seq(Directions) /\ dead \subseteq Directions
  /\ low \in Sizes /\ high \in Sizes
  /\ cands \in Seq([direction : Directions, size : Sizes, profit : Int])
  /\ scored \subseteq [direction : Directions, size : Sizes, net : Nat]
  /\ chosen \in [direction : Directions, size : Sizes, net : Nat] \cup {NoRoute}

PeakKept ==
  phase = "search" => \E b \in low..high : \A x \in 1..Top : f[x] <= f[b]

DeadIsDead ==
  phase \in {"detect", "search"} =>
    \A d \in dead, x \in SpreadSize..Top : Curve[market][d][x] <= 0

(* However often a third is dropped, the interval the ternary search has left  *)
(* holds a size no other size beats, and a direction the spread check left out *)
(* would have brought nothing at any size from the check's on.                 *)
SearchSound == PeakKept /\ DeadIsDead

(* A route is taken only if, in the market it is taken in, its first leg is    *)
(* covered by the buy wallet and the single trade limit, and the cNGN it moves *)
(* by the sell wallet, although its size was found in an earlier market.       *)
RouteIsCovered ==
  \A r \in scored :
    /\ r.size > 0
    /\ r.size <= stable[r.direction] /\ r.size <= MaxSingle
    /\ Need[market][r.direction][r.size] <= cngn[r.direction]

=============================================================================
