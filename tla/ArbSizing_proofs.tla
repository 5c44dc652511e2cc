--------------------------- MODULE ArbSizing_proofs ---------------------------
(***************************************************************************)
(* Theorems about ArbSizing, for every set of unimodal curves, every grid  *)
(* and every content of the wallets.                                       *)
(***************************************************************************)
EXTENDS ArbSizing, SequenceTheorems, TLAPS

-----------------------------------------------------------------------------
(* Types.                                                                  *)

Candidate == [direction : Directions, size : Sizes, profit : Int]
Scores    == [direction : Directions, size : Sizes, net : Nat]

LEMMA PipelineType == \A p \in DOMAIN Pipeline : Pipeline[p] \in Seq(Directions)
  <1>1. DOMAIN Pipeline = {"cex_dex", "dex_dex"}  BY DEF Pipeline
  <1>2. Pipeline["cex_dex"] = <<"QUIDAX_TO_UNI_BASE", "UNI_BASE_TO_QUIDAX">>
    BY DEF Pipeline
  <1>3. Pipeline["dex_dex"] = <<"UNI_BSC_TO_UNI_BASE", "UNI_BASE_TO_UNI_BSC">>
    BY DEF Pipeline
  <1>4. Pipeline["cex_dex"] \in Seq(Directions)  BY <1>2 DEF Directions
  <1>5. Pipeline["dex_dex"] \in Seq(Directions)  BY <1>3 DEF Directions
  <1> QED  BY <1>1, <1>4, <1>5

LEMMA HeadTail ==
  ASSUME NEW S, NEW s \in Seq(S), s # <<>>
  PROVE  Head(s) \in S /\ Tail(s) \in Seq(S)
  OBVIOUS

LEMMA SizesType == Sizes \subseteq Int /\ 0 \in Sizes /\ Top \in Sizes /\ 1 \in Sizes
  BY SizingAssumption DEF Sizes

LEMMA CurveType ==
  ASSUME NEW m \in Markets, NEW d \in Directions
  PROVE  /\ Curve[m][d] \in [Sizes -> Int]
         /\ Need[m][d] \in [Sizes -> Nat]
  BY SizingAssumption

(* What the router records of a size is a score.                           *)
LEMMA ScoredType ==
  ASSUME SizingTypeOK, cands # <<>>, NEW size \in Sizes
  PROVE  Scored(size) \subseteq Scores
  <1>1. cand \in Candidate  BY HeadTail DEF cand, SizingTypeOK, Candidate
  <1>2. cand.direction \in Directions /\ cand.size \in Sizes /\ cand.profit \in Int
    BY <1>1 DEF Candidate
  <1>3. Expected(size) \in Int
    BY <1>2, CurveType DEF Expected, SizingTypeOK
  <1>4. Cost \in Nat  BY SizingAssumption
  <1>5. CASE size > 0 /\ Expected(size) >= Cost
    <2>1. Expected(size) - Cost \in Nat  BY <1>3, <1>4, <1>5
    <2>2. [direction |-> cand.direction, size |-> size, net |-> Expected(size) - Cost] \in Scores
      BY <1>2, <2>1 DEF Scores
    <2> QED  BY <1>5, <2>2 DEF Scored, SizingTypeOK, Scores
  <1>6. CASE ~(size > 0 /\ Expected(size) >= Cost)
    BY <1>6 DEF Scored, SizingTypeOK, Scores
  <1> QED  BY <1>5, <1>6

(* A size capped by what the wallets are known to hold.                    *)
Held == cands # <<>> /\ Holds(stable[cand.direction]) /\ Holds(cngn[cand.direction])

LEMMA CappedType ==
  ASSUME SizingTypeOK, Held
  PROVE  /\ cand \in Candidate /\ cand.direction \in Directions
         /\ Capped \in Sizes /\ Capped <= stable[cand.direction] /\ Capped <= MaxSingle
         /\ stable[cand.direction] \in Nat /\ cngn[cand.direction] \in Nat
         /\ cngn[cand.direction] \in Purses
  <1> DEFINE s == stable[cand.direction]
             c == cngn[cand.direction]
  <1>1. cands \in Seq(Candidate) /\ cands # <<>>  BY DEF SizingTypeOK, Candidate, Held
  <1>2. cand \in Candidate  BY <1>1, HeadTail DEF cand
  <1>3. cand.direction \in Directions /\ cand.size \in Sizes  BY <1>2 DEF Candidate
  <1>4. Purses \subseteq Nat /\ MaxSingle \in Nat  BY SizingAssumption
  <1>5. s \in Purses \cup {Unknown} /\ c \in Purses \cup {Unknown}
    BY <1>3 DEF SizingTypeOK
  <1>6. s > 0 /\ c > 0  BY DEF Held, Holds
  <1>7. s # Unknown /\ c # Unknown
    <2>1. ~(Unknown > 0)  BY DEF Unknown
    <2> QED  BY <1>6, <2>1
  <1>8. s \in Purses /\ c \in Purses  BY <1>5, <1>7
  <1>9. s \in Nat /\ c \in Nat  BY <1>4, <1>8
  <1>10. Capped \in Sizes /\ Capped <= s /\ Capped <= MaxSingle
    <2> HIDE DEF c
    <2>1. Capped = Min2(cand.size, Min2(s, MaxSingle))  BY DEF Capped
    <2> HIDE DEF s
    <2> QED  BY <1>3, <1>4, <1>9, <2>1, SizingAssumption DEF Min2, Sizes
  <1> QED  BY <1>2, <1>3, <1>8, <1>9, <1>10

(* The middle and the thirds of an interval of the grid are in it.         *)
LEMMA MiddleIn ==
  ASSUME SizingTypeOK, low <= high
  PROVE  Middle \in Sizes /\ low <= Middle /\ Middle <= high
  BY SizingAssumption DEF Middle, SizingTypeOK, Sizes

LEMMA ThirdIn ==
  ASSUME SizingTypeOK, high - low > Tol
  PROVE  /\ Third \in Nat /\ Third >= 1 /\ low + Third < high - Third
         /\ low + Third \in Sizes /\ high - Third \in Sizes
  BY SizingAssumption DEF Third, SizingTypeOK, Sizes

-----------------------------------------------------------------------------
(* Profits that rise to a peak and fall behind it.                         *)

LEMMA CurveShape ==
  ASSUME NEW m \in Markets, NEW d \in Directions
  PROVE  Unimodal(Curve[m][d]) /\ Curve[m][d][0] = 0
  BY SizingAssumption

(* Some size from 1 on is beaten by none.                                  *)
LEMMA PeakExists ==
  ASSUME NEW h \in [Sizes -> Int], Unimodal(h)
  PROVE  \E b \in 1..Top : \A x \in 1..Top : h[x] <= h[b]
  <1>1. PICK p \in Sizes : /\ \A x, y \in 0..p : x < y => h[x] < h[y]
                          /\ \A x, y \in p..Top : x < y => h[x] > h[y]
    BY DEF Unimodal
  <1>2. Top \in Nat /\ Top >= 1  BY SizingAssumption
  <1>3. p \in 0..Top  BY DEF Sizes
  <1>4. CASE p = 0
    <2>1. \A x \in 1..Top : h[x] <= h[1]
      <3>1. TAKE x \in 1..Top
      <3>2. 1 \in p..Top /\ x \in p..Top  BY <1>2, <1>4
      <3>3. x = 1 \/ 1 < x  OBVIOUS
      <3>4. h[x] \in Int /\ h[1] \in Int  BY <1>2 DEF Sizes
      <3> QED  BY <1>1, <3>2, <3>3, <3>4
    <2> QED  BY <2>1, <1>2
  <1>5. CASE p >= 1
    <2>1. \A x \in 1..Top : h[x] <= h[p]
      <3>1. TAKE x \in 1..Top
      <3>2. h[x] \in Int /\ h[p] \in Int  BY <1>2 DEF Sizes
      <3>3. CASE x < p
        <4>1. x \in 0..p /\ p \in 0..p  BY <3>3, <1>3
        <4> QED  BY <1>1, <3>2, <3>3, <4>1
      <3>4. CASE x > p
        <4>1. x \in p..Top /\ p \in p..Top  BY <3>4, <1>3
        <4> QED  BY <1>1, <3>2, <3>4, <4>1
      <3> QED  BY <1>3, <3>2, <3>3, <3>4
    <2> QED  BY <2>1, <1>3, <1>5
  <1> QED  BY <1>3, <1>4, <1>5

(* What lies on the low side of the better third does not peak.            *)
LEMMA LeftThird ==
  ASSUME NEW h \in [Sizes -> Int], Unimodal(h),
         NEW b \in Sizes, NEW x \in Sizes, NEW y \in Sizes, b < x, x < y, h[x] < h[y]
  PROVE  h[b] < h[y]
  <1>1. PICK p \in Sizes : /\ \A u, v \in 0..p : u < v => h[u] < h[v]
                          /\ \A u, v \in p..Top : u < v => h[u] > h[v]
    BY DEF Unimodal
  <1>2. Top \in Nat /\ p \in 0..Top /\ b \in 0..Top /\ x \in 0..Top /\ y \in 0..Top
    BY SizingAssumption DEF Sizes
  <1>3. h[b] \in Int /\ h[x] \in Int /\ h[y] \in Int  OBVIOUS
  <1>4. x < p
    <2>1. SUFFICES ASSUME x >= p PROVE FALSE  BY <1>2
    <2>2. x \in p..Top /\ y \in p..Top  BY <1>2, <2>1
    <2> QED  BY <1>1, <1>3, <2>2
  <1>5. b \in 0..p /\ x \in 0..p  BY <1>2, <1>4
  <1> QED  BY <1>1, <1>3, <1>5

LEMMA RightThird ==
  ASSUME NEW h \in [Sizes -> Int], Unimodal(h),
         NEW b \in Sizes, NEW x \in Sizes, NEW y \in Sizes, x < y, y < b, h[x] >= h[y]
  PROVE  h[b] < h[x]
  <1>1. PICK p \in Sizes : /\ \A u, v \in 0..p : u < v => h[u] < h[v]
                          /\ \A u, v \in p..Top : u < v => h[u] > h[v]
    BY DEF Unimodal
  <1>2. Top \in Nat /\ p \in 0..Top /\ b \in 0..Top /\ x \in 0..Top /\ y \in 0..Top
    BY SizingAssumption DEF Sizes
  <1>3. h[b] \in Int /\ h[x] \in Int /\ h[y] \in Int  OBVIOUS
  <1>4. p < y
    <2>1. SUFFICES ASSUME p >= y PROVE FALSE  BY <1>2
    <2>2. x \in 0..p /\ y \in 0..p  BY <1>2, <2>1
    <2> QED  BY <1>1, <1>3, <2>2
  <1>5. y \in p..Top /\ b \in p..Top  BY <1>2, <1>4
  <1> QED  BY <1>1, <1>3, <1>5

(* A curve that brings nothing at one size brings nothing at a larger one. *)
LEMMA NothingFurther ==
  ASSUME NEW h \in [Sizes -> Int], Unimodal(h), h[0] = 0,
         NEW s \in Sizes, s >= 1, h[s] <= 0, NEW x \in s..Top
  PROVE  h[x] <= 0
  <1>1. PICK p \in Sizes : /\ \A u, v \in 0..p : u < v => h[u] < h[v]
                          /\ \A u, v \in p..Top : u < v => h[u] > h[v]
    BY DEF Unimodal
  <1>2. Top \in Nat /\ p \in 0..Top /\ s \in 0..Top /\ x \in 0..Top
    BY SizingAssumption DEF Sizes
  <1>3. h[s] \in Int /\ h[x] \in Int  BY <1>2 DEF Sizes
  <1>4. p < s
    <2>1. SUFFICES ASSUME p >= s PROVE FALSE  BY <1>2
    <2>2. 0 \in 0..p /\ s \in 0..p  BY <1>2, <2>1
    <2> QED  BY <1>1, <1>3, <2>2
  <1>5. s \in p..Top /\ x \in p..Top  BY <1>2, <1>4
  <1> QED  BY <1>1, <1>2, <1>3, <1>5

-----------------------------------------------------------------------------
(* The inductive invariant.                                                *)

Queue ==
  phase \in {"detect", "search"} =>
    /\ scored = {}
    /\ pipeline = "dex_dex" => Len(cands) + Len(todo) = 2

(* An interval is one, and what the bisection has found to fit does.       *)
Spans ==
  /\ phase = "search" => todo # <<>> /\ 1 <= low /\ low <= high
  /\ phase = "cap" => /\ Held /\ low <= high
                      /\ Need[market][cand.direction][low] <= cngn[cand.direction]

SizingInv == SizingTypeOK /\ Queue /\ Spans /\ SearchSound /\ RouteIsCovered

(* A score whose cNGN fits is covered.                                     *)
LEMMA ScoredCovered ==
  ASSUME SizingTypeOK, Held, RouteIsCovered, NEW size \in Sizes, size <= Capped,
         size > 0 => Need[market][cand.direction][size] <= cngn[cand.direction]
  PROVE  \A r \in Scored(size) :
           /\ r.size > 0
           /\ r.size <= stable[r.direction] /\ r.size <= MaxSingle
           /\ Need[market][r.direction][r.size] <= cngn[r.direction]
  <1> DEFINE r0 == [direction |-> cand.direction, size |-> size, net |-> Expected(size) - Cost]
  <1>1. TAKE r \in Scored(size)
  <1>2. r \in scored \/ (size > 0 /\ r = r0)  BY DEF Scored
  <1>3. CASE r \in scored  BY <1>3 DEF RouteIsCovered
  <1>4. CASE size > 0 /\ r = r0
    <2>1. r.size = size /\ r.direction = cand.direction  BY <1>4
    <2>2. size \in Int /\ Capped \in Int /\ stable[cand.direction] \in Int /\ MaxSingle \in Int
      BY CappedType, SizingAssumption DEF Sizes
    <2>3. size <= stable[cand.direction] /\ size <= MaxSingle
      BY CappedType, <2>2
    <2> QED  BY <1>4, <2>1, <2>3
  <1> QED  BY <1>2, <1>3, <1>4

LEMMA InitInv == SizingInit => SizingInv
  <1> SUFFICES ASSUME SizingInit PROVE SizingInv  OBVIOUS
  <1>1. todo \in Seq(Directions)  BY PipelineType DEF SizingInit
  <1>2. cands \in Seq(Candidate) /\ Len(cands) = 0  BY DEF SizingInit
  <1>3. SizingTypeOK
    BY <1>1, <1>2, SizesType DEF SizingInit, SizingTypeOK, Phases, Candidate, NoRoute
  <1>4. Queue
    <2>1. pipeline = "dex_dex" => Len(todo) = 2  BY DEF SizingInit, Pipeline
    <2> QED  BY <1>2, <2>1 DEF Queue, SizingInit
  <1>5. Spans  BY DEF Spans, SizingInit
  <1>6. SearchSound  BY DEF SearchSound, PeakKept, DeadIsDead, SizingInit
  <1>7. RouteIsCovered  BY DEF RouteIsCovered, SizingInit
  <1> QED  BY <1>3, <1>4, <1>5, <1>6, <1>7 DEF SizingInv

LEMMA StepSpreadCheck == ASSUME SizingInv, SpreadCheck PROVE SizingInv'
  <1> USE DEF SizingInv
  <1>1. Head(todo) \in Directions /\ Tail(todo) \in Seq(Directions) /\ Len(Tail(todo)) = Len(todo) - 1
    BY HeadTail DEF SpreadCheck, SizingTypeOK
  <1>2. f \in [Sizes -> Int] /\ Unimodal(f) /\ f[0] = 0
    BY <1>1, CurveType, CurveShape DEF f, SizingTypeOK
  <1>3. CASE pipeline = "cex_dex" /\ f[SpreadSize] <= 0
    <2>1. /\ todo' = Tail(todo) /\ dead' = dead \cup {Head(todo)}
          /\ UNCHANGED <<phase, low, high, pipeline, market, stable, cngn, cands, scored, chosen>>
          /\ phase = "detect"
      BY <1>3 DEF SpreadCheck, span, purse
    <2>2. SizingTypeOK'  BY <1>1, <2>1 DEF SizingTypeOK
    <2>3. Queue'  BY <1>3, <2>1 DEF Queue
    <2>4. Spans'  BY <2>1 DEF Spans
    <2>5. DeadIsDead'
      <3>1. SUFFICES ASSUME NEW d \in dead', NEW x \in SpreadSize..Top PROVE Curve[market][d][x] <= 0
        BY <2>1 DEF DeadIsDead
      <3>2. CASE d \in dead  BY <2>1, <3>2 DEF SearchSound, DeadIsDead
      <3>3. CASE d = Head(todo)
        <4>1. SpreadSize \in Sizes /\ SpreadSize >= 1  BY SizingAssumption DEF Sizes
        <4>2. f[x] <= 0  BY <1>2, <1>3, <4>1, NothingFurther
        <4> QED  BY <3>3, <4>2 DEF f
      <3> QED  BY <2>1, <3>2, <3>3
    <2>6. PeakKept'  BY <2>1 DEF PeakKept
    <2>7. RouteIsCovered'  BY <2>1 DEF RouteIsCovered
    <2> QED  BY <2>2, <2>3, <2>4, <2>5, <2>6, <2>7 DEF SearchSound
  <1>4. CASE ~(pipeline = "cex_dex" /\ f[SpreadSize] <= 0)
    <2>1. /\ phase = "detect" /\ phase' = "search" /\ low' = 1 /\ high' = Top /\ todo # <<>>
          /\ UNCHANGED <<todo, dead, pipeline, market, stable, cngn, cands, scored, chosen>>
      BY <1>4 DEF SpreadCheck, purse
    <2>2. SizingTypeOK'  BY <2>1, SizesType DEF SizingTypeOK, Phases
    <2>3. Queue'  BY <2>1 DEF Queue
    <2>4. Spans'  BY <2>1, SizingAssumption DEF Spans
    <2>5. DeadIsDead'  BY <2>1 DEF SearchSound, DeadIsDead
    <2>6. PeakKept'
      <3>1. \E b \in 1..Top : \A x \in 1..Top : f[x] <= f[b]  BY <1>2, PeakExists
      <3>2. f' = f  BY <2>1 DEF f
      <3> QED  BY <2>1, <3>1, <3>2 DEF PeakKept
    <2>7. RouteIsCovered'  BY <2>1 DEF RouteIsCovered
    <2> QED  BY <2>2, <2>3, <2>4, <2>5, <2>6, <2>7 DEF SearchSound
  <1> QED  BY <1>3, <1>4

LEMMA StepNarrow == ASSUME SizingInv, Narrow PROVE SizingInv'
  <1> USE DEF SizingInv
  <1> DEFINE x == low + Third
             y == high - Third
  <1>1. /\ phase = "search" /\ high - low > Tol
        /\ UNCHANGED <<pipeline, market, stable, cngn, phase, todo, dead, cands, scored, chosen>>
    BY DEF Narrow, purse
  <1>2. Third \in Nat /\ Third >= 1 /\ x < y /\ x \in Sizes /\ y \in Sizes
    BY <1>1, ThirdIn
  <1>3. low \in Sizes /\ high \in Sizes /\ low \in Nat /\ high \in Nat /\ 1 <= low /\ todo # <<>>
    BY <1>1, SizingAssumption DEF SizingTypeOK, Spans, Sizes
  <1>4. Head(todo) \in Directions  BY <1>3, HeadTail DEF SizingTypeOK
  <1>5. f \in [Sizes -> Int] /\ Unimodal(f)
    BY <1>4, CurveType, CurveShape DEF f, SizingTypeOK
  <1>6. PICK b \in low..high : \A z \in 1..Top : f[z] <= f[b]
    BY <1>1 DEF SearchSound, PeakKept
  <1>7. b \in Sizes /\ x \in 1..Top /\ y \in 1..Top
    BY <1>2, <1>3, SizingAssumption DEF Sizes
  <1>8. f[x] <= f[b] /\ f[y] <= f[b] /\ f[x] \in Int /\ f[y] \in Int /\ f[b] \in Int
    BY <1>2, <1>5, <1>6, <1>7
  <1>9. \/ f[x] < f[y] /\ low' = x /\ high' = high
        \/ f[x] >= f[y] /\ high' = y /\ low' = low
    BY <1>8 DEF Narrow
  <1>10. b \in low'..high' /\ 1 <= low' /\ low' <= high' /\ low' \in Sizes /\ high' \in Sizes
    <2>1. CASE f[x] < f[y] /\ low' = x /\ high' = high
      <3>1. b >= x
        <4>1. SUFFICES ASSUME b < x PROVE FALSE  BY <1>2, <1>3
        <4>2. f[b] < f[y]  BY <1>2, <1>5, <1>7, <2>1, <4>1, LeftThird
        <4> QED  BY <1>8, <4>2
      <3> QED  BY <1>2, <1>3, <2>1, <3>1
    <2>2. CASE f[x] >= f[y] /\ high' = y /\ low' = low
      <3>1. b <= y
        <4>1. SUFFICES ASSUME y < b PROVE FALSE  BY <1>2, <1>3
        <4>2. f[b] < f[x]  BY <1>2, <1>5, <1>7, <2>2, <4>1, RightThird
        <4> QED  BY <1>8, <4>2
      <3> QED  BY <1>2, <1>3, <2>2, <3>1
    <2> QED  BY <1>9, <2>1, <2>2
  <1>11. SizingTypeOK'  BY <1>1, <1>10 DEF SizingTypeOK
  <1>12. Queue'  BY <1>1 DEF Queue
  <1>13. Spans'  BY <1>1, <1>3, <1>10 DEF Spans
  <1>14. f' = f  BY <1>1 DEF f
  <1>15. PeakKept'  BY <1>6, <1>10, <1>14 DEF PeakKept
  <1>16. DeadIsDead'  BY <1>1 DEF SearchSound, DeadIsDead
  <1>17. RouteIsCovered'  BY <1>1 DEF RouteIsCovered
  <1> QED  BY <1>11, <1>12, <1>13, <1>15, <1>16, <1>17 DEF SearchSound

LEMMA StepFound == ASSUME SizingInv, Found PROVE SizingInv'
  <1> USE DEF SizingInv
  <1> DEFINE c == [direction |-> Head(todo), size |-> Middle, profit |-> f[Middle]]
  <1>1. /\ phase = "search" /\ phase' = "detect" /\ cands' = Append(cands, c) /\ todo' = Tail(todo)
        /\ UNCHANGED <<pipeline, market, stable, cngn, low, high, dead, scored, chosen>>
    BY DEF Found, purse, span
  <1>2. todo # <<>> /\ low <= high  BY <1>1 DEF Spans
  <1>3. Head(todo) \in Directions /\ Tail(todo) \in Seq(Directions) /\ Len(Tail(todo)) = Len(todo) - 1
    BY <1>2, HeadTail DEF SizingTypeOK
  <1>4. f \in [Sizes -> Int]  BY <1>3, CurveType DEF f, SizingTypeOK
  <1>5. Middle \in Sizes  BY <1>2, MiddleIn
  <1>6. c \in Candidate  BY <1>3, <1>4, <1>5 DEF Candidate
  <1>7. cands \in Seq(Candidate)  BY DEF SizingTypeOK, Candidate
  <1> HIDE DEF c
  <1>8. cands' \in Seq(Candidate) /\ Len(cands') = Len(cands) + 1  BY <1>1, <1>6, <1>7
  <1>9. SizingTypeOK'  BY <1>1, <1>3, <1>8 DEF SizingTypeOK, Phases, Candidate
  <1>10. Queue'
    <2>1. Len(cands) \in Nat /\ Len(todo) \in Nat  BY <1>7 DEF SizingTypeOK
    <2>2. pipeline = "dex_dex" => Len(cands) + Len(todo) = 2  BY <1>1 DEF Queue
    <2>3. scored = {}  BY <1>1 DEF Queue
    <2>4. pipeline = "dex_dex" => Len(cands') + Len(todo') = 2  BY <1>1, <1>3, <1>8, <2>1, <2>2
    <2> QED  BY <1>1, <2>3, <2>4 DEF Queue
  <1>11. Spans'  BY <1>1 DEF Spans
  <1>12. SearchSound'  BY <1>1 DEF SearchSound, PeakKept, DeadIsDead
  <1>13. RouteIsCovered'  BY <1>1 DEF RouteIsCovered
  <1> QED  BY <1>9, <1>10, <1>11, <1>12, <1>13

LEMMA StepDetected == ASSUME SizingInv, Detected PROVE SizingInv'
  <1> USE DEF SizingInv
  <1>1. /\ phase = "detect" /\ phase' = "route" /\ todo = <<>> /\ cands' = Offered /\ market' \in Markets
        /\ UNCHANGED <<pipeline, stable, cngn, todo, low, high, dead, scored, chosen>>
    BY DEF Detected, purse, span
  <1>2. cands \in Seq(Candidate)  BY DEF SizingTypeOK, Candidate
  <1>3. cands' \in Seq(Candidate)
    <2>1. CASE pipeline = "cex_dex"  BY <1>1, <1>2, <2>1 DEF Offered
    <2>2. CASE pipeline # "cex_dex"
      <3>1. pipeline = "dex_dex"  BY <2>2 DEF SizingTypeOK, Pipeline
      <3>2. Len(cands) = 2
        <4>1. Len(todo) = 0  BY <1>1
        <4>2. Len(cands) \in Nat  BY <1>2
        <4> QED  BY <1>1, <3>1, <4>1, <4>2 DEF Queue
      <3>3. cands[1] \in Candidate /\ cands[2] \in Candidate  BY <1>2, <3>2
      <3> DEFINE best == IF cands[1].profit >= cands[2].profit THEN cands[1] ELSE cands[2]
      <3>4. best \in Candidate  BY <3>3
      <3>5. Offered = IF best.profit > 0 THEN <<best>> ELSE <<>>  BY <2>2 DEF Offered
      <3> HIDE DEF best
      <3>6. <<best>> \in Seq(Candidate) /\ <<>> \in Seq(Candidate)  BY <3>4
      <3> QED  BY <1>1, <3>5, <3>6
    <2> QED  BY <2>1, <2>2
  <1>4. SizingTypeOK'  BY <1>1, <1>3 DEF SizingTypeOK, Phases, Candidate
  <1>5. Queue' /\ Spans' /\ SearchSound'
    BY <1>1 DEF Queue, Spans, SearchSound, PeakKept, DeadIsDead
  <1>6. RouteIsCovered'
    <2>1. scored' = {}  BY <1>1 DEF Queue
    <2> QED  BY <2>1 DEF RouteIsCovered
  <1> QED  BY <1>4, <1>5, <1>6

LEMMA StepSkip == ASSUME SizingInv, Skip PROVE SizingInv'
  <1> USE DEF SizingInv
  <1>1. /\ phase = "route" /\ cands # <<>> /\ cands' = Tail(cands)
        /\ UNCHANGED <<pipeline, market, stable, cngn, phase, todo, low, high, dead, scored, chosen>>
    BY DEF Skip, purse, span
  <1>2. cands \in Seq(Candidate)  BY DEF SizingTypeOK, Candidate
  <1>3. cands' \in Seq(Candidate)  BY <1>1, <1>2, HeadTail
  <1>4. SizingTypeOK'  BY <1>1, <1>3 DEF SizingTypeOK, Candidate
  <1>5. Queue' /\ Spans' /\ SearchSound'
    BY <1>1 DEF Queue, Spans, SearchSound, PeakKept, DeadIsDead
  <1>6. RouteIsCovered'  BY <1>1 DEF RouteIsCovered
  <1> QED  BY <1>4, <1>5, <1>6

(* A scored candidate, by either cap.                                      *)
LEMMA StepScored ==
  ASSUME SizingInv, Held, NEW size \in Sizes, size <= Capped,
         size > 0 => Need[market][cand.direction][size] <= cngn[cand.direction],
         scored' = Scored(size), cands' = Tail(cands), phase' = "route",
         UNCHANGED <<pipeline, market, stable, cngn, todo, low, high, dead, chosen>>
  PROVE  SizingInv'
  <1> USE DEF SizingInv
  <1>1. cands \in Seq(Candidate) /\ cands # <<>>  BY DEF SizingTypeOK, Candidate, Held
  <1>2. cands' \in Seq(Candidate)  BY <1>1, HeadTail
  <1>3. scored' \subseteq Scores  BY <1>1, ScoredType
  <1>4. SizingTypeOK'  BY <1>2, <1>3 DEF SizingTypeOK, Candidate, Scores, Phases
  <1>5. Queue' /\ Spans' /\ SearchSound'
    BY DEF Queue, Spans, SearchSound, PeakKept, DeadIsDead
  <1>6. RouteIsCovered'
    <2>1. \A r \in scored' : /\ r.size > 0
                             /\ r.size <= stable[r.direction] /\ r.size <= MaxSingle
                             /\ Need[market][r.direction][r.size] <= cngn[r.direction]
      BY ScoredCovered
    <2> QED  BY <2>1 DEF RouteIsCovered
  <1> QED  BY <1>4, <1>5, <1>6

LEMMA StepCapByBook == ASSUME SizingInv, CapByBook PROVE SizingInv'
  <1> USE DEF SizingInv
  <1> DEFINE fits == BuyCap[market][cngn[cand.direction]]
             size == Min2(Capped, fits)
  <1>1. Held /\ phase = "route"  BY DEF CapByBook, Ready, Held
  <1>2. cngn[cand.direction] \in Purses /\ Capped \in Sizes /\ market \in Markets
    BY <1>1, CappedType DEF SizingTypeOK
  <1>3. fits \in Nat
    <2>1. \A m \in Markets, c \in Purses : BuyCap[m][c] \in Nat  BY SizingAssumption
    <2> QED  BY <1>2, <2>1
  <1>4. size \in Sizes /\ size <= Capped /\ size <= fits
    <2> HIDE DEF fits
    <2> QED  BY <1>2, <1>3, SizingAssumption DEF Min2, Sizes
  <1>5. Need[market][cand.direction][size] <= cngn[cand.direction]
    <2>1. cand.direction = "QUIDAX_TO_UNI_BASE"  BY DEF CapByBook
    <2>2. \A m \in Markets, c \in Purses, x \in Sizes :
            x <= BuyCap[m][c] => Need[m]["QUIDAX_TO_UNI_BASE"][x] <= c
      BY SizingAssumption
    <2> HIDE DEF size
    <2> QED  BY <1>2, <1>4, <2>1, <2>2
  <1>6. /\ scored' = Scored(size) /\ cands' = Tail(cands) /\ phase' = "route"
        /\ UNCHANGED <<pipeline, market, stable, cngn, todo, low, high, dead, chosen>>
    BY <1>1 DEF CapByBook, purse, span
  <1> HIDE DEF size
  <1> QED  BY <1>1, <1>4, <1>5, <1>6, StepScored

LEMMA NeedZero ==
  ASSUME NEW m \in Markets, NEW d \in Directions
  PROVE  Need[m][d][0] = 0
  BY SizingAssumption

LEMMA StepCapBySearch == ASSUME SizingInv, CapBySearch PROVE SizingInv'
  <1> USE DEF SizingInv
  <1>1. /\ Held /\ phase' = "cap" /\ phase = "route"
        /\ low' = (IF g[Top] <= cngn[cand.direction] THEN Top ELSE 0) /\ high' = Top
        /\ UNCHANGED <<pipeline, market, stable, cngn, todo, dead, cands, scored, chosen>>
    BY DEF CapBySearch, Ready, Held, purse
  <1>2. cand.direction \in Directions /\ cngn[cand.direction] \in Nat  BY <1>1, CappedType
  <1>3. low' \in Sizes /\ high' \in Sizes /\ low' <= high'
    BY <1>1, SizingAssumption DEF Sizes
  <1>4. g[low'] <= cngn[cand.direction]
    <2>1. g[0] = 0  BY <1>2, NeedZero DEF g, SizingTypeOK
    <2> QED  BY <1>1, <1>2, <2>1
  <1>5. cand' = cand  BY <1>1 DEF cand
  <1>6. SizingTypeOK'  BY <1>1, <1>3 DEF SizingTypeOK, Phases
  <1>7. Queue' /\ SearchSound'  BY <1>1 DEF Queue, SearchSound, PeakKept, DeadIsDead
  <1>8. Spans'  BY <1>1, <1>3, <1>4, <1>5 DEF Spans, g, Held
  <1>9. RouteIsCovered'  BY <1>1 DEF RouteIsCovered
  <1> QED  BY <1>6, <1>7, <1>8, <1>9

LEMMA StepHalve == ASSUME SizingInv, Halve PROVE SizingInv'
  <1> USE DEF SizingInv
  <1>1. /\ phase = "cap" /\ phase' = "cap"
        /\ \/ g[Middle] <= cngn[cand.direction] /\ low' = Middle /\ high' = high
           \/ high' = Middle /\ low' = low
        /\ UNCHANGED <<pipeline, market, stable, cngn, todo, dead, cands, scored, chosen>>
    BY DEF Halve, purse
  <1>2. Held /\ low <= high /\ g[low] <= cngn[cand.direction]  BY <1>1 DEF Spans, g
  <1>3. Middle \in Sizes /\ low <= Middle /\ Middle <= high  BY <1>2, MiddleIn
  <1>4. low' \in Sizes /\ high' \in Sizes /\ low' <= high' /\ g[low'] <= cngn[cand.direction]
    BY <1>1, <1>2, <1>3 DEF SizingTypeOK
  <1>5. cand' = cand  BY <1>1 DEF cand
  <1>6. SizingTypeOK'  BY <1>1, <1>4 DEF SizingTypeOK, Phases
  <1>7. Queue' /\ SearchSound'  BY <1>1 DEF Queue, SearchSound, PeakKept, DeadIsDead
  <1>8. Spans'  BY <1>1, <1>2, <1>4, <1>5 DEF Spans, g, Held
  <1>9. RouteIsCovered'  BY <1>1 DEF RouteIsCovered
  <1> QED  BY <1>6, <1>7, <1>8, <1>9

LEMMA NeedRises ==
  ASSUME NEW m \in Markets, NEW d \in Directions, NEW x \in Sizes, NEW y \in Sizes, x <= y
  PROVE  /\ Need[m][d][x] <= Need[m][d][y]
         /\ Need[m][d][x] \in Nat /\ Need[m][d][y] \in Nat
  BY SizingAssumption

(* A size below the one the bisection ended at needs no more than it does. *)
LEMMA StepScore == ASSUME SizingInv, Score PROVE SizingInv'
  <1> USE DEF SizingInv
  <1> DEFINE size == Min2(Capped, low)
  <1>1. /\ phase = "cap" /\ scored' = Scored(size) /\ cands' = Tail(cands) /\ phase' = "route"
        /\ UNCHANGED <<pipeline, market, stable, cngn, todo, low, high, dead, chosen>>
    BY DEF Score, purse, span
  <1>2. Held /\ Need[market][cand.direction][low] <= cngn[cand.direction]  BY <1>1 DEF Spans
  <1>3. /\ Capped \in Sizes /\ low \in Sizes /\ market \in Markets /\ cand.direction \in Directions
        /\ cngn[cand.direction] \in Nat
    BY <1>2, CappedType DEF SizingTypeOK
  <1>4. size \in Sizes /\ size <= Capped /\ size <= low
    BY <1>3, SizingAssumption DEF Min2, Sizes
  <1> HIDE DEF size
  <1>5. Need[market][cand.direction][size] <= cngn[cand.direction]
    <2>1. /\ Need[market][cand.direction][size] <= Need[market][cand.direction][low]
          /\ Need[market][cand.direction][size] \in Nat /\ Need[market][cand.direction][low] \in Nat
      BY <1>3, <1>4, NeedRises
    <2> QED  BY <1>2, <1>3, <2>1
  <1> QED  BY <1>1, <1>2, <1>4, <1>5, StepScored

LEMMA StepChoose == ASSUME SizingInv, Choose PROVE SizingInv'
  <1> USE DEF SizingInv
  <1>1. /\ phase = "route" /\ phase' = "done"
        /\ UNCHANGED <<pipeline, market, stable, cngn, todo, low, high, dead, cands, scored>>
    BY DEF Choose, purse, span
  <1>2. chosen' \in Scores \cup {NoRoute}
    <2>1. scored \subseteq Scores  BY DEF SizingTypeOK, Scores
    <2> QED  BY <2>1 DEF Choose
  <1>3. SizingTypeOK'  BY <1>1, <1>2 DEF SizingTypeOK, Phases, Scores
  <1>4. Queue' /\ Spans' /\ SearchSound'
    BY <1>1 DEF Queue, Spans, SearchSound, PeakKept, DeadIsDead
  <1>5. RouteIsCovered'  BY <1>1 DEF RouteIsCovered
  <1> QED  BY <1>3, <1>4, <1>5

LEMMA StepStutter == ASSUME SizingInv, UNCHANGED sizingVars PROVE SizingInv'
  <1>1. UNCHANGED <<pipeline, market, stable, cngn, phase, todo, low, high, dead, cands, scored, chosen>>
    BY DEF sizingVars, purse, span
  <1>2. SizingTypeOK'  BY <1>1 DEF SizingInv, SizingTypeOK
  <1>3. Queue' /\ Spans'  BY <1>1 DEF SizingInv, Queue, Spans, Held, cand
  <1>4. SearchSound'  BY <1>1 DEF SizingInv, SearchSound, PeakKept, DeadIsDead, f
  <1>5. RouteIsCovered'  BY <1>1 DEF SizingInv, RouteIsCovered
  <1> QED  BY <1>2, <1>3, <1>4, <1>5 DEF SizingInv

LEMMA Inductive == SizingInv /\ [SizingNext]_sizingVars => SizingInv'
  <1> SUFFICES ASSUME SizingInv, [SizingNext]_sizingVars PROVE SizingInv'  OBVIOUS
  <1>1. CASE SpreadCheck  BY <1>1, StepSpreadCheck
  <1>2. CASE Narrow       BY <1>2, StepNarrow
  <1>3. CASE Found        BY <1>3, StepFound
  <1>4. CASE Detected     BY <1>4, StepDetected
  <1>5. CASE Skip         BY <1>5, StepSkip
  <1>6. CASE CapByBook    BY <1>6, StepCapByBook
  <1>7. CASE CapBySearch  BY <1>7, StepCapBySearch
  <1>8. CASE Halve        BY <1>8, StepHalve
  <1>9. CASE Score        BY <1>9, StepScore
  <1>10. CASE Choose      BY <1>10, StepChoose
  <1>11. CASE UNCHANGED sizingVars  BY <1>11, StepStutter
  <1> QED
    BY <1>1, <1>2, <1>3, <1>4, <1>5, <1>6, <1>7, <1>8, <1>9, <1>10, <1>11 DEF SizingNext

LEMMA SizingInvariant == SizingSpec => []SizingInv
  BY InitInv, Inductive, PTL DEF SizingSpec

-----------------------------------------------------------------------------
(* Whatever the market does between detection and routing, sizes stay on   *)
(* the grid the searches walk and every score is of a size it prices.      *)
THEOREM SizingTypes == SizingSpec => []SizingTypeOK
  <1>1. SizingInv => SizingTypeOK  BY DEF SizingInv
  <1> QED  BY <1>1, SizingInvariant, PTL

(* For every unimodal profit, the ternary search never drops the best size *)
(* and the spread check never drops a direction that would have paid.      *)
THEOREM SearchKeepsThePeak == SizingSpec => []SearchSound
  <1>1. SizingInv => SearchSound  BY DEF SizingInv
  <1> QED  BY <1>1, SizingInvariant, PTL

(* For every market, no route the router accepts asks a wallet for more    *)
(* than it was known to hold, although detection priced another market.    *)
THEOREM RoutesAreCovered == SizingSpec => []RouteIsCovered
  <1>1. SizingInv => RouteIsCovered  BY DEF SizingInv
  <1> QED  BY <1>1, SizingInvariant, PTL

=============================================================================
