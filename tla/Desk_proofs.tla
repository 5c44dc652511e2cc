---------------------------- MODULE Desk_proofs ------------------------------
(* Theorems about the figures of the desk that are sums over lists: the volume   *)
(* the gate of RiskGate limits, the swaps of a pool that PoolVolume counts, and  *)
(* the averages, balances and ticks of MarketFigures. All are built entry by     *)
(* entry, so the module begins with induction on the natural numbers, in a form  *)
(* that ranges over sets.                                                        *)
EXTENDS RiskGate, PoolVolume, MarketFigures, FiniteSetTheorems, SequenceTheorems,
        WellFoundedInduction, TLAPS

-----------------------------------------------------------------------------
(* Induction.                                                                *)

(* A set of natural numbers that is not empty has a least one.                 *)
LEMMA NatLeast ==
  ASSUME NEW T \in SUBSET Nat, T # {}
  PROVE  \E m \in T : \A k \in T : m <= k
<1> DEFINE R == OpToRel(<, Nat)
<1>1. IsWellFoundedOn(R, Nat)
  BY NatLessThanWellFounded
<1>2. \A k, m \in Nat : k < m => <<k, m>> \in R
  BY DEF OpToRel
<1> HIDE DEF R
<1>3. PICK x \in T : \A y \in T : ~ (<<y, x>> \in R)
  BY <1>1, WFMin
<1>4. \A k \in T : ~(k < x)
  BY <1>2, <1>3
<1>5. x \in Nat /\ \A k \in T : k \in Nat
  OBVIOUS
<1>6. \A k \in T : x <= k
  BY <1>4, <1>5
<1> QED
  BY <1>6

(* A set with 0 and every successor of a member holds every number.            *)
LEMMA SetInduction ==
  ASSUME NEW S, 0 \in S, \A n \in Nat : n \in S => n + 1 \in S
  PROVE  Nat \subseteq S
<1> SUFFICES ASSUME Nat \ S # {} PROVE FALSE
  OBVIOUS
<1> DEFINE T == Nat \ S
<1>1. PICK m \in T : \A k \in T : m <= k
  BY NatLeast
<1>2. m # 0 /\ m - 1 \in Nat
  BY <1>1
<1>3. m - 1 \in S
  BY <1>1, <1>2
<1>4. m \in S
  BY <1>2, <1>3
<1> QED
  BY <1>4

(* f is what n steps make of base; step takes the number of the step with the   *)
(* value before it.                                                            *)
Runs(f, base, step, n) == f[0] = base /\ \A k \in 1..n : f[k] = step[<<k, f[k - 1]>>]

Closed(A, step, n) == \A k \in 1..n, a \in A : step[<<k, a>>] \in A

(* A value that every step keeps in A can be followed for any number of steps. *)
LEMMA Unrolled ==
  ASSUME NEW A, NEW base \in A, NEW n \in Nat, NEW step, Closed(A, step, n)
  PROVE  \E f \in [0..n -> A] : Runs(f, base, step, n)
<1> USE DEF Closed
<1> DEFINE Steps(f, m) == f[0] = base /\ \A k \in 1..m : f[k] = step[<<k, f[k - 1]>>]
           S == {m \in Nat : m <= n => \E f \in [0..m -> A] : Steps(f, m)}
<1>1. 0 \in S
  <2>1. [k \in 0..0 |-> base] \in [0..0 -> A] /\ Steps([k \in 0..0 |-> base], 0)
    OBVIOUS
  <2> QED
    BY <2>1
<1>2. ASSUME NEW m \in Nat, m \in S PROVE m + 1 \in S
  <2> SUFFICES ASSUME m + 1 <= n
               PROVE  \E f \in [0..(m + 1) -> A] : Steps(f, m + 1)
    OBVIOUS
  <2>1. PICK f \in [0..m -> A] : Steps(f, m)
    BY <1>2
  <2> DEFINE last == step[<<m + 1, f[m]>>]
             g == [k \in 0..(m + 1) |-> IF k = m + 1 THEN last ELSE f[k]]
  <2>2. last \in A
    <3>1. f[m] \in A /\ m + 1 \in 1..n
      OBVIOUS
    <3> QED
      BY <3>1
  <2>3. g \in [0..(m + 1) -> A]
    BY <2>2
  <2>4. g[0] = base
    BY <2>1
  <2>5. ASSUME NEW k \in 1..(m + 1) PROVE g[k] = step[<<k, g[k - 1]>>]
    <3>1. CASE k = m + 1
      <4>1. m \in 0..(m + 1) /\ m # m + 1 /\ k \in 0..(m + 1) /\ k - 1 = m
        BY <3>1
      <4>2. g[k] = last /\ g[m] = f[m]
        BY <4>1, <3>1
      <4> QED
        BY <4>1, <4>2, <3>1
    <3>2. CASE k # m + 1
      <4>1. k \in 1..m /\ k - 1 \in 0..m /\ k - 1 # m + 1 /\ k \in 0..(m + 1) /\ k - 1 \in 0..(m + 1)
        BY <3>2
      <4>2. f[k] = step[<<k, f[k - 1]>>]
        BY <4>1, <2>1
      <4>3. g[k] = f[k] /\ g[k - 1] = f[k - 1]
        BY <4>1
      <4> QED
        BY <4>2, <4>3
    <3> QED
      BY <3>1, <3>2
  <2> HIDE DEF g
  <2> QED
    BY <2>3, <2>4, <2>5
<1>3. n \in S
  <2> HIDE DEF S
  <2> QED
    BY <1>1, <1>2, SetInduction
<1> QED
  BY <1>3 DEF Runs

-----------------------------------------------------------------------------
(* Sums over the trade log.                                                  *)

Weight(entries, counted, n) == IF n \in counted THEN entries[n].size ELSE 0

Sized(entries) == \A i \in DOMAIN entries : entries[i].size \in Nat

(* A total is the last of the sums up to each entry.                           *)
LEMMA TotalSteps ==
  ASSUME NEW X, NEW s \in Seq(X), Sized(s), NEW c
  PROVE  \E f \in [0..Len(s) -> Nat] :
           /\ f[0] = 0
           /\ \A k \in 1..Len(s) : f[k] = f[k - 1] + Weight(s, c, k)
           /\ Total(s, c) = f[Len(s)]
<1> DEFINE n == Len(s)
           step == [p \in (1..n) \X Nat |-> p[2] + Weight(s, c, p[1])]
           P(f) == f = [k \in 0..n |-> IF k = 0 THEN 0
                                       ELSE f[k - 1] + (IF k \in c THEN s[k].size ELSE 0)]
<1>1. n \in Nat /\ DOMAIN s = 1..n
  OBVIOUS
<1>2. \A k \in 1..n : Weight(s, c, k) \in Nat
  BY <1>1 DEF Weight, Sized
<1>3. \A k \in 1..n, a \in Nat : step[<<k, a>>] = a + Weight(s, c, k) /\ step[<<k, a>>] \in Nat
  BY <1>2
<1> HIDE DEF step
<1>4. PICK f \in [0..n -> Nat] : Runs(f, 0, step, n)
  <2>1. Closed(Nat, step, n)
    BY <1>3 DEF Closed
  <2> QED
    BY <2>1, <1>1, Unrolled
<1>5. \A k \in 1..n : f[k] = f[k - 1] + Weight(s, c, k)
  <2> TAKE k \in 1..n
  <2>1. k - 1 \in 0..n
    BY <1>1
  <2> QED
    BY <2>1, <1>3, <1>4 DEF Runs
<1>6. P(f)
  <2>1. \A k \in 0..n : f[k] = IF k = 0 THEN 0
                               ELSE f[k - 1] + (IF k \in c THEN s[k].size ELSE 0)
    <3> TAKE k \in 0..n
    <3>1. k # 0 => k \in 1..n
      BY <1>1
    <3> QED
      BY <3>1, <1>4, <1>5 DEF Weight, Runs
  <2> QED
    BY <2>1
<1> DEFINE g == CHOOSE h : P(h)
<1>7. P(g)
  <2> HIDE DEF P
  <2> QED
    BY <1>6
<1>8. Total(s, c) = g[n]
  BY DEF Total
<1> HIDE DEF g
<1>9. g[0] = 0 /\ \A k \in 1..n : g[k] = g[k - 1] + Weight(s, c, k)
  BY <1>7, <1>1 DEF Weight
<1> DEFINE S == {m \in Nat : m <= n => g[m] = f[m]}
<1>10. 0 \in S
  BY <1>9, <1>4 DEF Runs
<1>11. \A m \in Nat : m \in S => m + 1 \in S
  <2> SUFFICES ASSUME NEW m \in Nat, m \in S, m + 1 <= n PROVE g[m + 1] = f[m + 1]
    OBVIOUS
  <2>1. m + 1 \in 1..n /\ (m + 1) - 1 = m /\ g[m] = f[m]
    BY <1>1
  <2> QED
    BY <2>1, <1>5, <1>9
<1>12. g[n] = f[n]
  <2>1. n \in S
    <3> HIDE DEF S
    <3> QED
      BY <1>1, <1>10, <1>11, SetInduction
  <2> QED
    BY <2>1
<1> QED
  BY <1>4, <1>5, <1>8, <1>12 DEF Runs

(* Entries that are the last ones of a longer list, and of which no more count, *)
(* sum up to no more.                                                           *)
LEMMA TotalWithin ==
  ASSUME NEW X, NEW s \in Seq(X), Sized(s), NEW c, NEW t \in Seq(X), Sized(t), NEW d,
         NEW k \in Nat, Len(t) + k = Len(s),
         \A j \in 1..Len(t) : j \in d => j + k \in c /\ t[j].size = s[j + k].size
  PROVE  Total(t, d) \in Nat /\ Total(s, c) \in Nat /\ Total(t, d) <= Total(s, c)
<1>1. Len(s) \in Nat /\ Len(t) \in Nat /\ DOMAIN s = 1..Len(s) /\ DOMAIN t = 1..Len(t)
  OBVIOUS
<1>2. PICK f \in [0..Len(s) -> Nat] :
        /\ f[0] = 0
        /\ \A i \in 1..Len(s) : f[i] = f[i - 1] + Weight(s, c, i)
        /\ Total(s, c) = f[Len(s)]
  BY TotalSteps
<1>3. PICK g \in [0..Len(t) -> Nat] :
        /\ g[0] = 0
        /\ \A i \in 1..Len(t) : g[i] = g[i - 1] + Weight(t, d, i)
        /\ Total(t, d) = g[Len(t)]
  BY TotalSteps
<1> DEFINE S == {m \in Nat : m <= Len(t) => g[m] <= f[m + k]}
<1>4. 0 \in S
  <2>1. k \in 0..Len(s) /\ 0 + k = k
    BY <1>1
  <2>2. f[k] \in Nat
    BY <2>1
  <2> QED
    BY <2>1, <2>2, <1>3
<1>5. \A m \in Nat : m \in S => m + 1 \in S
  <2> SUFFICES ASSUME NEW m \in Nat, m \in S, m + 1 <= Len(t)
               PROVE  g[m + 1] <= f[(m + 1) + k]
    OBVIOUS
  <2>1. /\ m + 1 \in 1..Len(t) /\ (m + 1) - 1 = m /\ m \in 0..Len(t)
        /\ m + 1 + k \in 1..Len(s) /\ (m + 1 + k) - 1 = m + k /\ m + k \in 0..Len(s)
    BY <1>1
  <2>2. g[m + 1] = g[m] + Weight(t, d, m + 1) /\ f[m + 1 + k] = f[m + k] + Weight(s, c, m + 1 + k)
    BY <2>1, <1>2, <1>3
  <2>3. Weight(t, d, m + 1) \in Nat /\ Weight(s, c, m + 1 + k) \in Nat
    BY <2>1, <1>1 DEF Weight, Sized
  <2>4. Weight(t, d, m + 1) <= Weight(s, c, m + 1 + k)
    BY <2>1, <2>3 DEF Weight
  <2>5. g[m] <= f[m + k] /\ g[m] \in Nat /\ f[m + k] \in Nat
    BY <2>1
  <2> QED
    BY <2>2, <2>3, <2>4, <2>5
<1>6. Len(t) \in S
  <2> HIDE DEF S
  <2> QED
    BY <1>1, <1>4, <1>5, SetInduction
<1>7. g[Len(t)] <= f[Len(s)]
  <2>1. g[Len(t)] <= f[Len(t) + k]
    BY <1>1, <1>6
  <2> QED
    BY <2>1
<1>8. g[Len(t)] \in Nat /\ f[Len(s)] \in Nat
  <2>1. Len(t) \in 0..Len(t) /\ Len(s) \in 0..Len(s)
    BY <1>1
  <2> QED
    BY <2>1
<1> QED
  BY <1>2, <1>3, <1>7, <1>8

(* One more entry adds its size, if it counts.                                 *)
Added(s, e, c) == IF Len(s) + 1 \in c THEN e.size ELSE 0

LEMMA TotalAppend ==
  ASSUME NEW X, NEW s \in Seq(X), Sized(s), NEW e \in X, e.size \in Nat, NEW c
  PROVE  /\ Sized(Append(s, e))
         /\ Total(Append(s, e), c)
              = Total(s, c) + Added(s, e, c)
<1> DEFINE t == Append(s, e)
           n == Len(s)
<1>1. /\ n \in Nat /\ t \in Seq(X) /\ Len(t) = n + 1 /\ DOMAIN t = 1..(n + 1) /\ DOMAIN s = 1..n
      /\ t[n + 1] = e /\ \A i \in 1..n : t[i] = s[i]
  OBVIOUS
<1> HIDE DEF t
<1>2. Sized(t)
  BY <1>1 DEF Sized
<1>3. PICK f \in [0..n -> Nat] :
        /\ f[0] = 0
        /\ \A i \in 1..n : f[i] = f[i - 1] + Weight(s, c, i)
        /\ Total(s, c) = f[n]
  BY TotalSteps
<1>4. PICK g \in [0..Len(t) -> Nat] :
        /\ g[0] = 0
        /\ \A i \in 1..Len(t) : g[i] = g[i - 1] + Weight(t, c, i)
        /\ Total(t, c) = g[Len(t)]
  BY TotalSteps, <1>1, <1>2
<1> DEFINE S == {m \in Nat : m <= n => g[m] = f[m]}
<1>5. 0 \in S
  BY <1>3, <1>4
<1>6. \A m \in Nat : m \in S => m + 1 \in S
  <2> SUFFICES ASSUME NEW m \in Nat, m \in S, m + 1 <= n PROVE g[m + 1] = f[m + 1]
    OBVIOUS
  <2>1. m + 1 \in 1..n /\ m + 1 \in 1..Len(t) /\ (m + 1) - 1 = m /\ g[m] = f[m]
    BY <1>1
  <2>2. Weight(t, c, m + 1) = Weight(s, c, m + 1)
    BY <2>1, <1>1 DEF Weight
  <2> QED
    BY <2>1, <2>2, <1>3, <1>4
<1>7. n \in S
  <2> HIDE DEF S
  <2> QED
    BY <1>1, <1>5, <1>6, SetInduction
<1>8. g[n] = f[n]
  BY <1>1, <1>7
<1>9. g[n + 1] = g[n] + Weight(t, c, n + 1)
  <2>1. n + 1 \in 1..Len(t) /\ (n + 1) - 1 = n
    BY <1>1
  <2> QED
    BY <2>1, <1>4
<1>10. Total(t, c) = g[n + 1]
  BY <1>1, <1>4
<1>11. Total(t, c) = Total(s, c) + Weight(t, c, n + 1)
  BY <1>3, <1>8, <1>9, <1>10
<1> QED
  BY <1>1, <1>2, <1>11 DEF Weight, Added, t

LEMMA TotalEmpty == \A c : Total(<<>>, c) = 0
<1> SUFFICES ASSUME NEW c PROVE Total(<<>>, c) = 0
  OBVIOUS
<1> DEFINE s == <<>>
<1>1. s \in Seq({}) /\ Len(s) = 0 /\ Sized(s)
  BY DEF Sized
<1> HIDE DEF s
<1>2. PICK f \in [0..Len(s) -> Nat] : f[0] = 0 /\ Total(s, c) = f[Len(s)]
  BY <1>1, TotalSteps
<1> QED
  BY <1>1, <1>2 DEF s

-----------------------------------------------------------------------------
(* The gate.                                                                 *)

Traded == [at : Int, size : Nat, gated : BOOLEAN]
Tasked == [size : Nat, gated : BOOLEAN, begun : BOOLEAN]

(* One task at most, which holds the flag.                                     *)
GateInv ==
  /\ now \in Int
  /\ log \in Seq(Traded)
  /\ tasks \in Seq(Tasked) /\ Len(tasks) <= 1
  /\ executing \in BOOLEAN /\ (executing <=> tasks # <<>>)
  /\ VolumeBounded

(* Sizes and limits are amounts, in whatever unit.                             *)
Amounts == TradeSizes \subseteq Nat /\ MaxVolume \in Nat /\ Day \in Nat

GatedVolume(entries, t) == Total(entries, {i \in DOMAIN entries : entries[i].at > t - Day}
                                            \cap Gated(entries))
Claimed(list) == Total(list, Gated(list))

LEMMA VolumeIs == VolumeBounded <=> GatedVolume(log, now) + Claimed(tasks) <= MaxVolume
  BY DEF VolumeBounded, GatedVolume, Claimed, Recent

(* What the only task claims.                                                  *)
LEMMA ClaimedIs ==
  /\ Claimed(<<>>) = 0
  /\ \A t \in Tasked : Claimed(<<t>>) = IF t.gated THEN t.size ELSE 0
<1>1. Claimed(<<>>) = 0
  BY TotalEmpty DEF Claimed
<1>2. ASSUME NEW t \in Tasked PROVE Claimed(<<t>>) = IF t.gated THEN t.size ELSE 0
  <2> DEFINE c == Gated(<<t>>)
             none == <<>>
  <2>1. <<t>> = Append(none, t) /\ none \in Seq(Tasked) /\ Len(none) = 0
    OBVIOUS
  <2>2. Sized(none) /\ t.size \in Nat /\ t.gated \in BOOLEAN
    BY DEF Sized, Tasked
  <2>3. 1 \in c <=> t.gated
    BY DEF Gated
  <2>4. Total(none, c) = 0
    BY TotalEmpty
  <2>5. Claimed(<<t>>) = Total(<<t>>, c)
    BY DEF Claimed
  <2> HIDE DEF c, none
  <2>6. Total(Append(none, t), c) = Total(none, c) + Added(none, t, c)
    BY <2>1, <2>2, TotalAppend
  <2> QED
    BY <2>1, <2>2, <2>3, <2>4, <2>5, <2>6 DEF Added
<1> QED
  BY <1>1, <1>2

(* The volume let through is a part of the volume, and does not grow with time. *)
LEMMA GatedVolumeIs ==
  ASSUME NEW entries \in Seq(Traded), NEW t \in Int, Day \in Nat
  PROVE  /\ GatedVolume(entries, t) \in Nat
         /\ GatedVolume(entries, t) <= Total(entries, {i \in DOMAIN entries : entries[i].at > t - Day})
         /\ Total(entries, {i \in DOMAIN entries : entries[i].at > t - Day}) \in Nat
         /\ GatedVolume(entries, t + 1) \in Nat
         /\ GatedVolume(entries, t + 1) <= GatedVolume(entries, t)
<1> DEFINE c(u) == {i \in DOMAIN entries : entries[i].at > u - Day}
<1>1. Sized(entries) /\ Len(entries) \in Nat
  <2>1. \A i \in DOMAIN entries : entries[i] \in Traded
    OBVIOUS
  <2> QED
    BY <2>1 DEF Sized, Traded
<1>2. c(t) \cap Gated(entries) \subseteq c(t)
  OBVIOUS
<1>3. c(t + 1) \cap Gated(entries) \subseteq c(t) \cap Gated(entries)
  BY DEF Traded
<1> HIDE DEF c
<1>4. \A a, b : a \subseteq b =>
        Total(entries, a) \in Nat /\ Total(entries, b) \in Nat /\ Total(entries, a) <= Total(entries, b)
  <2> SUFFICES ASSUME NEW a, NEW b, a \subseteq b
               PROVE  Total(entries, a) \in Nat /\ Total(entries, b) \in Nat
                      /\ Total(entries, a) <= Total(entries, b)
    OBVIOUS
  <2>1. 0 \in Nat /\ Len(entries) + 0 = Len(entries)
        /\ \A j \in 1..Len(entries) : j \in a => j + 0 \in b /\ entries[j].size = entries[j + 0].size
    BY <1>1
  <2> QED
    BY <1>1, <2>1, TotalWithin
<1>5. GatedVolume(entries, t) = Total(entries, c(t) \cap Gated(entries))
      /\ GatedVolume(entries, t + 1) = Total(entries, c(t + 1) \cap Gated(entries))
  BY DEF GatedVolume, c
<1> QED
  BY <1>2, <1>3, <1>4, <1>5 DEF c

(* What is dropped in front of the log counted for nothing.                    *)
LEMMA TrimmedIs ==
  ASSUME log \in Seq(Traded), now \in Int, Day \in Nat
  PROVE  Trimmed \in Seq(Traded) /\ GatedVolume(Trimmed, now) <= GatedVolume(log, now)
<1> DEFINE R == Recent(log)
           first == CHOOSE i \in R : \A j \in R : i <= j
<1>1. Len(log) \in Nat /\ DOMAIN log = 1..Len(log) /\ R \subseteq Nat
  BY DEF Recent
<1>2. GatedVolume(log, now) \in Nat
  BY GatedVolumeIs
<1>3. CASE R = {}
  <2>1. Trimmed = <<>>
    BY <1>3 DEF Trimmed
  <2>2. GatedVolume(<<>>, now) = 0
    BY TotalEmpty DEF GatedVolume
  <2> QED
    BY <2>1, <2>2, <1>2
<1>4. CASE R # {}
  <2>1. \E i \in R : \A j \in R : i <= j
    BY <1>1, <1>4, NatLeast
  <2>2. first \in R /\ \A j \in R : first <= j
    <3> HIDE DEF R
    <3> QED
      BY <2>1
  <2>3. first \in 1..Len(log)
    BY <2>2, <1>1 DEF Recent
  <2>4. Trimmed = SubSeq(log, first, Len(log))
    BY <1>4 DEF Trimmed
  <2> HIDE DEF first, R
  <2> DEFINE k == first - 1
             t == SubSeq(log, first, Len(log))
             c == {i \in DOMAIN log : log[i].at > now - Day} \cap Gated(log)
             d == {i \in DOMAIN t : t[i].at > now - Day} \cap Gated(t)
  <2>5. /\ t \in Seq(Traded) /\ Len(t) + k = Len(log) /\ k \in Nat /\ Len(t) \in Nat
        /\ \A j \in 1..Len(t) : t[j] = log[j + k] /\ j + k \in 1..Len(log)
    BY <2>3, <1>1
  <2>6. \A j \in 1..Len(t) : j \in d => j + k \in c /\ t[j].size = log[j + k].size
    BY <2>5, <1>1 DEF Gated
  <2>7. Sized(log) /\ Sized(t)
    <3>1. (\A i \in DOMAIN log : log[i] \in Traded) /\ (\A i \in DOMAIN t : t[i] \in Traded)
      BY <2>5
    <3> QED
      BY <3>1 DEF Sized, Traded
  <2>8. GatedVolume(Trimmed, now) = Total(t, d) /\ GatedVolume(log, now) = Total(log, c)
    BY <2>4 DEF GatedVolume
  <2> HIDE DEF k, t, c, d
  <2>9. Total(t, d) <= Total(log, c)
    BY <2>5, <2>6, <2>7, TotalWithin
  <2> QED
    BY <2>4, <2>5, <2>8, <2>9 DEF t
<1> QED
  BY <1>3, <1>4

(* A trade that enters the log adds its size, if the gate saw it.              *)
LEMMA LogGrows ==
  ASSUME NEW entries \in Seq(Traded), NEW e \in Traded, NEW t \in Int, Day \in Nat
  PROVE  /\ Append(entries, e) \in Seq(Traded)
         /\ GatedVolume(Append(entries, e), t)
              <= GatedVolume(entries, t) + (IF e.gated THEN e.size ELSE 0)
<1> DEFINE a == Append(entries, e)
           n == Len(entries)
           c == {i \in DOMAIN entries : entries[i].at > t - Day} \cap Gated(entries)
           d == {i \in DOMAIN a : a[i].at > t - Day} \cap Gated(a)
<1>1. /\ n \in Nat /\ a \in Seq(Traded) /\ DOMAIN a = 1..(n + 1) /\ DOMAIN entries = 1..n
      /\ a[n + 1] = e /\ \A i \in 1..n : a[i] = entries[i]
  OBVIOUS
<1>2. Sized(entries) /\ e.size \in Nat /\ e.gated \in BOOLEAN
  <2>1. \A i \in DOMAIN entries : entries[i] \in Traded
    OBVIOUS
  <2> QED
    BY <2>1 DEF Sized, Traded
<1>3. GatedVolume(a, t) = Total(a, d) /\ GatedVolume(entries, t) = Total(entries, c)
  BY DEF GatedVolume
<1>4. n + 1 \in d => e.gated
  BY <1>1 DEF Gated
<1>5. /\ 0 \in Nat /\ n + 0 = n
      /\ \A j \in 1..n : j \in d => j + 0 \in c /\ entries[j].size = entries[j + 0].size
  BY <1>1 DEF Gated
<1> HIDE DEF c, d
<1>6. Total(a, d) = Total(entries, d) + Added(entries, e, d)
  BY <1>2, TotalAppend
<1>7. Total(entries, d) <= Total(entries, c) /\ Total(entries, d) \in Nat /\ Total(entries, c) \in Nat
  BY <1>2, <1>5, TotalWithin
<1>8. Added(entries, e, d) <= (IF e.gated THEN e.size ELSE 0)
  BY <1>2, <1>4 DEF Added
<1>9. Added(entries, e, d) \in Nat
  BY <1>2 DEF Added
<1> HIDE DEF a
<1> QED
  BY <1>1, <1>2, <1>3, <1>6, <1>7, <1>8, <1>9 DEF a

-----------------------------------------------------------------------------
(* The invariant, by actions.                                                *)

LEMMA Single ==
  ASSUME NEW X, NEW x \in X
  PROVE  /\ <<x>> \in Seq(X) /\ Len(<<x>>) = 1 /\ <<x>>[1] = x
         /\ <<x>> # <<>> /\ Append(<<>>, x) = <<x>>
  OBVIOUS

LEMMA SingleIs ==
  ASSUME NEW X, NEW s \in Seq(X), Len(s) = 1
  PROVE  s = <<s[1]>> /\ s[1] \in X
<1>1. s[1] \in X
  OBVIOUS
<1>2. <<s[1]>> \in Seq(X) /\ Len(<<s[1]>>) = 1
  BY <1>1
<1>3. \A i \in 1..1 : s[i] = <<s[1]>>[i]
  OBVIOUS
<1> QED
  BY <1>1, <1>2, <1>3, SeqEqual

LEMMA SingleChanged ==
  ASSUME NEW X, NEW s \in Seq(X), Len(s) = 1, NEW e \in X
  PROVE  [s EXCEPT ![1] = e] = <<e>>
<1> DEFINE w == [s EXCEPT ![1] = e]
<1>1. w \in Seq(X) /\ Len(w) = 1 /\ w[1] = e
  BY ExceptSeq
<1> HIDE DEF w
<1>2. w = <<e>>
  BY <1>1, SingleIs
<1> QED
  BY <1>2 DEF w

LEMMA TaskList ==
  ASSUME NEW list, NEW t \in Tasked, list = <<t>>
  PROVE  list \in Seq(Tasked) /\ Len(list) <= 1 /\ list # <<>>
  BY Single

(* With no task, or one, what it claims is known.                              *)
Only(list) == list = <<>> \/ \E t \in Tasked : list = <<t>>

LEMMA OneTask ==
  ASSUME NEW list \in Seq(Tasked), Len(list) <= 1
  PROVE  Only(list) /\ Claimed(list) \in Nat
<1>1. CASE Len(list) = 0
  <2>1. list = <<>>
    BY <1>1
  <2> QED
    BY <2>1, ClaimedIs DEF Only
<1>2. CASE Len(list) = 1
  <2>1. list = <<list[1]>> /\ list[1] \in Tasked
    BY <1>2, SingleIs
  <2>2. Claimed(list) = IF list[1].gated THEN list[1].size ELSE 0
    BY <2>1, ClaimedIs
  <2>3. Claimed(list) \in Nat
    BY <2>1, <2>2 DEF Tasked
  <2> QED
    BY <2>1, <2>3 DEF Only
<1>3. Len(list) = 0 \/ Len(list) = 1
  <2>1. Len(list) \in Nat
    OBVIOUS
  <2>2. \A n \in Nat : n <= 1 => n = 0 \/ n = 1
    OBVIOUS
  <2> QED
    BY <2>1, <2>2, Zenon
<1> QED
  BY <1>1, <1>2, <1>3

LEMMA GateStarts == Amounts /\ GateInit => GateInv
<1> SUFFICES ASSUME Amounts, GateInit PROVE GateInv
  OBVIOUS
<1> USE DEF GateInit
<1>1. log \in Seq(Traded) /\ tasks \in Seq(Tasked) /\ Len(tasks) <= 1
  OBVIOUS
<1>2. GatedVolume(log, now) = 0
  BY TotalEmpty DEF GatedVolume
<1>3. Claimed(tasks) = 0
  BY ClaimedIs
<1>4. VolumeBounded
  BY <1>2, <1>3, VolumeIs DEF Amounts
<1>5. executing = FALSE /\ tasks = <<>> /\ now \in Int
  OBVIOUS
<1> QED
  BY <1>1, <1>4, <1>5 DEF GateInv

LEMMA VolumeIsNext == VolumeBounded' <=> GatedVolume(log', now') + Claimed(tasks') <= MaxVolume
  BY DEF VolumeBounded, GatedVolume, Claimed, Recent, Gated

LEMMA SpawnKeeps ==
  ASSUME GateInv, Amounts, NEW size \in TradeSizes, Spawn(size)
  PROVE  GateInv'
<1> USE DEF Spawn
<1> DEFINE t == [size |-> size, gated |-> TRUE, begun |-> FALSE]
<1>1. tasks = <<>>
  BY DEF GateInv
<1>2. tasks' = <<t>> /\ t \in Tasked /\ t.gated /\ t.size = size /\ size \in Nat
  BY <1>1 DEF Tasked, Amounts
<1>3. GatedVolume(log, now) \in Nat /\ GatedVolume(log, now) <= Total(log, Recent(log))
      /\ Total(log, Recent(log)) \in Nat
  BY GatedVolumeIs DEF GateInv, Recent, Amounts
<1>4. Total(log, Recent(log)) + size <= MaxVolume
  BY DEF CanTrade
<1> HIDE DEF t
<1>5. Claimed(tasks') = size
  BY <1>2, ClaimedIs
<1>6. GatedVolume(log, now) + Claimed(tasks') <= MaxVolume
  BY <1>2, <1>3, <1>4, <1>5 DEF Amounts
<1>7. log' = log /\ now' = now /\ executing' = TRUE
  OBVIOUS
<1>8. VolumeBounded'
  BY <1>6, <1>7, VolumeIsNext
<1>9. tasks' \in Seq(Tasked) /\ Len(tasks') <= 1 /\ tasks' # <<>>
  BY <1>2, TaskList
<1> QED
  BY <1>7, <1>8, <1>9 DEF GateInv

LEMMA RecoverKeeps ==
  ASSUME GateInv, Amounts, NEW size \in TradeSizes, Recover(size)
  PROVE  GateInv'
<1> USE DEF Recover
<1> DEFINE t == [size |-> size, gated |-> FALSE, begun |-> TRUE]
<1>1. tasks = <<>>
  BY DEF GateInv
<1>2. tasks' = <<t>> /\ t \in Tasked /\ ~t.gated
  BY <1>1 DEF Tasked, Amounts
<1> HIDE DEF t
<1>3. Claimed(tasks') = 0 /\ Claimed(tasks) = 0
  <2>1. Claimed(<<t>>) = 0
    BY <1>2, ClaimedIs
  <2> QED
    BY <2>1, <1>1, <1>2, ClaimedIs
<1>4. GatedVolume(log, now) + Claimed(tasks') <= MaxVolume
  BY <1>3, VolumeIs DEF GateInv
<1>5. log' = log /\ now' = now /\ executing' = TRUE
  OBVIOUS
<1>6. VolumeBounded'
  BY <1>4, <1>5, VolumeIsNext
<1>7. tasks' \in Seq(Tasked) /\ Len(tasks') <= 1 /\ tasks' # <<>>
  BY <1>2, TaskList
<1> QED
  BY <1>5, <1>6, <1>7 DEF GateInv

LEMMA BeginKeeps ==
  ASSUME GateInv, Amounts, NEW i \in DOMAIN tasks, Begin(i)
  PROVE  GateInv'
<1> USE DEF Begin
<1>1. PICK t \in Tasked : tasks = <<t>>
  BY OneTask DEF GateInv, Only
<1> DEFINE u == [t EXCEPT !.begun = TRUE]
<1>2. tasks' = <<u>> /\ u \in Tasked /\ u.gated = t.gated /\ u.size = t.size
  <2>1. u \in Tasked /\ u.gated = t.gated /\ u.size = t.size
    BY DEF Tasked
  <2>2. i = 1 /\ tasks[1] = t /\ tasks \in Seq(Tasked) /\ Len(tasks) = 1
    BY <1>1, Single
  <2>3. tasks' = [tasks EXCEPT ![1] = u]
    BY <2>2
  <2> HIDE DEF u
  <2>4. [tasks EXCEPT ![1] = u] = <<u>>
    BY <2>1, <2>2, SingleChanged
  <2> QED
    BY <2>1, <2>3, <2>4
<1> HIDE DEF u
<1>3. Claimed(tasks') = Claimed(tasks)
  BY <1>1, <1>2, ClaimedIs
<1>4. GatedVolume(log, now) + Claimed(tasks') <= MaxVolume
  BY <1>3, VolumeIs DEF GateInv
<1>5. log' = log /\ now' = now /\ executing' = TRUE
  OBVIOUS
<1>6. VolumeBounded'
  BY <1>4, <1>5, VolumeIsNext
<1>7. tasks' \in Seq(Tasked) /\ Len(tasks') <= 1 /\ tasks' # <<>>
  BY <1>2, TaskList
<1> QED
  BY <1>5, <1>6, <1>7 DEF GateInv

(* The only task is over.                                                      *)
LEMMA DoneIs ==
  ASSUME GateInv, NEW i \in DOMAIN tasks, Done(i)
  PROVE  /\ tasks' = <<>> /\ executing' = FALSE
         /\ \E t \in Tasked : tasks = <<t>> /\ tasks[i] = t
         /\ Claimed(tasks') = 0
<1>1. PICK t \in Tasked : tasks = <<t>>
  BY OneTask DEF GateInv, Only
<1>2. i = 1
  BY <1>1
<1>3. tasks' = <<>>
  BY <1>1, <1>2 DEF Done, RemoveAt
<1> QED
  BY <1>1, <1>2, <1>3, ClaimedIs DEF Done

(* A trade that ends without entering the log only gives up its claim.         *)
LEMMA EndKeeps ==
  ASSUME GateInv, Amounts, NEW i \in DOMAIN tasks, Done(i), log' = log, now' = now
  PROVE  GateInv'
<1>1. tasks' = <<>> /\ executing' = FALSE /\ Claimed(tasks') = 0
  BY DoneIs
<1>2. Claimed(tasks) \in Nat /\ GatedVolume(log, now) \in Nat
  BY OneTask, GatedVolumeIs DEF GateInv, Amounts
<1>3. GatedVolume(log, now) + Claimed(tasks) <= MaxVolume
  BY VolumeIs DEF GateInv
<1>4. VolumeBounded'
  BY <1>1, <1>2, <1>3, VolumeIsNext DEF Amounts
<1>5. tasks' \in Seq(Tasked) /\ Len(tasks') <= 1
  BY <1>1
<1> QED
  BY <1>1, <1>4, <1>5 DEF GateInv

LEMMA CompleteKeeps ==
  ASSUME GateInv, Amounts, NEW i \in DOMAIN tasks, NEW profit \in Profits, Complete(i, profit)
  PROVE  GateInv'
<1>1. Done(i) /\ now' = now
      /\ log' = Append(Trimmed, [at |-> now, size |-> tasks[i].size, gated |-> tasks[i].gated])
  BY DEF Complete
<1>2. tasks' = <<>> /\ executing' = FALSE /\ Claimed(tasks') = 0
  BY <1>1, DoneIs
<1>3. PICK t \in Tasked : tasks = <<t>> /\ tasks[i] = t
  BY <1>1, DoneIs
<1> DEFINE e == [at |-> now, size |-> t.size, gated |-> t.gated]
<1>4. e \in Traded /\ e.gated = t.gated /\ e.size = t.size /\ log' = Append(Trimmed, e) /\ e.size \in Nat
  BY <1>1, <1>3 DEF GateInv, Traded, Tasked
<1> HIDE DEF e
<1>5. Trimmed \in Seq(Traded) /\ GatedVolume(Trimmed, now) <= GatedVolume(log, now)
  BY TrimmedIs DEF GateInv, Amounts
<1>6. log' \in Seq(Traded)
      /\ GatedVolume(log', now) <= GatedVolume(Trimmed, now) + (IF e.gated THEN e.size ELSE 0)
  BY <1>4, <1>5, LogGrows DEF GateInv, Amounts
<1>7. Claimed(tasks) = IF t.gated THEN t.size ELSE 0
  BY <1>3, ClaimedIs
<1>8. GatedVolume(log, now) + Claimed(tasks) <= MaxVolume
  BY VolumeIs DEF GateInv
<1>9. GatedVolume(log', now) \in Nat /\ GatedVolume(Trimmed, now) \in Nat /\ GatedVolume(log, now) \in Nat
  BY <1>5, <1>6, GatedVolumeIs DEF GateInv, Amounts
<1>10. GatedVolume(log', now) <= MaxVolume
  BY <1>4, <1>5, <1>6, <1>7, <1>8, <1>9 DEF Amounts
<1>11. VolumeBounded'
  BY <1>1, <1>2, <1>9, <1>10, VolumeIsNext DEF Amounts
<1>12. tasks' \in Seq(Tasked) /\ Len(tasks') <= 1
  BY <1>2
<1>13. now' \in Int
  BY <1>1 DEF GateInv
<1> QED
  BY <1>2, <1>6, <1>11, <1>12, <1>13 DEF GateInv

LEMMA TickKeeps ==
  ASSUME GateInv, Amounts, Tick
  PROVE  GateInv'
<1>1. now' = now + 1 /\ log' = log /\ tasks' = tasks /\ executing' = executing /\ now' \in Int
  BY DEF Tick, GateInv
<1>2. GatedVolume(log, now + 1) <= GatedVolume(log, now) /\ GatedVolume(log, now) \in Nat
      /\ GatedVolume(log, now + 1) \in Nat /\ Claimed(tasks) \in Nat
  BY GatedVolumeIs, OneTask DEF GateInv, Amounts
<1>3. GatedVolume(log, now) + Claimed(tasks) <= MaxVolume
  BY VolumeIs DEF GateInv
<1>4. GatedVolume(log, now + 1) + Claimed(tasks) <= MaxVolume
  BY <1>2, <1>3 DEF Amounts
<1>5. VolumeBounded'
  BY <1>1, <1>4, VolumeIsNext
<1> QED
  BY <1>1, <1>5 DEF GateInv

LEMMA GateRestartKeeps ==
  ASSUME GateInv, Amounts, GateRestart
  PROVE  GateInv'
<1>1. log' = <<>> /\ tasks' = <<>> /\ executing' = FALSE /\ now' = now
  BY DEF GateRestart
<1>2. GatedVolume(log', now') = 0
  BY <1>1, TotalEmpty DEF GatedVolume
<1>3. Claimed(tasks') = 0
  BY <1>1, ClaimedIs
<1>4. VolumeBounded'
  BY <1>2, <1>3, VolumeIsNext DEF Amounts
<1>5. log' \in Seq(Traded) /\ tasks' \in Seq(Tasked) /\ Len(tasks') <= 1 /\ now' \in Int
  BY <1>1 DEF GateInv
<1> QED
  BY <1>1, <1>4, <1>5 DEF GateInv

LEMMA GateStep == Amounts /\ GateInv /\ [GateNext]_gateVars => GateInv'
<1> SUFFICES ASSUME Amounts, GateInv, [GateNext]_gateVars PROVE GateInv'
  OBVIOUS
<1>1. ASSUME UNCHANGED <<now, log, executing, tasks>> PROVE GateInv'
  <2>1. VolumeBounded'
    BY <1>1, VolumeIs, VolumeIsNext DEF GateInv
  <2> QED
    BY <1>1, <2>1 DEF GateInv
<1>2. CASE \E size \in TradeSizes : Spawn(size) \/ Recover(size)
  BY <1>2, SpawnKeeps, RecoverKeeps
<1>3. CASE \E i \in DOMAIN tasks : Begin(i) \/ Fail(i) \/ Abort(i)
  <2> PICK i \in DOMAIN tasks : Begin(i) \/ Fail(i) \/ Abort(i)
    BY <1>3
  <2>1. CASE Begin(i)
    BY <2>1, BeginKeeps
  <2>2. CASE Fail(i)
    BY <2>2, EndKeeps DEF Fail
  <2>3. CASE Abort(i)
    BY <2>3, EndKeeps DEF Abort
  <2> QED
    BY <2>1, <2>2, <2>3
<1>4. CASE \E i \in DOMAIN tasks, p \in Profits : Complete(i, p)
  BY <1>4, CompleteKeeps
<1>5. CASE ResetBreaker \/ Snapshot
  BY <1>5, <1>1 DEF ResetBreaker, Snapshot
<1>6. CASE Tick
  BY <1>6, TickKeeps
<1>7. CASE GateRestart
  BY <1>7, GateRestartKeeps
<1>8. CASE UNCHANGED gateVars
  BY <1>8, <1>1 DEF gateVars
<1> QED
  BY <1>2, <1>3, <1>4, <1>5, <1>6, <1>7, <1>8 DEF GateNext

(* What the gate lets through within a day stays within the limit, for any      *)
(* sizes and limit: no second trade can pass while one that passed has not yet *)
(* entered the log.                                                            *)
THEOREM VolumeStaysBounded == GateSpec => []VolumeBounded
<1>1. Amounts
  BY GateAssumption DEF Amounts
<1>2. GateInit => GateInv
  BY <1>1, GateStarts
<1>3. GateInv /\ [GateNext]_gateVars => GateInv'
  BY <1>1, GateStep
<1>4. GateInv => VolumeBounded
  BY DEF GateInv
<1> QED
  BY <1>2, <1>3, <1>4, PTL DEF GateSpec

-----------------------------------------------------------------------------
(* The store of a pool.                                                      *)

SwapIds == {Swaps[i] : i \in DOMAIN Swaps}
Event   == [id : SwapIds, block : Nat]
Entry   == [id : SwapIds, at : Int]
Cursors == Nat \cup {None}
Stores  == [swaps : Seq(Entry), seeded : BOOLEAN, cursor : Cursors]

Entries(s)  == {s.swaps[i] : i \in DOMAIN s.swaps}
Distinct(s) == \A i, j \in DOMAIN s.swaps : s.swaps[i].id = s.swaps[j].id => i = j
Young(e)    == e.at >= clock - Window

Blocks == Window \in Nat /\ Slack \in Nat /\ Rpcs \in Nat

LEMMA IdsAre ==
  ASSUME NEW s
  PROVE  Ids(s.swaps) = {e.id : e \in Entries(s)}
  BY DEF Ids, Entries

(* Eviction drops entries in front of the first young one, and no young one.   *)
LEMMA EvictIs ==
  ASSUME NEW s \in Stores, clock \in Nat, Blocks
  PROVE  /\ Evict(s) \in Stores
         /\ Evict(s).seeded = s.seeded /\ Evict(s).cursor = s.cursor
         /\ Entries(Evict(s)) \subseteq Entries(s)
         /\ \A e \in Entries(s) : Young(e) => e \in Entries(Evict(s))
         /\ Distinct(s) => Distinct(Evict(s))
<1> DEFINE list == s.swaps
           young == {i \in DOMAIN list : list[i].at >= clock - Window}
           first == CHOOSE i \in young : \A j \in young : i <= j
           t == IF young = {} THEN <<>> ELSE SubSeq(list, first, Len(list))
<1>1. list \in Seq(Entry) /\ Len(list) \in Nat /\ DOMAIN list = 1..Len(list)
  BY DEF Stores
<1>2. Evict(s) = [s EXCEPT !.swaps = t]
  BY DEF Evict
<1>3. t \in Seq(Entry)
      /\ \E k \in Nat : /\ \A i \in DOMAIN t : t[i] = list[i + k] /\ i + k \in DOMAIN list
                        /\ \A j \in young : j - k \in DOMAIN t /\ t[j - k] = list[j]
  <2>1. CASE young = {}
    <3>1. t = <<>>
      BY <2>1
    <3> HIDE DEF t, young
    <3> QED
      BY <2>1, <3>1
  <2>2. CASE young # {}
    <3>1. young \subseteq Nat
      BY <1>1
    <3>2. first \in young /\ \A j \in young : first <= j
      <4>1. \E i \in young : \A j \in young : i <= j
        BY <2>2, <3>1, NatLeast
      <4> HIDE DEF young
      <4> QED
        BY <4>1
    <3>3. first \in 1..Len(list) /\ young \subseteq 1..Len(list)
      BY <3>2, <1>1
    <3>4. t = SubSeq(list, first, Len(list))
      BY <2>2
    <3> HIDE DEF t, young, first
    <3>5. t \in Seq(Entry) /\ Len(t) = Len(list) - first + 1
          /\ \A i \in 1..Len(t) : t[i] = list[i + (first - 1)]
      BY <3>3, <3>4, <1>1
    <3>6. DOMAIN t = 1..Len(t)
      BY <3>5
    <3> DEFINE k == first - 1
    <3>7. k \in Nat
      BY <3>3, <1>1
    <3>8. \A i \in DOMAIN t : t[i] = list[i + k] /\ i + k \in DOMAIN list
      <4> TAKE i \in DOMAIN t
      <4>1. i \in 1..Len(t) /\ Len(t) = Len(list) - k /\ t[i] = list[i + (first - 1)]
        BY <3>5, <3>6, <3>3, <1>1
      <4>2. i + k \in 1..Len(list)
        BY <4>1, <3>7, <1>1
      <4> QED
        BY <4>1, <4>2, <1>1
    <3>9. ASSUME NEW j \in young PROVE j - k \in DOMAIN t /\ t[j - k] = list[j]
      <4>1. j \in 1..Len(list) /\ first <= j
        BY <3>2, <3>3
      <4>2. j - k \in 1..Len(t) /\ (j - k) + (first - 1) = j
        BY <4>1, <3>3, <3>5, <1>1
      <4> QED
        BY <4>2, <3>5, <3>6
    <3> HIDE DEF k
    <3> QED
      BY <3>5, <3>7, <3>8, <3>9
  <2> QED
    BY <2>1, <2>2
<1>4. PICK k \in Nat : /\ \A i \in DOMAIN t : t[i] = list[i + k] /\ i + k \in DOMAIN list
                       /\ \A j \in young : j - k \in DOMAIN t /\ t[j - k] = list[j]
  BY <1>3
<1>5. Evict(s) \in Stores /\ Evict(s).swaps = t
      /\ Evict(s).seeded = s.seeded /\ Evict(s).cursor = s.cursor
  <2>1. t \in Seq(Entry)
    BY <1>3
  <2> HIDE DEF t
  <2> QED
    BY <1>2, <2>1 DEF Stores
<1>6. DOMAIN t \subseteq Int
  <2>1. t \in Seq(Entry)
    BY <1>3
  <2> HIDE DEF t
  <2> QED
    BY <2>1
<1> HIDE DEF t
<1>7. Entries(Evict(s)) \subseteq Entries(s)
  BY <1>4, <1>5 DEF Entries
<1>8. ASSUME NEW e \in Entries(s), Young(e) PROVE e \in Entries(Evict(s))
  <2>1. PICK j \in DOMAIN list : e = list[j]
    BY DEF Entries
  <2>2. j \in young
    BY <2>1, <1>8 DEF Young
  <2> QED
    BY <2>1, <2>2, <1>4, <1>5 DEF Entries
<1>9. ASSUME Distinct(s) PROVE Distinct(Evict(s))
  <2> SUFFICES ASSUME NEW i \in DOMAIN t, NEW j \in DOMAIN t, t[i].id = t[j].id
               PROVE  i = j
    BY <1>5 DEF Distinct
  <2>1. i + k \in DOMAIN list /\ j + k \in DOMAIN list /\ list[i + k].id = list[j + k].id
    BY <1>4
  <2>2. i + k = j + k
    BY <2>1, <1>9 DEF Distinct
  <2>3. i \in Int /\ j \in Int
    BY <1>6
  <2>4. \A a, b \in Int, c \in Nat : a + c = b + c => a = b
    OBVIOUS
  <2> HIDE DEF list, young, first
  <2> QED
    BY <2>2, <2>3, <2>4, Zenon
<1> QED
  BY <1>5, <1>7, <1>8, <1>9


(* A record adds the swap, unless it is known, and keeps what is young.        *)
LEMMA AppendedIs ==
  ASSUME NEW s \in Stores, NEW e \in Entry, NEW c \in Cursors, e.id \notin Ids(s.swaps)
  PROVE  LET a == [s EXCEPT !.swaps = Append(@, e), !.cursor = c] IN
         /\ a \in Stores /\ a.seeded = s.seeded /\ a.cursor = c
         /\ Entries(a) = Entries(s) \cup {e}
         /\ Distinct(s) => Distinct(a)
<1> DEFINE list == s.swaps
           a == [s EXCEPT !.swaps = Append(@, e), !.cursor = c]
           n == Len(list)
<1>1. list \in Seq(Entry) /\ n \in Nat /\ DOMAIN list = 1..n
  BY DEF Stores
<1>2. /\ Append(list, e) \in Seq(Entry) /\ DOMAIN Append(list, e) = 1..(n + 1)
      /\ Append(list, e)[n + 1] = e /\ \A i \in 1..n : Append(list, e)[i] = list[i]
  BY <1>1
<1>3. a \in Stores /\ a.seeded = s.seeded /\ a.cursor = c /\ a.swaps = Append(list, e)
  BY <1>2 DEF Stores
<1> HIDE DEF a, list, n
<1>4. Entries(a) = {list[i] : i \in 1..n} \cup {e}
  <2> DEFINE t == Append(list, e)
  <2>1. Entries(a) = {t[i] : i \in 1..(n + 1)}
    BY <1>2, <1>3 DEF Entries
  <2>2. t[n + 1] = e /\ \A i \in 1..n : t[i] = list[i]
    BY <1>2
  <2> HIDE DEF t
  <2>3. \A i \in 1..(n + 1) : i = n + 1 \/ i \in 1..n
    BY <1>1
  <2>4. n + 1 \in 1..(n + 1) /\ \A i \in 1..n : i \in 1..(n + 1)
    BY <1>1
  <2> QED
    BY <2>1, <2>2, <2>3, <2>4
<1>5. Entries(s) = {list[i] : i \in 1..n}
  BY <1>1 DEF Entries, list
<1>6. ASSUME Distinct(s) PROVE Distinct(a)
  <2> DEFINE t == Append(list, e)
  <2>1. t[n + 1] = e /\ \A i \in 1..n : t[i] = list[i] /\ list[i].id # e.id
    BY <1>1, <1>2 DEF Ids, list
  <2>2. a.swaps = t /\ DOMAIN t = 1..(n + 1)
    BY <1>2, <1>3
  <2> HIDE DEF t
  <2> SUFFICES ASSUME NEW i \in 1..(n + 1), NEW j \in 1..(n + 1), t[i].id = t[j].id
               PROVE  i = j
    BY <2>2 DEF Distinct
  <2>3. (i = n + 1 \/ i \in 1..n) /\ (j = n + 1 \/ j \in 1..n)
    BY <1>1
  <2>4. \A k, l \in 1..n : list[k].id = list[l].id => k = l
    BY <1>1, <1>6 DEF Distinct, list
  <2>5. CASE i = n + 1 /\ j = n + 1
    BY <2>5
  <2>6. CASE i = n + 1 /\ j \in 1..n
    BY <2>6, <2>1
  <2>7. CASE i \in 1..n /\ j = n + 1
    BY <2>7, <2>1
  <2>8. CASE i \in 1..n /\ j \in 1..n
    BY <2>8, <2>1, <2>4
  <2> QED
    BY <2>3, <2>5, <2>6, <2>7, <2>8
<1> QED
  BY <1>3, <1>4, <1>5, <1>6 DEF a

LEMMA RecordIs ==
  ASSUME NEW s \in Stores, NEW swap \in Event, NEW at \in Int, NEW block \in Cursors,
         clock \in Nat, Blocks
  PROVE  LET r == Record(s, swap, at, block) IN
         /\ r \in Stores /\ r.seeded = s.seeded
         /\ swap.id \in Ids(s.swaps) => r = s
         /\ swap.id \notin Ids(s.swaps) => r.cursor = Moved(s.cursor, block)
         /\ Entries(r) \subseteq Entries(s) \cup {[id |-> swap.id, at |-> at]}
         /\ \A e \in Entries(s) : Young(e) => e \in Entries(r)
         /\ at >= clock - Window => swap.id \in Ids(r.swaps)
         /\ Distinct(s) => Distinct(r)
<1> DEFINE e == [id |-> swap.id, at |-> at]
           c == Moved(s.cursor, block)
           a == [s EXCEPT !.swaps = Append(@, e), !.cursor = c]
           r == Record(s, swap, at, block)
<1>1. CASE swap.id \in Ids(s.swaps)
  BY <1>1 DEF Record
<1>2. CASE swap.id \notin Ids(s.swaps)
  <2>1. r = Evict(a)
    BY <1>2 DEF Record
  <2>2. e \in Entry /\ e.id = swap.id /\ e.at = at
    BY DEF Entry, Event
  <2>3. c \in Cursors
    BY DEF Moved, Cursors, Stores
  <2> HIDE DEF e, c, r
  <2>4. /\ a \in Stores /\ a.seeded = s.seeded /\ a.cursor = c
        /\ Entries(a) = Entries(s) \cup {e}
        /\ Distinct(s) => Distinct(a)
    BY <1>2, <2>2, <2>3, AppendedIs
  <2> HIDE DEF a
  <2>5. /\ r \in Stores /\ r.seeded = a.seeded /\ r.cursor = a.cursor
        /\ Entries(r) \subseteq Entries(a)
        /\ \A x \in Entries(a) : Young(x) => x \in Entries(r)
        /\ Distinct(a) => Distinct(r)
    BY <2>1, <2>4, EvictIs
  <2>6. at >= clock - Window => swap.id \in Ids(r.swaps)
    BY <2>2, <2>4, <2>5, IdsAre DEF Young
  <2> QED
    BY <1>2, <2>4, <2>5, <2>6 DEF e, c, r
<1> QED
  BY <1>1, <1>2

(* A scan's result is what the last of the swaps it found has made of the store.*)
Told(s, found, latest, k) ==
  IF k \in found THEN Record(s, chain[k], Dated(latest, chain[k].block), None) ELSE s

Told_Closed(A, found, latest) ==
  \A s \in A, k \in DOMAIN chain : Told(s, found, latest, k) \in A

LEMMA FilledSteps ==
  ASSUME NEW A, NEW s \in A, NEW found, NEW latest, chain \in Seq(Event), Told_Closed(A, found, latest)
  PROVE  \E f \in [0..Len(chain) -> A] :
           /\ f[0] = s
           /\ \A k \in 1..Len(chain) : f[k] = Told(f[k - 1], found, latest, k)
           /\ Filled(s, found, latest) = f[Len(chain)]
<1> DEFINE n == Len(chain)
           step == [p \in (1..n) \X A |-> Told(p[2], found, latest, p[1])]
           P(f) == f = [k \in 0..n |->
                          IF k = 0 THEN s
                          ELSE IF k \in found THEN Record(f[k - 1], chain[k], Dated(latest, chain[k].block), None)
                          ELSE f[k - 1]]
<1>1. n \in Nat /\ DOMAIN chain = 1..n
  OBVIOUS
<1>2. \A k \in 1..n, x \in A : step[<<k, x>>] = Told(x, found, latest, k) /\ step[<<k, x>>] \in A
  BY <1>1 DEF Told_Closed
<1> HIDE DEF step
<1>3. PICK f \in [0..n -> A] : Runs(f, s, step, n)
  <2>1. Closed(A, step, n)
    BY <1>2 DEF Closed
  <2> QED
    BY <2>1, <1>1, Unrolled
<1>4. \A k \in 1..n : f[k] = Told(f[k - 1], found, latest, k)
  <2> TAKE k \in 1..n
  <2>1. k - 1 \in 0..n
    BY <1>1
  <2>2. f[k - 1] \in A
    BY <2>1
  <2> QED
    BY <2>2, <1>2, <1>3 DEF Runs
<1>5. P(f)
  <2>1. \A k \in 0..n : f[k] = IF k = 0 THEN s
                               ELSE IF k \in found
                                 THEN Record(f[k - 1], chain[k], Dated(latest, chain[k].block), None)
                               ELSE f[k - 1]
    <3> TAKE k \in 0..n
    <3>1. k # 0 => k \in 1..n
      BY <1>1
    <3> QED
      BY <3>1, <1>3, <1>4 DEF Told, Runs
  <2> QED
    BY <2>1
<1> DEFINE g == CHOOSE h : P(h)
<1>6. P(g)
  <2> HIDE DEF P
  <2> QED
    BY <1>5
<1>7. Filled(s, found, latest) = g[n]
  BY DEF Filled
<1> HIDE DEF g
<1>8. g[0] = s /\ \A k \in 1..n : g[k] = Told(g[k - 1], found, latest, k)
  <2>1. \A k \in 0..n : g[k] = IF k = 0 THEN s
                               ELSE IF k \in found
                                 THEN Record(g[k - 1], chain[k], Dated(latest, chain[k].block), None)
                               ELSE g[k - 1]
    BY <1>6
  <2>2. 0 \in 0..n /\ \A k \in 1..n : k \in 0..n /\ k # 0
    BY <1>1
  <2> HIDE DEF P
  <2> QED
    BY <2>1, <2>2 DEF Told
<1> DEFINE S == {m \in Nat : m <= n => g[m] = f[m]}
<1>9. 0 \in S
  BY <1>8, <1>3 DEF Runs
<1>10. \A m \in Nat : m \in S => m + 1 \in S
  <2> SUFFICES ASSUME NEW m \in Nat, m \in S, m + 1 <= n PROVE g[m + 1] = f[m + 1]
    OBVIOUS
  <2>1. m + 1 \in 1..n /\ (m + 1) - 1 = m /\ g[m] = f[m]
    BY <1>1
  <2> QED
    BY <2>1, <1>4, <1>8
<1>11. g[n] = f[n]
  <2>1. n \in S
    <3> HIDE DEF S
    <3> QED
      BY <1>1, <1>9, <1>10, SetInduction
  <2> QED
    BY <2>1
<1> QED
  BY <1>3, <1>4, <1>7, <1>11 DEF Runs

(* Blocks have their time, which is not ahead of the clock.                    *)
Clocked ==
  /\ clock \in Nat /\ head \in Nat /\ stamp \in [0..head -> Nat]
  /\ \A b \in 0..head : stamp[b] <= clock

LEMMA DatedIs ==
  ASSUME Clocked, NEW latest \in 0..head, NEW block \in Nat
  PROVE  /\ Dated(latest, block) \in Int
         /\ Dated(latest, block) = stamp[latest] - (latest - block)
<1>1. stamp[latest] \in Nat /\ latest \in Nat
  BY DEF Clocked
<1> QED
  BY <1>1 DEF Dated

(* A scan counts no swap twice either.                                         *)
Clean == {s \in Stores : Distinct(s)}

LEMMA FilledIsClean ==
  ASSUME NEW s \in Clean, NEW found, Clocked, NEW latest \in 0..head,
         chain \in Seq(Event), Blocks
  PROVE  Filled(s, found, latest) \in Clean
<1>1. Told_Closed(Clean, found, latest)
  <2> SUFFICES ASSUME NEW x \in Clean, NEW k \in DOMAIN chain PROVE Told(x, found, latest, k) \in Clean
    BY DEF Told_Closed
  <2>1. chain[k] \in Event
    OBVIOUS
  <2>2. chain[k].block \in Nat /\ None \in Cursors /\ x \in Stores /\ clock \in Nat
    BY <2>1 DEF Event, Cursors, Clean, Clocked
  <2>3. Dated(latest, chain[k].block) \in Int
    BY <2>2, DatedIs
  <2>4. Record(x, chain[k], Dated(latest, chain[k].block), None) \in Clean
    BY <2>1, <2>2, <2>3, RecordIs DEF Clean
  <2> QED
    BY <2>4 DEF Told
<1>2. Len(chain) \in 0..Len(chain)
  OBVIOUS
<1> QED
  BY <1>1, <1>2, FilledSteps

-----------------------------------------------------------------------------
(* What is on the chain, in the inbox, in the store and on disk.             *)

ScanStates == [from : Cursors, since : Nat, tries : Int]

PoolTypes ==
  /\ Clocked
  /\ chain \in Seq(Event) /\ Len(chain) <= Len(Swaps)
  /\ store \in Stores /\ disk \in Stores
  /\ conn \in {"boot", "seeding", "down", "subscribing", "subscribed", "sync", "live"}
  /\ inbox \in Seq(Event)
  /\ scan \in ScanStates

CountInv == PoolTypes /\ Distinct(store) /\ Distinct(disk)

ListOfSwaps == \E X : Swaps \in Seq(X)

LEMMA EmptyIs == Empty \in Clean /\ Entries(Empty) = {} /\ Empty.cursor = None /\ ~Empty.seeded
<1>1. Empty \in Stores /\ Empty.swaps = <<>> /\ Empty.cursor = None /\ ~Empty.seeded
  BY DEF Empty, Stores, Cursors
<1> QED
  BY <1>1 DEF Clean, Distinct, Entries

LEMMA PoolStarts == ListOfSwaps /\ PoolInit => CountInv
<1> SUFFICES ASSUME ListOfSwaps, PoolInit PROVE CountInv
  OBVIOUS
<1>1. Empty \in Stores /\ Distinct(Empty)
  BY EmptyIs DEF Clean
<1>2. NoScan \in ScanStates
  BY DEF NoScan, ScanStates, Cursors
<1>3. Len(Swaps) \in Nat
  BY DEF ListOfSwaps
<1>4. <<>> \in Seq(Event) /\ Len(<<>>) = 0
  OBVIOUS
<1>5. Clocked
  BY DEF PoolInit, Clocked
<1> QED
  BY <1>1, <1>2, <1>3, <1>4, <1>5 DEF PoolInit, CountInv, PoolTypes

LEMMA MomentCounts == ASSUME CountInv, Moment PROVE CountInv'
<1>1. /\ clock' = clock + 1
      /\ UNCHANGED <<head, stamp, chain, store, disk, conn, inbox, scan>>
  BY DEF Moment
<1>2. Clocked'
  BY <1>1 DEF Clocked, CountInv, PoolTypes
<1> QED
  BY <1>1, <1>2 DEF CountInv, PoolTypes, Distinct

LEMMA BlockCounts == ASSUME CountInv, Block PROVE CountInv'
<1>1. /\ head' = head + 1 /\ stamp' = [b \in 0..head + 1 |-> IF b <= head THEN stamp[b] ELSE clock]
      /\ UNCHANGED <<clock, chain, store, disk, conn, inbox, scan>>
  BY DEF Block
<1>2. Clocked'
  <2>1. clock \in Nat /\ head \in Nat /\ \A b \in 0..head : stamp[b] \in Nat /\ stamp[b] <= clock
    BY DEF Clocked, CountInv, PoolTypes
  <2>2. \A b \in 0..head + 1 : stamp'[b] \in Nat /\ stamp'[b] <= clock
    BY <1>1, <2>1
  <2> QED
    BY <1>1, <2>1, <2>2 DEF Clocked
<1> QED
  BY <1>1, <1>2 DEF CountInv, PoolTypes, Distinct

LEMMA SwapCounts == ASSUME CountInv, ListOfSwaps, Swap PROVE CountInv'
<1> DEFINE swap == [id |-> Swaps[Len(chain) + 1], block |-> head]
<1>1. Len(Swaps) \in Nat /\ DOMAIN Swaps = 1..Len(Swaps) /\ Len(chain) \in Nat
  BY DEF ListOfSwaps, CountInv, PoolTypes
<1>2. Len(chain) + 1 \in DOMAIN Swaps
  BY <1>1 DEF Swap
<1>3. swap \in Event
  BY <1>2 DEF Event, SwapIds, CountInv, PoolTypes, Clocked
<1>4. chain' = Append(chain, swap) /\ (inbox' = Append(inbox, swap) \/ inbox' = inbox)
  BY DEF Swap
<1> HIDE DEF swap
<1>5. chain' \in Seq(Event) /\ Len(chain') = Len(chain) + 1
  BY <1>3, <1>4 DEF CountInv, PoolTypes
<1>6. inbox' \in Seq(Event)
  BY <1>3, <1>4 DEF CountInv, PoolTypes
<1>7. Len(chain') <= Len(Swaps)
  BY <1>1, <1>5 DEF Swap
<1>8. Clocked'
  BY DEF Swap, Clocked, CountInv, PoolTypes
<1> QED
  BY <1>5, <1>6, <1>7, <1>8 DEF Swap, CountInv, PoolTypes, Distinct

LEMMA StartScanCounts == ASSUME CountInv, Blocks, StartScan PROVE CountInv'
<1>1. Resume \in Cursors
  BY DEF Resume, Cursors, CountInv, PoolTypes, Stores
<1>2. scan' \in ScanStates
  BY <1>1 DEF StartScan, ScanStates, CountInv, PoolTypes, Clocked, Blocks
<1>3. conn' \in {"seeding", "sync"} /\ UNCHANGED <<clock, head, stamp, chain, store, disk, inbox>>
  BY DEF StartScan, network
<1> QED
  BY <1>2, <1>3 DEF CountInv, PoolTypes, Clocked, Distinct

LEMMA ScanOkCounts == ASSUME CountInv, Blocks, ScanOk PROVE CountInv'
<1>1. PICK latest \in 0..head :
        LET base == IF scan.from = None THEN [Empty EXCEPT !.seeded = TRUE] ELSE store
        IN store' = [Filled(base, Covered(latest), latest) EXCEPT !.cursor = Moved(@, latest)]
  BY DEF ScanOk
<1> DEFINE base == IF scan.from = None THEN [Empty EXCEPT !.seeded = TRUE] ELSE store
           r == Filled(base, Covered(latest), latest)
<1>2. base \in Clean
  <2>1. [Empty EXCEPT !.seeded = TRUE] \in Clean
    <3> DEFINE e == [Empty EXCEPT !.seeded = TRUE]
    <3>1. e \in Stores /\ e.swaps = Empty.swaps
      BY EmptyIs DEF Clean, Stores
    <3> HIDE DEF e
    <3>2. Distinct(e)
      BY <3>1, EmptyIs DEF Clean, Distinct
    <3> QED
      BY <3>1, <3>2 DEF Clean, e
  <2>2. store \in Clean
    BY DEF CountInv, PoolTypes, Clean
  <2> QED
    BY <2>1, <2>2
<1> HIDE DEF base
<1>3. r \in Clean
  BY <1>2, FilledIsClean DEF CountInv, PoolTypes
<1>4. store' = [r EXCEPT !.cursor = Moved(@, latest)]
  BY <1>1 DEF base
<1>5. latest \in Nat
  BY DEF CountInv, PoolTypes, Clocked
<1> HIDE DEF r
<1>6. store' \in Stores /\ store'.swaps = r.swaps
  <2>1. r \in Stores
    BY <1>3 DEF Clean
  <2>2. Moved(r.cursor, latest) \in Cursors
    BY <1>5, <2>1 DEF Moved, Cursors, Stores
  <2> QED
    BY <1>4, <2>1, <2>2 DEF Stores
<1>7. Distinct(store')
  BY <1>3, <1>6 DEF Clean, Distinct
<1>8. NoScan \in ScanStates
  BY DEF NoScan, ScanStates, Cursors
<1>9. conn' \in {"down", "live"} /\ scan' = NoScan /\ disk' = store'
      /\ UNCHANGED <<clock, head, stamp, chain, inbox>>
  BY DEF ScanOk, AfterScan, network
<1> QED
  BY <1>6, <1>7, <1>8, <1>9 DEF CountInv, PoolTypes, Clocked, Distinct

LEMMA ScanFailCounts == ASSUME CountInv, ScanFail PROVE CountInv'
<1>1. CASE scan.tries > 1
  <2>1. scan' \in ScanStates
    BY <1>1 DEF ScanFail, CountInv, PoolTypes, ScanStates
  <2>2. UNCHANGED <<clock, head, stamp, chain, store, disk, conn, inbox>>
    BY <1>1 DEF ScanFail, network
  <2> QED
    BY <2>1, <2>2 DEF CountInv, PoolTypes, Clocked, Distinct
<1>2. CASE ~(scan.tries > 1)
  <2>1. Empty \in Stores /\ Distinct(Empty) /\ NoScan \in ScanStates
    BY EmptyIs DEF Clean, NoScan, ScanStates, Cursors
  <2>2. conn' \in {"down", "live"} /\ scan' = NoScan /\ disk' = Empty /\ store' = Empty
        /\ UNCHANGED <<clock, head, stamp, chain, inbox>>
    BY <1>2 DEF ScanFail, AfterScan, network
  <2> QED
    BY <2>1, <2>2 DEF CountInv, PoolTypes, Clocked, Distinct
<1> QED
  BY <1>1, <1>2

(* The swap at the head of the inbox is recorded, if the store is seeded.      *)
LEMMA LiveCounts == ASSUME CountInv, Blocks, Live PROVE CountInv'
<1> DEFINE swap == Head(inbox)
<1>1. swap \in Event /\ inbox' \in Seq(Event)
  BY DEF Live, CountInv, PoolTypes
<1>2. store' = IF store.seeded THEN Record(store, swap, clock, swap.block) ELSE store
  BY DEF Live
<1> HIDE DEF swap
<1>3. swap.block \in Cursors
  BY <1>1 DEF Event, Cursors
<1>4. store' \in Stores /\ Distinct(store')
  <2>1. /\ Record(store, swap, clock, swap.block) \in Stores
        /\ Distinct(Record(store, swap, clock, swap.block))
    BY <1>1, <1>3, RecordIs DEF CountInv, PoolTypes, Clocked
  <2> QED
    BY <1>2, <2>1 DEF CountInv, PoolTypes, Distinct
<1>5. disk' \in {disk, store'} /\ UNCHANGED <<clock, head, stamp, chain, conn, scan>>
  BY DEF Live, network
<1> QED
  BY <1>1, <1>4, <1>5 DEF CountInv, PoolTypes, Clocked, Distinct

LEMMA AskCounts == ASSUME CountInv, Blocks, Ask PROVE CountInv'
<1>1. Evict(store) \in Stores /\ Distinct(Evict(store))
  BY EvictIs DEF CountInv, PoolTypes, Clocked
<1>2. store' = Evict(store) /\ UNCHANGED <<clock, head, stamp, chain, disk, conn, inbox, scan>>
  BY DEF Ask, network
<1> QED
  BY <1>1, <1>2 DEF CountInv, PoolTypes, Clocked, Distinct

LEMMA SocketCounts ==
  ASSUME CountInv, Subscribe \/ Subscribed \/ Close
  PROVE  CountInv'
<1>1. NoScan \in ScanStates /\ <<>> \in Seq(Event)
  BY DEF NoScan, ScanStates, Cursors
<1>2. /\ conn' \in {"subscribing", "subscribed", "down"}
      /\ scan' = scan \/ scan' = NoScan
      /\ inbox' = inbox \/ inbox' = <<>>
      /\ UNCHANGED <<clock, head, stamp, chain, store, disk>>
  BY DEF Subscribe, Subscribed, Close, network
<1> QED
  BY <1>1, <1>2 DEF CountInv, PoolTypes, Clocked, Distinct

LEMMA PoolRestartCounts == ASSUME CountInv, Blocks, PoolRestart PROVE CountInv'
<1>1. NoScan \in ScanStates /\ <<>> \in Seq(Event)
  BY DEF NoScan, ScanStates, Cursors
<1>2. Evict(disk) \in Stores /\ Distinct(Evict(disk))
  BY EvictIs DEF CountInv, PoolTypes, Clocked
<1>3. /\ conn' = "boot" /\ scan' = NoScan /\ inbox' = <<>> /\ store' = Evict(disk)
      /\ UNCHANGED <<clock, head, stamp, chain, disk>>
  BY DEF PoolRestart, network
<1> QED
  BY <1>1, <1>2, <1>3 DEF CountInv, PoolTypes, Clocked, Distinct

LEMMA CountStep ==
  ListOfSwaps /\ Blocks /\ CountInv /\ [PoolNext]_poolVars => CountInv'
<1>1. ASSUME CountInv, UNCHANGED poolVars PROVE CountInv'
  <2>1. UNCHANGED <<clock, head, stamp, chain, store, disk, conn, inbox, scan>>
    BY <1>1 DEF poolVars, network
  <2> QED
    BY <1>1, <2>1 DEF CountInv, PoolTypes, Clocked, Distinct
<1> QED
  BY <1>1, MomentCounts, BlockCounts, SwapCounts, StartScanCounts, ScanOkCounts, ScanFailCounts,
     SocketCounts, LiveCounts, AskCounts, PoolRestartCounts DEF PoolNext

(* No swap is counted twice, for any swaps, window and failing endpoints: not   *)
(* even if a swap's id came up again on the chain.                             *)
THEOREM CountedOnce == PoolSpec => []NoDoubleCount
<1>0. ListOfSwaps /\ Blocks
  BY PoolAssumption DEF ListOfSwaps, Blocks
<1>1. PoolInit => CountInv
  BY <1>0, PoolStarts
<1>2. CountInv /\ [PoolNext]_poolVars => CountInv'
  BY <1>0, CountStep
<1>3. CountInv => NoDoubleCount
  BY DEF CountInv, Distinct, NoDoubleCount
<1> QED
  BY <1>1, <1>2, <1>3, PTL DEF PoolSpec

-----------------------------------------------------------------------------
(* What a store misses of the chain.                                         *)

(* The ids of the swaps are their own.                                         *)
OwnIds == \A i, j \in DOMAIN Swaps : Swaps[i] = Swaps[j] => i = j

Mined(c, h) == \A i \in DOMAIN c : c[i].id = Swaps[i] /\ c[i].block <= h

(* Whatever is in a store was mined, and is stored as no older than it is,     *)
(* unless excused.                                                             *)
Sound(s, c, g, m) ==
  \A e \in Entries(s) : \E i \in DOMAIN c : c[i].id = e.id /\ (g[c[i].block] <= e.at \/ e.id \in m)

(* A swap that is too old at time t, stored, or excused; g has the time of      *)
(* every block.                                                                *)
Held(s, c, g, t, m, i) == g[c[i].block] < t - Window \/ c[i].id \in Ids(s.swaps) \cup m

(* A store holds everything before its cursor.                                 *)
Covers(s, c, h, g, t, m) ==
  s.seeded => /\ s.cursor \in Nat /\ s.cursor <= h
              /\ \A i \in DOMAIN c : c[i].block < s.cursor => Held(s, c, g, t, m, i)

(* The inbox is a part of the chain, in its order.                             *)
Heard(b, c) ==
  /\ \A k \in DOMAIN b : \E i \in DOMAIN c : b[k] = c[i]
  /\ \A k, l \in DOMAIN b : k < l => b[k].block <= b[l].block

(* A scan starts where the store ends, and what is mined meanwhile is heard.   *)
Scanning ==
  conn \in {"seeding", "sync"} =>
    /\ scan.from = Resume
    /\ conn = "sync" =>
         \A i \in DOMAIN chain : chain[i].block > scan.since => chain[i].id \in Ids(inbox)

GapInv ==
  /\ CountInv /\ Mined(chain, head)
  /\ Sound(store, chain, stamp, missed) /\ Sound(disk, chain, stamp, missed)
  /\ Covers(store, chain, head, stamp, clock, missed)
  /\ Covers(disk, chain, head, stamp, clock, missed)
  /\ Heard(inbox, chain) /\ Scanning /\ GapFilled

LEMMA IdsOfChain ==
  ASSUME ListOfSwaps, OwnIds, NEW c \in Seq(Event), NEW h, Mined(c, h), Len(c) <= Len(Swaps),
         NEW i \in DOMAIN c, NEW j \in DOMAIN c, c[i].id = c[j].id
  PROVE  i = j
<1>1. Len(Swaps) \in Nat /\ DOMAIN Swaps = 1..Len(Swaps) /\ DOMAIN c = 1..Len(c) /\ Len(c) \in Nat
  BY DEF ListOfSwaps
<1>2. i \in DOMAIN Swaps /\ j \in DOMAIN Swaps
  BY <1>1
<1>3. Swaps[i] = Swaps[j]
  BY DEF Mined
<1> QED
  BY <1>2, <1>3 DEF OwnIds

(* The swaps of the chain, as they are known in every state.                   *)
Chained == /\ ListOfSwaps /\ OwnIds /\ Blocks /\ Clocked
           /\ chain \in Seq(Event) /\ Len(chain) <= Len(Swaps) /\ Mined(chain, head)

LEMMA BlocksOfChain ==
  ASSUME Clocked, chain \in Seq(Event), Mined(chain, head), NEW i \in DOMAIN chain
  PROVE  /\ chain[i] \in Event /\ chain[i].block \in 0..head /\ chain[i].block \in Nat
         /\ stamp[chain[i].block] \in Nat /\ stamp[chain[i].block] <= clock /\ clock \in Nat
<1>1. chain[i] \in Event /\ chain[i].block <= head
  BY DEF Mined
<1>2. chain[i].block \in Nat /\ head \in Nat /\ clock \in Nat
  BY <1>1 DEF Event, Clocked
<1>3. chain[i].block \in 0..head
  BY <1>1, <1>2
<1> QED
  BY <1>1, <1>2, <1>3 DEF Clocked

LEMMA SoundByMore ==
  ASSUME NEW s, NEW c, NEW g, NEW m, NEW l, m \subseteq l, Sound(s, c, g, m)
  PROVE  Sound(s, c, g, l)
  BY DEF Sound

(* What keeps the young entries of a store loses nothing that is held.         *)
LEMMA YoungIsEnough ==
  ASSUME Chained, NEW n, NEW s \in Stores, Sound(s, chain, stamp, n), NEW r \in Stores,
         \A e \in Entries(s) : Young(e) => e \in Entries(r),
         NEW m, n \subseteq m, NEW i \in DOMAIN chain, Held(s, chain, stamp, clock, m, i)
  PROVE  Held(r, chain, stamp, clock, m, i)
<1>1. CASE chain[i].id \in Ids(s.swaps)
  <2>0. Ids(s.swaps) = {e.id : e \in Entries(s)}
    BY IdsAre
  <2>1. PICK e \in Entries(s) : e.id = chain[i].id
    BY <1>1, <2>0
  <2>2. CASE Young(e)
    <3>1. e \in Entries(r)
      BY <2>2
    <3>2. chain[i].id \in Ids(r.swaps)
      BY <2>1, <3>1, IdsAre
    <3> QED
      BY <3>2 DEF Held
  <2>3. CASE ~Young(e)
    <3>1. PICK j \in DOMAIN chain :
            chain[j].id = e.id /\ (stamp[chain[j].block] <= e.at \/ e.id \in n)
      BY DEF Sound
    <3>2. j = i
      BY <2>1, <3>1, IdsOfChain DEF Chained
    <3>3. CASE e.id \in n
      BY <2>1, <3>3 DEF Held
    <3>4. CASE stamp[chain[j].block] <= e.at
      <4>1. e \in Entry
        BY DEF Entries, Stores
      <4>2. stamp[chain[i].block] \in Nat /\ e.at \in Int /\ clock \in Nat /\ Window \in Nat
        BY <4>1, BlocksOfChain DEF Entry, Chained, Blocks
      <4>3. e.at < clock - Window
        BY <2>3, <4>2 DEF Young
      <4>4. stamp[chain[i].block] < clock - Window
        BY <3>2, <3>4, <4>2, <4>3
      <4> QED
        BY <4>4 DEF Held
    <3> QED
      BY <3>1, <3>3, <3>4
  <2> QED
    BY <2>2, <2>3
<1>2. CASE chain[i].id \notin Ids(s.swaps)
  BY <1>2 DEF Held
<1> QED
  BY <1>1, <1>2

LEMMA EvictHolds ==
  ASSUME Chained, NEW n, NEW s \in Stores, Sound(s, chain, stamp, n)
  PROVE  /\ Sound(Evict(s), chain, stamp, n)
         /\ \A m : n \subseteq m => \A i \in DOMAIN chain :
              Held(s, chain, stamp, clock, m, i) => Held(Evict(s), chain, stamp, clock, m, i)
<1>1. /\ Evict(s) \in Stores /\ Entries(Evict(s)) \subseteq Entries(s)
      /\ \A e \in Entries(s) : Young(e) => e \in Entries(Evict(s))
  BY EvictIs DEF Chained, Clocked
<1>2. Sound(Evict(s), chain, stamp, n)
  BY <1>1 DEF Sound
<1>3. ASSUME NEW m, n \subseteq m, NEW i \in DOMAIN chain, Held(s, chain, stamp, clock, m, i)
      PROVE  Held(Evict(s), chain, stamp, clock, m, i)
  BY <1>1, <1>3, YoungIsEnough
<1> QED
  BY <1>2, <1>3

(* A swap of the chain that is recorded with its time, or a later one, or is    *)
(* excused, is held, and so is what was held before.                           *)
LEMMA RecordHolds ==
  ASSUME Chained, NEW n, NEW s \in Stores, Sound(s, chain, stamp, n), NEW k \in DOMAIN chain,
         NEW at \in Int, stamp[chain[k].block] <= at \/ chain[k].id \in n, NEW block \in Cursors
  PROVE  LET r == Record(s, chain[k], at, block) IN
         /\ Sound(r, chain, stamp, n)
         /\ \A m : n \subseteq m =>
              /\ Held(r, chain, stamp, clock, m, k)
              /\ \A i \in DOMAIN chain :
                   Held(s, chain, stamp, clock, m, i) => Held(r, chain, stamp, clock, m, i)
<1> DEFINE r == Record(s, chain[k], at, block)
           new == [id |-> chain[k].id, at |-> at]
<1>1. chain[k] \in Event
  BY DEF Chained
<1>2. /\ r \in Stores /\ Entries(r) \subseteq Entries(s) \cup {new}
      /\ \A e \in Entries(s) : Young(e) => e \in Entries(r)
      /\ at >= clock - Window => chain[k].id \in Ids(r.swaps)
  BY <1>1, RecordIs DEF Chained, Clocked
<1> HIDE DEF r
<1>3. Sound(r, chain, stamp, n)
  <2> SUFFICES ASSUME NEW e \in Entries(r)
               PROVE  \E i \in DOMAIN chain :
                        chain[i].id = e.id /\ (stamp[chain[i].block] <= e.at \/ e.id \in n)
    BY DEF Sound
  <2>1. CASE e \in Entries(s)
    BY <2>1 DEF Sound
  <2>2. CASE e = new
    <3>1. e.id = chain[k].id /\ e.at = at
      BY <2>2
    <3> QED
      BY <3>1
  <2> QED
    BY <2>1, <2>2, <1>2
<1>4. ASSUME NEW m, n \subseteq m PROVE Held(r, chain, stamp, clock, m, k)
  <2>1. CASE at >= clock - Window
    BY <2>1, <1>2 DEF Held
  <2>2. CASE chain[k].id \in n
    BY <2>2, <1>4 DEF Held
  <2>3. CASE ~(at >= clock - Window) /\ stamp[chain[k].block] <= at
    <3>1. stamp[chain[k].block] \in Nat /\ clock \in Nat /\ Window \in Nat
      BY BlocksOfChain DEF Chained, Blocks
    <3>2. stamp[chain[k].block] < clock - Window
      BY <2>3, <3>1
    <3> QED
      BY <3>2 DEF Held
  <2> QED
    BY <2>1, <2>2, <2>3
<1>5. ASSUME NEW m, n \subseteq m, NEW i \in DOMAIN chain, Held(s, chain, stamp, clock, m, i)
      PROVE  Held(r, chain, stamp, clock, m, i)
  BY <1>2, <1>5, YoungIsEnough
<1> QED
  BY <1>3, <1>4, <1>5 DEF r

(* A scan holds what the store it fills held, and what it found.               *)
LEMMA FilledHolds ==
  ASSUME Chained, NEW n, NEW s \in Stores, Sound(s, chain, stamp, n),
         NEW found, NEW latest \in 0..head,
         \A i \in DOMAIN chain : i \in found =>
           stamp[chain[i].block] <= Dated(latest, chain[i].block) \/ chain[i].id \in n
  PROVE  LET r == Filled(s, found, latest) IN
         /\ r \in Stores /\ Sound(r, chain, stamp, n)
         /\ r.seeded = s.seeded /\ r.cursor = s.cursor
         /\ \A i \in DOMAIN chain : i \in found \/ Held(s, chain, stamp, clock, n, i)
                                      => Held(r, chain, stamp, clock, n, i)
<1> DEFINE A == {x \in Stores : Sound(x, chain, stamp, n) /\ x.seeded = s.seeded /\ x.cursor = s.cursor}
           len == Len(chain)
<1>1. len \in Nat /\ DOMAIN chain = 1..len
  BY DEF Chained
<1>2. ASSUME NEW x \in A, NEW k \in DOMAIN chain
      PROVE  /\ Told(x, found, latest, k) \in A
             /\ k \in found => Held(Told(x, found, latest, k), chain, stamp, clock, n, k)
             /\ \A i \in DOMAIN chain : Held(x, chain, stamp, clock, n, i) =>
                                          Held(Told(x, found, latest, k), chain, stamp, clock, n, i)
  <2>1. CASE k \notin found
    BY <2>1 DEF Told
  <2>2. CASE k \in found
    <3>1. chain[k] \in Event
      BY DEF Chained
    <3> DEFINE at == Dated(latest, chain[k].block)
               r  == Record(x, chain[k], at, None)
    <3>2. /\ at \in Int /\ None \in Cursors /\ clock \in Nat
          /\ stamp[chain[k].block] <= at \/ chain[k].id \in n
      <4>1. chain[k].block \in Nat /\ None \in Cursors
        BY <3>1 DEF Event, Cursors
      <4>2. Clocked
        BY DEF Chained
      <4>3. at \in Int
        BY <4>1, <4>2, DatedIs
      <4>4. clock \in Nat
        BY <4>2 DEF Clocked
      <4>5. stamp[chain[k].block] <= at \/ chain[k].id \in n
        BY <2>2
      <4> QED
        BY <4>1, <4>3, <4>4, <4>5
    <3>3. Told(x, found, latest, k) = r
      BY <2>2 DEF Told
    <3> HIDE DEF at
    <3>4. r \in Stores /\ r.seeded = x.seeded
          /\ (r = x \/ r.cursor = Moved(x.cursor, None))
      <4>1. Blocks /\ x \in Stores
        BY DEF Chained
      <4> HIDE DEF A, r
      <4>2. /\ r \in Stores /\ r.seeded = x.seeded
            /\ chain[k].id \in Ids(x.swaps) => r = x
            /\ chain[k].id \notin Ids(x.swaps) => r.cursor = Moved(x.cursor, None)
        <5> DEFINE swap == chain[k]
        <5>1. swap \in Event /\ at \in Int /\ None \in Cursors /\ clock \in Nat
          BY <3>1, <3>2
        <5>2. r = Record(x, swap, at, None)
          BY DEF r
        <5> HIDE DEF swap
        <5>3. /\ r \in Stores /\ r.seeded = x.seeded
              /\ swap.id \in Ids(x.swaps) => r = x
              /\ swap.id \notin Ids(x.swaps) => r.cursor = Moved(x.cursor, None)
          BY <5>1, <5>2, <4>1, RecordIs
        <5> QED
          BY <5>3 DEF swap
      <4> QED
        BY <4>2
    <3>5. Moved(x.cursor, None) = x.cursor
      <4>1. x.cursor \in Cursors
        BY DEF Stores
      <4> QED
        BY <4>1 DEF Moved, Cursors, None
    <3>6. /\ Sound(r, chain, stamp, n)
          /\ Held(r, chain, stamp, clock, n, k)
          /\ \A i \in DOMAIN chain :
               Held(x, chain, stamp, clock, n, i) => Held(r, chain, stamp, clock, n, i)
      BY <3>2, RecordHolds
    <3> HIDE DEF r
    <3> QED
      BY <3>3, <3>4, <3>5, <3>6
  <2> QED
    BY <2>1, <2>2
<1>3. s \in A
  OBVIOUS
<1> HIDE DEF A
<1>4. Told_Closed(A, found, latest)
  BY <1>2 DEF Told_Closed
<1>5. PICK f \in [0..len -> A] :
        /\ f[0] = s
        /\ \A k \in 1..len : f[k] = Told(f[k - 1], found, latest, k)
        /\ Filled(s, found, latest) = f[len]
  BY <1>3, <1>4, FilledSteps DEF Chained
<1>6. ASSUME NEW i \in DOMAIN chain, i \in found \/ Held(s, chain, stamp, clock, n, i)
      PROVE  Held(f[len], chain, stamp, clock, n, i)
  <2> DEFINE S == {l \in Nat : l <= len => (i <= l \/ Held(s, chain, stamp, clock, n, i)
                                            => Held(f[l], chain, stamp, clock, n, i))}
  <2>1. 0 \in S
    BY <1>1, <1>5
  <2>2. ASSUME NEW l \in Nat, l \in S PROVE l + 1 \in S
    <3> SUFFICES ASSUME l + 1 <= len, i <= l + 1 \/ Held(s, chain, stamp, clock, n, i)
                 PROVE  Held(f[l + 1], chain, stamp, clock, n, i)
      OBVIOUS
    <3>1. l + 1 \in 1..len /\ l \in 0..len /\ (l + 1) - 1 = l /\ l <= len
      BY <1>1
    <3>2. f[l] \in A /\ f[l + 1] = Told(f[l], found, latest, l + 1) /\ l + 1 \in DOMAIN chain
      BY <3>1, <1>1, <1>5
    <3>3. CASE i <= l \/ Held(s, chain, stamp, clock, n, i)
      <4>1. Held(f[l], chain, stamp, clock, n, i)
        BY <3>1, <3>3, <2>2
      <4> QED
        BY <4>1, <3>2, <1>2
    <3>4. CASE ~(i <= l \/ Held(s, chain, stamp, clock, n, i))
      <4>1. i = l + 1
        BY <3>4, <1>1
      <4>2. i \in found
        BY <3>4, <1>6
      <4> QED
        BY <4>1, <4>2, <3>2, <1>2
    <3> QED
      BY <3>3, <3>4
  <2>3. len \in S
    <3> HIDE DEF S
    <3> QED
      BY <1>1, <2>1, <2>2, SetInduction
  <2>4. i <= len
    BY <1>1
  <2> QED
    BY <2>3, <2>4
<1>7. f[len] \in A
  BY <1>1, <1>5
<1>8. f[len] \in Stores /\ Sound(f[len], chain, stamp, n) /\ f[len].seeded = s.seeded /\ f[len].cursor = s.cursor
  BY <1>7 DEF A
<1> QED
  BY <1>5, <1>6, <1>8

-----------------------------------------------------------------------------
(* Every step keeps the invariant.                                           *)

(* While the socket is live what a seeded store misses is on its way.          *)
Followed(c, g, t, cn, s, m, b) ==
  cn = "live" /\ s.seeded => \A i \in DOMAIN c : Held(s, c, g, t, m \cup Ids(b), i)

LEMMA GapIs ==
  /\ GapFilled  <=> Followed(chain, stamp, clock, conn, store, missed \cup beyond, inbox)
  /\ GapFilled' <=> Followed(chain', stamp', clock', conn', store', missed' \cup beyond', inbox')
  BY DEF GapFilled, Followed, Held, Ids

(* The parts of the invariant that name no other than their arguments.         *)
Stored(s, d, c, h, g, t, m, b) ==
  /\ Mined(c, h) /\ Sound(s, c, g, m) /\ Sound(d, c, g, m)
  /\ Covers(s, c, h, g, t, m) /\ Covers(d, c, h, g, t, m) /\ Heard(b, c)

LEMMA GapInvIs ==
  /\ GapInv <=> /\ CountInv /\ Stored(store, disk, chain, head, stamp, clock, missed, inbox)
                /\ Scanning
                /\ Followed(chain, stamp, clock, conn, store, missed \cup beyond, inbox)
  /\ GapInv' <=> /\ CountInv' /\ Stored(store', disk', chain', head', stamp', clock', missed', inbox')
                 /\ Scanning'
                 /\ Followed(chain', stamp', clock', conn', store', missed' \cup beyond', inbox')
  BY GapIs DEF GapInv, Stored, Mined, Sound, Covers, Heard, Held, Entries, Ids

LEMMA HeldByMore ==
  ASSUME NEW s, NEW c, NEW g, NEW t, NEW m, NEW l, m \subseteq l, NEW i, Held(s, c, g, t, m, i)
  PROVE  Held(s, c, g, t, l, i)
  BY DEF Held

LEMMA CoversByMore ==
  ASSUME NEW s, NEW c, NEW h, NEW g, NEW t, NEW m, NEW l, m \subseteq l, Covers(s, c, h, g, t, m)
  PROVE  Covers(s, c, h, g, t, l)
  BY HeldByMore DEF Covers

LEMMA GapStarts == ListOfSwaps /\ PoolInit => GapInv
<1> SUFFICES ASSUME ListOfSwaps, PoolInit PROVE GapInv
  OBVIOUS
<1>1. CountInv
  BY PoolStarts
<1>2. Sound(Empty, chain, stamp, missed) /\ Covers(Empty, chain, head, stamp, clock, missed)
  BY EmptyIs DEF Sound, Covers
<1>3. DOMAIN chain = {} /\ DOMAIN inbox = {}
  BY DEF PoolInit
<1>4. Mined(chain, head) /\ Heard(inbox, chain)
  BY <1>3 DEF Mined, Heard
<1>5. Scanning /\ GapFilled
  BY DEF PoolInit, Scanning, GapFilled
<1> QED
  BY <1>1, <1>2, <1>4, <1>5 DEF GapInv, PoolInit

(* A later time, or more blocks, makes swaps old and nothing else.             *)
LEMMA TimeKeeps ==
  ASSUME GapInv, Blocks, CountInv', NEW g, NEW t, t \in Int, clock <= t, head' \in Nat, head <= head',
         \A b \in 0..head : g[b] = stamp[b], clock' = t, stamp' = g,
         UNCHANGED <<chain, store, disk, conn, inbox, scan, missed, beyond>>
  PROVE  GapInv'
<1>1. Clocked /\ chain \in Seq(Event) /\ Mined(chain, head)
  BY DEF GapInv, CountInv, PoolTypes
<1>2. \A i \in DOMAIN chain : /\ chain[i].block \in 0..head /\ g[chain[i].block] = stamp[chain[i].block]
                              /\ stamp[chain[i].block] \in Nat
  BY <1>1, BlocksOfChain
<1>3. ASSUME NEW r, NEW m, NEW i \in DOMAIN chain, Held(r, chain, stamp, clock, m, i)
      PROVE  Held(r, chain, g, t, m, i)
  <2>1. CASE stamp[chain[i].block] < clock - Window
    <3>1. stamp[chain[i].block] < t - Window
      <4>1. clock \in Nat /\ Window \in Nat /\ stamp[chain[i].block] \in Nat
        BY <1>1, <1>2 DEF Clocked, Blocks
      <4> QED
        BY <4>1, <2>1
    <3> QED
      BY <3>1, <1>2 DEF Held
  <2>2. CASE ~(stamp[chain[i].block] < clock - Window)
    BY <2>2, <1>3 DEF Held
  <2> QED
    BY <2>1, <2>2
<1>4. Mined(chain, head')
  <2>1. \A i \in DOMAIN chain : chain[i].block <= head'
    BY <1>1, <1>2 DEF Clocked
  <2> QED
    BY <2>1, <1>1 DEF Mined
<1>5. ASSUME NEW r, Covers(r, chain, head, stamp, clock, missed)
      PROVE  Covers(r, chain, head', g, t, missed)
  <2> SUFFICES ASSUME r.seeded
               PROVE  /\ r.cursor \in Nat /\ r.cursor <= head'
                      /\ \A i \in DOMAIN chain :
                           chain[i].block < r.cursor => Held(r, chain, g, t, missed, i)
    BY DEF Covers
  <2>1. r.cursor \in Nat /\ r.cursor <= head /\ head \in Nat
        /\ \A i \in DOMAIN chain :
             chain[i].block < r.cursor => Held(r, chain, stamp, clock, missed, i)
    BY <1>1, <1>5 DEF Covers, Clocked
  <2>2. r.cursor <= head'
    BY <2>1
  <2> QED
    BY <2>1, <2>2, <1>3
<1>6. ASSUME NEW r, Sound(r, chain, stamp, missed) PROVE Sound(r, chain, g, missed)
  <2> SUFFICES ASSUME NEW e \in Entries(r)
               PROVE  \E i \in DOMAIN chain :
                        chain[i].id = e.id /\ (g[chain[i].block] <= e.at \/ e.id \in missed)
    BY DEF Sound
  <2>1. PICK i \in DOMAIN chain :
          chain[i].id = e.id /\ (stamp[chain[i].block] <= e.at \/ e.id \in missed)
    BY <1>6 DEF Sound
  <2>2. g[chain[i].block] = stamp[chain[i].block]
    BY <1>2
  <2> QED
    BY <2>1, <2>2
<1>7. Stored(store, disk, chain, head', g, t, missed, inbox)
  BY <1>4, <1>5, <1>6 DEF Stored, GapInv
<1>8. Followed(chain, g, t, conn, store, missed \cup beyond, inbox)
  BY <1>3, GapIs DEF Followed, GapInv
<1>9. Scanning'
  BY DEF GapInv, Scanning, Resume
<1> QED
  BY <1>7, <1>8, <1>9, GapInvIs

LEMMA MomentGaps == ASSUME GapInv, Blocks, CountInv', Moment PROVE GapInv'
<1>1. /\ clock' = clock + 1
      /\ UNCHANGED <<head, stamp, chain, store, disk, conn, inbox, scan, missed, beyond>>
  BY DEF Moment, excused
<1>2. clock \in Nat /\ head \in Nat
  BY DEF GapInv, CountInv, PoolTypes, Clocked
<1>3. clock' \in Int /\ clock <= clock' /\ head' \in Nat /\ head <= head'
  BY <1>1, <1>2
<1> QED
  BY <1>1, <1>3, TimeKeeps

LEMMA BlockGaps == ASSUME GapInv, Blocks, CountInv', Block PROVE GapInv'
<1>1. /\ head' = head + 1 /\ stamp' = [b \in 0..head + 1 |-> IF b <= head THEN stamp[b] ELSE clock]
      /\ UNCHANGED <<clock, chain, store, disk, conn, inbox, scan, missed, beyond>>
  BY DEF Block, excused
<1>2. clock \in Nat /\ head \in Nat
  BY DEF GapInv, CountInv, PoolTypes, Clocked
<1>3. clock' \in Int /\ clock <= clock' /\ head' \in Nat /\ head <= head'
  BY <1>1, <1>2
<1>4. \A b \in 0..head : stamp'[b] = stamp[b]
  BY <1>1, <1>2
<1> QED
  BY <1>1, <1>3, <1>4, TimeKeeps

LEMMA SwapGaps == ASSUME GapInv, ListOfSwaps, CountInv', Swap PROVE GapInv'
<1> DEFINE n == Len(chain)
           swap == [id |-> Swaps[n + 1], block |-> head]
           c == Append(chain, swap)
<1>1. /\ chain' = c /\ UNCHANGED <<clock, head, stamp, store, disk, conn, scan, missed, beyond>>
      /\ inbox' = IF conn \in {"subscribing", "subscribed", "sync", "live"}
                    THEN Append(inbox, swap) ELSE inbox
  BY DEF Swap, excused
<1>2. /\ chain \in Seq(Event) /\ inbox \in Seq(Event) /\ n \in Nat /\ DOMAIN chain = 1..n
      /\ head \in Nat
  BY DEF GapInv, CountInv, PoolTypes, Clocked
<1>3. /\ DOMAIN c = 1..(n + 1) /\ c[n + 1] = swap
      /\ \A i \in DOMAIN chain : i \in DOMAIN c /\ c[i] = chain[i]
      /\ \A i \in DOMAIN c : i = n + 1 \/ i \in DOMAIN chain
  <2>1. DOMAIN c = 1..(n + 1) /\ c[n + 1] = swap /\ \A i \in 1..n : c[i] = chain[i]
    BY <1>2
  <2> QED
    BY <1>2, <2>1
<1>4. swap.id = Swaps[n + 1] /\ swap.block = head
  OBVIOUS
<1>5. \A k \in DOMAIN inbox : inbox[k].block <= head /\ inbox[k].block \in Nat
  <2> SUFFICES ASSUME NEW k \in DOMAIN inbox PROVE inbox[k].block <= head /\ inbox[k].block \in Nat
    OBVIOUS
  <2>1. PICK i \in DOMAIN chain : inbox[k] = chain[i]
    BY DEF GapInv, Heard
  <2>2. inbox[k] \in Event
    BY <1>2
  <2> QED
    BY <2>1, <2>2 DEF GapInv, Mined, Event
<1>6. /\ \A k \in DOMAIN inbox : inbox'[k] = inbox[k] /\ k \in DOMAIN inbox' /\ k \in 1..Len(inbox)
      /\ \A k \in DOMAIN inbox' : k \in DOMAIN inbox \/ (k = Len(inbox) + 1 /\ inbox'[k] = swap)
      /\ conn \in {"sync", "live"} => Len(inbox) + 1 \in DOMAIN inbox' /\ inbox'[Len(inbox) + 1] = swap
  <2> DEFINE b == Append(inbox, swap)
  <2>1. /\ Len(inbox) \in Nat /\ DOMAIN inbox = 1..Len(inbox)
        /\ DOMAIN b = 1..(Len(inbox) + 1) /\ b[Len(inbox) + 1] = swap
        /\ \A k \in 1..Len(inbox) : b[k] = inbox[k]
    BY <1>2
  <2>2. inbox' = b \/ (inbox' = inbox /\ conn \notin {"sync", "live"})
    BY <1>1
  <2> HIDE DEF b, swap
  <2>3. CASE inbox' = b
    BY <2>1, <2>3
  <2>4. CASE inbox' = inbox /\ conn \notin {"sync", "live"}
    BY <2>1, <2>4
  <2> QED
    BY <2>2, <2>3, <2>4
<1> HIDE DEF swap, c, n
<1>7. Mined(c, head)
  <2> SUFFICES ASSUME NEW i \in DOMAIN c PROVE c[i].id = Swaps[i] /\ c[i].block <= head
    BY DEF Mined
  <2>1. CASE i = n + 1
    BY <2>1, <1>2, <1>3, <1>4
  <2>2. CASE i \in DOMAIN chain
    BY <2>2, <1>3 DEF GapInv, Mined
  <2> QED
    BY <2>1, <2>2, <1>3
<1>8. ASSUME NEW s, Sound(s, chain, stamp, missed) PROVE Sound(s, c, stamp, missed)
  <2> SUFFICES ASSUME NEW e \in Entries(s)
               PROVE  \E i \in DOMAIN c :
                        c[i].id = e.id /\ (stamp[c[i].block] <= e.at \/ e.id \in missed)
    BY DEF Sound
  <2>1. PICK i \in DOMAIN chain :
          chain[i].id = e.id /\ (stamp[chain[i].block] <= e.at \/ e.id \in missed)
    BY <1>8 DEF Sound
  <2> QED
    BY <2>1, <1>3
<1>9. ASSUME NEW s, Covers(s, chain, head, stamp, clock, missed) PROVE Covers(s, c, head, stamp, clock, missed)
  <2> SUFFICES ASSUME s.seeded, NEW i \in DOMAIN c, c[i].block < s.cursor
               PROVE  Held(s, c, stamp, clock, missed, i)
    BY <1>9 DEF Covers
  <2>1. CASE i = n + 1
    BY <2>1, <1>2, <1>3, <1>4, <1>9 DEF Covers
  <2>2. CASE i \in DOMAIN chain
    BY <2>2, <1>3, <1>9 DEF Covers, Held
  <2> QED
    BY <2>1, <2>2, <1>3
<1>10. Heard(inbox', c)
  <2>1. ASSUME NEW k \in DOMAIN inbox' PROVE \E i \in DOMAIN c : inbox'[k] = c[i]
    <3>1. CASE k \in DOMAIN inbox
      <4>1. PICK i \in DOMAIN chain : inbox[k] = chain[i]
        BY <3>1 DEF GapInv, Heard
      <4> QED
        BY <4>1, <3>1, <1>3, <1>6
    <3>2. CASE inbox'[k] = swap
      <4>1. n + 1 \in DOMAIN c
        BY <1>2, <1>3
      <4> QED
        BY <4>1, <3>2, <1>3
    <3> QED
      BY <3>1, <3>2, <1>6
  <2>2. ASSUME NEW k \in DOMAIN inbox', NEW l \in DOMAIN inbox', k < l
        PROVE  inbox'[k].block <= inbox'[l].block
    <3>1. Len(inbox) \in Nat
      BY <1>2
    <3>2. CASE l \in DOMAIN inbox
      <4>1. k \in DOMAIN inbox
        BY <2>2, <3>1, <3>2, <1>6
      <4> QED
        BY <4>1, <2>2, <3>2, <1>6 DEF GapInv, Heard
    <3>3. CASE l = Len(inbox) + 1 /\ inbox'[l] = swap
      <4>1. k \in DOMAIN inbox
        BY <2>2, <3>1, <3>3, <1>6
      <4> QED
        BY <4>1, <3>3, <1>4, <1>5, <1>6
    <3> QED
      BY <3>2, <3>3, <1>6
  <2> QED
    BY <2>1, <2>2 DEF Heard
<1>11. Stored(store, disk, c, head, stamp, clock, missed, inbox')
  BY <1>7, <1>8, <1>9, <1>10 DEF Stored, GapInv
<1>12. /\ Ids(inbox) \subseteq Ids(inbox')
       /\ conn \in {"sync", "live"} => swap.id \in Ids(inbox')
  BY <1>6 DEF Ids
<1>13. Followed(c, stamp, clock, conn, store, missed \cup beyond, inbox')
  <2> SUFFICES ASSUME conn = "live", store.seeded, NEW i \in DOMAIN c
               PROVE  Held(store, c, stamp, clock, missed \cup beyond \cup Ids(inbox'), i)
    BY DEF Followed
  <2>1. CASE i = n + 1
    BY <2>1, <1>3, <1>12 DEF Held
  <2>2. CASE i \in DOMAIN chain
    <3>1. Held(store, chain, stamp, clock, missed \cup beyond \cup Ids(inbox), i)
      BY <2>2, GapIs DEF GapInv, Followed
    <3> QED
      BY <3>1, <2>2, <1>3, <1>12 DEF Held
  <2> QED
    BY <2>1, <2>2, <1>3
<1>14. Scanning'
  <2> SUFFICES ASSUME conn \in {"seeding", "sync"}
               PROVE  /\ scan.from = Resume
                      /\ conn = "sync" =>
                           \A i \in DOMAIN c : c[i].block > scan.since => c[i].id \in Ids(inbox')
    BY <1>1 DEF Scanning, Resume
  <2>1. scan.from = Resume
    BY DEF GapInv, Scanning
  <2>2. ASSUME conn = "sync", NEW i \in DOMAIN c, c[i].block > scan.since
        PROVE  c[i].id \in Ids(inbox')
    <3>1. CASE i = n + 1
      BY <3>1, <2>2, <1>3, <1>12
    <3>2. CASE i \in DOMAIN chain
      BY <3>2, <2>2, <1>3, <1>12 DEF GapInv, Scanning
    <3> QED
      BY <3>1, <3>2, <1>3
  <2> QED
    BY <2>1, <2>2
<1> QED
  BY <1>1, <1>11, <1>13, <1>14, GapInvIs

LEMMA StartScanGaps == ASSUME GapInv, CountInv', StartScan PROVE GapInv'
<1>1. /\ scan' = [from |-> Resume, since |-> head, tries |-> Rpcs]
      /\ conn' \in {"seeding", "sync"}
      /\ UNCHANGED <<clock, head, stamp, chain, store, disk, inbox, missed, beyond>>
  BY DEF StartScan, network, excused
<1>2. head \in Nat /\ \A i \in DOMAIN chain : chain[i].block \in Nat
  <2>1. \A i \in DOMAIN chain : chain[i] \in Event
    BY DEF GapInv, CountInv, PoolTypes
  <2> QED
    BY <2>1 DEF Event, GapInv, CountInv, PoolTypes, Clocked
<1>3. \A i \in DOMAIN chain : ~(chain[i].block > head)
  BY <1>2 DEF GapInv, Mined
<1>4. Scanning'
  BY <1>1, <1>2, <1>3 DEF Scanning, Resume
<1>5. Followed(chain, stamp, clock, conn', store, missed \cup beyond, inbox)
  BY <1>1 DEF Followed
<1>6. Stored(store, disk, chain, head, stamp, clock, missed, inbox)
  BY GapInvIs
<1> QED
  BY <1>1, <1>4, <1>5, <1>6, GapInvIs

LEMMA ScanOkGaps ==
  ASSUME GapInv, ListOfSwaps, OwnIds, Blocks, CountInv', ScanOk
  PROVE  GapInv'
<1>1. PICK latest \in 0..head :
        LET base == IF scan.from = None THEN [Empty EXCEPT !.seeded = TRUE] ELSE store
        IN /\ store' = [Filled(base, Covered(latest), latest) EXCEPT !.cursor = Moved(@, latest)]
           /\ missed' = (IF scan.from = None THEN {} ELSE missed) \cup Antedated(latest)
           /\ beyond' = IF conn = "seeding" THEN {}
                        ELSE {chain[i].id : i \in {j \in DOMAIN chain :
                                latest < chain[j].block /\ chain[j].block <= scan.since}}
                             \ (Ids(store'.swaps) \cup Ids(inbox))
  BY DEF ScanOk
<1> DEFINE base == IF scan.from = None THEN [Empty EXCEPT !.seeded = TRUE] ELSE store
           r == Filled(base, Covered(latest), latest)
           m == (IF scan.from = None THEN {} ELSE missed) \cup Antedated(latest)
<1>2. /\ store' = [r EXCEPT !.cursor = Moved(@, latest)]
      /\ disk' = store' /\ missed' = m /\ scan' = NoScan
      /\ conn' = AfterScan /\ UNCHANGED <<clock, head, stamp, chain, inbox>>
  BY <1>1 DEF ScanOk, network
<1>3. Chained
  BY DEF Chained, GapInv, CountInv, PoolTypes
<1>4. /\ scan.from = Resume
      /\ conn = "sync" =>
           \A i \in DOMAIN chain : chain[i].block > scan.since => chain[i].id \in Ids(inbox)
  BY DEF ScanOk, GapInv, Scanning
<1>5. latest \in Nat /\ scan.since \in Nat /\ latest <= head /\ head \in Nat /\ clock \in Nat
      /\ stamp[latest] \in Nat
  BY DEF GapInv, CountInv, PoolTypes, ScanStates, Clocked
<1>6. store \in Stores
  BY DEF GapInv, CountInv, PoolTypes
<1>7. \A i \in DOMAIN chain : chain[i].block \in Nat
  <2>1. \A i \in DOMAIN chain : chain[i] \in Event
    BY DEF GapInv, CountInv, PoolTypes
  <2> QED
    BY <2>1 DEF Event
<1>8. /\ base \in Stores /\ Sound(base, chain, stamp, m) /\ base.seeded
      /\ base.cursor = IF scan.from = None THEN None ELSE store.cursor
      /\ scan.from # None => base = store /\ store.seeded /\ scan.from = store.cursor
  <2>1. CASE scan.from = None
    <3> DEFINE e == [Empty EXCEPT !.seeded = TRUE]
    <3>1. e \in Stores /\ e.swaps = Empty.swaps /\ e.seeded /\ e.cursor = None
      BY EmptyIs DEF Clean, Stores
    <3>2. base = e
      BY <2>1
    <3> HIDE DEF e, base
    <3>3. Entries(e) = {}
      BY <3>1, EmptyIs DEF Entries
    <3> QED
      BY <2>1, <3>1, <3>2, <3>3 DEF Sound
  <2>2. CASE scan.from # None
    <3>1. store.seeded /\ scan.from = store.cursor
      BY <2>2, <1>4 DEF Resume
    <3>2. base = store
      BY <2>2
    <3>3. Sound(store, chain, stamp, m)
      <4>1. missed \subseteq m
        BY <2>2
      <4> HIDE DEF m
      <4> QED
        BY <4>1, SoundByMore DEF GapInv
    <3> HIDE DEF base, m
    <3> QED
      BY <2>2, <3>1, <3>2, <3>3, <1>6
  <2> QED
    BY <2>1, <2>2
<1> HIDE DEF base
(* What the scan takes for older than it is, it is excused for.                *)
<1>9. ASSUME NEW i \in DOMAIN chain, chain[i].block <= latest, scan.from <= chain[i].block
      PROVE  stamp[chain[i].block] <= Dated(latest, chain[i].block) \/ chain[i].id \in m
  <2>1. /\ Dated(latest, chain[i].block) \in Int /\ stamp[chain[i].block] \in Nat
    BY <1>3, <1>7, DatedIs, BlocksOfChain DEF Chained
  <2>2. CASE Dated(latest, chain[i].block) < stamp[chain[i].block]
    <3>1. chain[i].id \in Antedated(latest)
      BY <2>2, <1>9 DEF Antedated
    <3> QED
      BY <3>1
  <2> QED
    BY <2>1, <2>2
<1>9a. \A i \in DOMAIN chain : i \in Covered(latest) =>
         stamp[chain[i].block] <= Dated(latest, chain[i].block) \/ chain[i].id \in m
  <2> SUFFICES ASSUME NEW i \in DOMAIN chain, i \in Covered(latest)
               PROVE  stamp[chain[i].block] <= Dated(latest, chain[i].block) \/ chain[i].id \in m
    OBVIOUS
  <2>1. scan.from \in Nat \/ scan.from = None
    BY DEF GapInv, CountInv, PoolTypes, ScanStates, Cursors
  <2> DEFINE floor == latest - (stamp[latest] - (clock - Window))
             start == IF scan.from = None THEN floor - Slack
                      ELSE IF scan.from > floor THEN scan.from ELSE floor
  <2>2. chain[i].block >= start /\ chain[i].block <= latest
    BY DEF Covered
  <2>3. floor \in Int
    BY <1>5 DEF Blocks
  <2> HIDE DEF floor
  <2>4. scan.from <= chain[i].block
    BY <2>1, <2>2, <2>3, <1>7 DEF None
  <2> QED
    BY <2>2, <2>4, <1>9
<1> HIDE DEF m
<1>9b. /\ r \in Stores /\ Sound(r, chain, stamp, m) /\ r.seeded /\ r.cursor = base.cursor
       /\ \A i \in DOMAIN chain :
            i \in Covered(latest) \/ Held(base, chain, stamp, clock, m, i)
              => Held(r, chain, stamp, clock, m, i)
  BY <1>3, <1>8, <1>9a, FilledHolds
<1> HIDE DEF r
<1>10. /\ store'.swaps = r.swaps /\ store'.seeded /\ store'.cursor = Moved(r.cursor, latest)
       /\ Entries(store') = Entries(r)
  <2>1. store'.swaps = r.swaps /\ store'.seeded /\ store'.cursor = Moved(r.cursor, latest)
    BY <1>2, <1>9b DEF Stores
  <2> QED
    BY <2>1 DEF Entries
<1>11. Sound(store', chain, stamp, m)
  BY <1>9b, <1>10 DEF Sound
(* Up to the latest block, what the scan did not find is too old or was held.  *)
<1>12. ASSUME NEW i \in DOMAIN chain, chain[i].block <= latest
       PROVE  Held(r, chain, stamp, clock, m, i)
  <2> DEFINE floor == latest - (stamp[latest] - (clock - Window))
             start == IF scan.from = None THEN floor - Slack
                      ELSE IF scan.from > floor THEN scan.from ELSE floor
  <2>1. i \in Covered(latest) <=> chain[i].block >= start
    BY <1>12 DEF Covered
  <2>2. Window \in Nat /\ Slack \in Nat
    BY DEF Blocks
  <2>3. floor \in Int /\ chain[i].block \in Nat /\ stamp[chain[i].block] \in Nat
    BY <1>3, <1>5, <1>7, <2>2, BlocksOfChain DEF Chained
  <2>4. ASSUME chain[i].block < floor, scan.from <= chain[i].block
        PROVE  Held(r, chain, stamp, clock, m, i)
    <3>1. CASE chain[i].id \in m
      BY <3>1 DEF Held
    <3>2. CASE stamp[chain[i].block] <= Dated(latest, chain[i].block)
      <4>1. Dated(latest, chain[i].block) = stamp[latest] - (latest - chain[i].block)
        BY <1>3, <2>3, DatedIs DEF Chained
      <4>2. stamp[chain[i].block] < clock - Window
        BY <4>1, <3>2, <2>4, <2>3, <2>2, <1>5
      <4> QED
        BY <4>2 DEF Held
    <3> QED
      BY <3>1, <3>2, <2>4, <1>12, <1>9
  <2>5. CASE scan.from = None
    <3>1. scan.from <= chain[i].block
      BY <2>5, <2>3 DEF None
    <3>2. CASE chain[i].block < floor
      BY <3>1, <3>2, <2>4
    <3>3. CASE ~(chain[i].block < floor)
      <4>1. chain[i].block >= start
        BY <3>3, <2>2, <2>3, <2>5
      <4> QED
        BY <4>1, <2>1, <1>9b
    <3> QED
      BY <3>2, <3>3
  <2>6. CASE scan.from # None
    <3>1. store.cursor \in Nat /\ scan.from = store.cursor /\ base = store /\ missed \subseteq m
          /\ \A j \in DOMAIN chain :
               chain[j].block < store.cursor => Held(store, chain, stamp, clock, missed, j)
      BY <2>6, <1>8 DEF GapInv, Covers, m
    <3>2. CASE chain[i].block < store.cursor
      <4>1. Held(base, chain, stamp, clock, m, i)
        BY <3>1, <3>2, HeldByMore
      <4> QED
        BY <4>1, <1>9b
    <3>3. CASE ~(chain[i].block < store.cursor) /\ chain[i].block < floor
      <4>1. scan.from <= chain[i].block
        BY <2>3, <3>1, <3>3
      <4> QED
        BY <4>1, <3>3, <2>4
    <3>4. CASE ~(chain[i].block < store.cursor) /\ ~(chain[i].block < floor)
      <4>1. chain[i].block >= start
        BY <2>3, <2>6, <3>1, <3>4
      <4> QED
        BY <4>1, <2>1, <1>9b
    <3> QED
      BY <3>2, <3>3, <3>4
  <2> QED
    BY <2>5, <2>6
<1>13. \A l : \A i \in DOMAIN chain :
         Held(store', chain, stamp, clock, l, i) <=> Held(r, chain, stamp, clock, l, i)
  BY <1>10 DEF Held
<1>14. Covers(store', chain, head, stamp, clock, m)
  <2>1. CASE scan.from = None
    <3>1. store'.cursor = latest
      BY <2>1, <1>5, <1>8, <1>9b, <1>10 DEF Moved, None
    <3> QED
      BY <3>1, <1>5, <1>7, <1>12, <1>13 DEF Covers
  <2>2. CASE scan.from # None
    <3>1. base = store /\ missed \subseteq m /\ store.cursor \in Nat /\ store.cursor <= head
          /\ \A j \in DOMAIN chain :
               chain[j].block < store.cursor => Held(store, chain, stamp, clock, missed, j)
      BY <2>2, <1>8 DEF GapInv, Covers, m
    <3>2. store'.cursor = IF latest > store.cursor THEN latest ELSE store.cursor
      BY <2>2, <1>8, <1>9b, <1>10 DEF Moved
    <3>3. store'.cursor \in Nat /\ store'.cursor <= head
      BY <3>1, <3>2, <1>5
    <3>4. ASSUME NEW j \in DOMAIN chain, chain[j].block < store'.cursor
          PROVE  Held(store', chain, stamp, clock, m, j)
      <4>1. CASE chain[j].block <= latest
        BY <4>1, <1>12, <1>13
      <4>2. CASE ~(chain[j].block <= latest)
        <5>1. chain[j].block < store.cursor
          BY <4>2, <3>1, <3>2, <3>4, <1>5, <1>7
        <5>2. Held(base, chain, stamp, clock, m, j)
          BY <5>1, <3>1, HeldByMore
        <5> QED
          BY <5>2, <1>9b, <1>13
      <4> QED
        BY <4>1, <4>2
    <3> QED
      BY <3>3, <3>4 DEF Covers
  <2> QED
    BY <2>1, <2>2
<1>15. Stored(store', disk', chain, head, stamp, clock, m, inbox)
  BY <1>2, <1>11, <1>14 DEF Stored, GapInv
(* Behind the latest block the inbox has what there is, or the endpoint had     *)
(* yet to hear of it.                                                          *)
<1>16. Followed(chain, stamp, clock, conn', store', m \cup beyond', inbox)
  <2> SUFFICES ASSUME conn' = "live", NEW i \in DOMAIN chain
               PROVE  Held(store', chain, stamp, clock, m \cup beyond' \cup Ids(inbox), i)
    BY DEF Followed
  <2>1. conn = "sync"
    BY <1>2 DEF AfterScan, ScanOk
  <2>2. CASE chain[i].block <= latest
    <3>1. Held(store', chain, stamp, clock, m, i)
      BY <2>2, <1>12, <1>13
    <3> QED
      BY <3>1 DEF Held
  <2>3. CASE latest < chain[i].block /\ chain[i].block <= scan.since
    <3>1. chain[i].id \in beyond' \cup Ids(store'.swaps) \cup Ids(inbox)
      BY <2>1, <2>3, <1>1
    <3> QED
      BY <3>1 DEF Held
  <2>4. CASE chain[i].block > scan.since
    <3>1. chain[i].id \in Ids(inbox)
      BY <2>4, <2>1, <1>4
    <3> QED
      BY <3>1 DEF Held
  <2> QED
    BY <2>2, <2>3, <2>4, <1>5, <1>7
<1>17. Scanning'
  BY <1>2 DEF AfterScan, Scanning
<1> QED
  BY <1>2, <1>15, <1>16, <1>17, GapInvIs

LEMMA ScanFailGaps == ASSUME GapInv, CountInv', ScanFail PROVE GapInv'
<1>1. CASE scan.tries > 1
  <2>1. /\ scan' = [scan EXCEPT !.tries = @ - 1]
        /\ UNCHANGED <<clock, head, stamp, chain, inbox, store, disk, conn, missed, beyond>>
    BY <1>1 DEF ScanFail, network, excused
  <2>2. scan'.from = scan.from /\ scan'.since = scan.since
    BY <2>1 DEF GapInv, CountInv, PoolTypes, ScanStates
  <2>3. Scanning'
    BY <2>1, <2>2 DEF GapInv, Scanning, Resume
  <2> QED
    BY <2>1, <2>3, GapInvIs
<1>2. CASE ~(scan.tries > 1)
  <2>1. /\ store' = Empty /\ disk' = Empty /\ missed' = {} /\ beyond' = {}
        /\ conn' \in {"down", "live"} /\ UNCHANGED <<clock, head, stamp, chain, inbox>>
    BY <1>2 DEF ScanFail, AfterScan, network
  <2>2. Sound(Empty, chain, stamp, {}) /\ Covers(Empty, chain, head, stamp, clock, {})
    BY EmptyIs DEF Sound, Covers
  <2>3. Stored(Empty, Empty, chain, head, stamp, clock, {}, inbox)
    BY <2>2 DEF Stored, GapInv
  <2>4. Followed(chain, stamp, clock, conn', Empty, {} \cup {}, inbox)
    BY EmptyIs DEF Followed
  <2>5. Scanning'
    BY <2>1 DEF Scanning
  <2> QED
    BY <2>1, <2>3, <2>4, <2>5, GapInvIs
<1> QED
  BY <1>1, <1>2

LEMMA SocketGaps ==
  ASSUME GapInv, CountInv', Subscribe \/ Subscribed \/ Close
  PROVE  GapInv'
<1>1. /\ conn' \in {"subscribing", "subscribed", "down"}
      /\ inbox' = inbox \/ inbox' = <<>>
      /\ UNCHANGED <<clock, head, stamp, chain, store, disk, missed>>
  BY DEF Subscribe, Subscribed, Close, network, excused
<1>2. Heard(inbox', chain)
  BY <1>1 DEF Heard, GapInv
<1>3. Stored(store, disk, chain, head, stamp, clock, missed, inbox')
  BY <1>2 DEF Stored, GapInv
<1>4. Scanning' /\ Followed(chain, stamp, clock, conn', store, missed \cup beyond', inbox')
  BY <1>1 DEF Scanning, Followed
<1> QED
  BY <1>1, <1>3, <1>4, GapInvIs

(* What evicts loses nothing, in the store or from the file.                   *)
LEMMA EvictCovers ==
  ASSUME GapInv, ListOfSwaps, OwnIds, Blocks, NEW s \in {store, disk}
  PROVE  /\ Sound(Evict(s), chain, stamp, missed)
         /\ Covers(Evict(s), chain, head, stamp, clock, missed)
         /\ Evict(s).seeded = s.seeded /\ Evict(s).cursor = s.cursor
         /\ \A m : missed \subseteq m => \A i \in DOMAIN chain :
              Held(s, chain, stamp, clock, m, i) => Held(Evict(s), chain, stamp, clock, m, i)
<1>1. /\ Chained /\ s \in Stores /\ Sound(s, chain, stamp, missed)
      /\ Covers(s, chain, head, stamp, clock, missed)
  BY DEF Chained, GapInv, CountInv, PoolTypes
<1>2. Evict(s).seeded = s.seeded /\ Evict(s).cursor = s.cursor
  BY <1>1, EvictIs DEF Chained, Clocked
<1>3. /\ Sound(Evict(s), chain, stamp, missed)
      /\ \A m : missed \subseteq m => \A i \in DOMAIN chain :
           Held(s, chain, stamp, clock, m, i) => Held(Evict(s), chain, stamp, clock, m, i)
  BY <1>1, EvictHolds
<1>4. Covers(Evict(s), chain, head, stamp, clock, missed)
  BY <1>1, <1>2, <1>3 DEF Covers
<1> QED
  BY <1>2, <1>3, <1>4

LEMMA AskGaps == ASSUME GapInv, ListOfSwaps, OwnIds, Blocks, CountInv', Ask PROVE GapInv'
<1>1. /\ store' = Evict(store)
      /\ UNCHANGED <<clock, head, stamp, chain, disk, conn, inbox, scan, missed, beyond>>
  BY DEF Ask, network, excused
<1>2. /\ Sound(store', chain, stamp, missed) /\ Covers(store', chain, head, stamp, clock, missed)
      /\ store'.seeded = store.seeded /\ store'.cursor = store.cursor
      /\ \A m : missed \subseteq m => \A i \in DOMAIN chain :
           Held(store, chain, stamp, clock, m, i) => Held(store', chain, stamp, clock, m, i)
  BY <1>1, EvictCovers
<1>3. Stored(store', disk, chain, head, stamp, clock, missed, inbox)
  BY <1>2 DEF Stored, GapInv
<1>4. Followed(chain, stamp, clock, conn, store', missed \cup beyond, inbox)
  <2>1. missed \subseteq missed \cup beyond \cup Ids(inbox)
    OBVIOUS
  <2> QED
    BY <2>1, <1>2, GapIs DEF GapInv, Followed
<1>5. Scanning'
  BY <1>1, <1>2 DEF GapInv, Scanning, Resume
<1> QED
  BY <1>1, <1>3, <1>4, <1>5, GapInvIs

LEMMA PoolRestartGaps ==
  ASSUME GapInv, ListOfSwaps, OwnIds, Blocks, CountInv', PoolRestart
  PROVE  GapInv'
<1>1. /\ store' = Evict(disk) /\ conn' = "boot" /\ inbox' = <<>>
      /\ UNCHANGED <<clock, head, stamp, chain, disk, missed>>
  BY DEF PoolRestart, network
<1>2. Heard(<<>>, chain)
  BY DEF Heard
<1>3. Stored(Evict(disk), disk, chain, head, stamp, clock, missed, <<>>)
  BY <1>2, EvictCovers DEF Stored, GapInv
<1>4. Scanning' /\ Followed(chain, stamp, clock, conn', store', missed \cup beyond', <<>>)
  BY <1>1 DEF Scanning, Followed
<1> QED
  BY <1>1, <1>3, <1>4, GapInvIs

(* The event at the head of the inbox is older than none behind it: what moves  *)
(* the cursor there leaves nothing behind but what the ghost names.             *)
LEMMA LiveGaps ==
  ASSUME GapInv, ListOfSwaps, OwnIds, Blocks, CountInv', Live
  PROVE  GapInv'
<1> DEFINE swap == Head(inbox)
           b == Tail(inbox)
           r == Record(store, swap, clock, swap.block)
<1>1. /\ conn \in {"subscribing", "live"} /\ inbox # <<>> /\ inbox' = b
      /\ store' = IF store.seeded THEN r ELSE store
      /\ disk' \in {disk, store'} /\ UNCHANGED <<clock, head, stamp, chain, conn, scan, beyond>>
  BY DEF Live, network
<1>2. missed' = IF store'.cursor = store.cursor THEN missed
                ELSE missed \cup (IF conn = "live" THEN Skipped(swap.block) \cap beyond
                                 ELSE Skipped(swap.block))
  BY DEF Live
<1>3. missed \subseteq missed'
  <2>1. missed' = missed \/ \E skipped : missed' = missed \cup skipped
    BY <1>2
  <2> QED
    BY <2>1
<1>4. inbox \in Seq(Event) /\ store \in Stores /\ clock \in Nat /\ Chained
  BY DEF Chained, GapInv, CountInv, PoolTypes, Clocked
<1>5. /\ 1 \in DOMAIN inbox /\ swap = inbox[1]
      /\ \A l \in DOMAIN b : l + 1 \in DOMAIN inbox /\ b[l] = inbox[l + 1] /\ l \in Nat
      /\ \A l \in DOMAIN inbox : l = 1 \/ (l - 1 \in DOMAIN b /\ b[l - 1] = inbox[l] /\ 1 < l)
      /\ \A l \in DOMAIN b : \A k \in DOMAIN b : k < l => k + 1 < l + 1
  BY <1>1, <1>4
<1> HIDE DEF b, swap
<1>6. PICK k \in DOMAIN chain : swap = chain[k]
  BY <1>5 DEF GapInv, Heard
<1>7. /\ chain[k] \in Event /\ swap.block \in Nat /\ swap.block <= head /\ swap.block \in Cursors
      /\ \A i \in DOMAIN chain : chain[i] \in Event /\ chain[i].block \in Nat
      /\ stamp[chain[k].block] <= clock
  <2>1. \A i \in DOMAIN chain : chain[i] \in Event
    BY <1>4 DEF Chained
  <2>2. chain[k].block <= head
    BY DEF GapInv, Mined
  <2>3. stamp[chain[k].block] <= clock
    BY <1>4, BlocksOfChain DEF Chained
  <2> QED
    BY <2>1, <2>2, <2>3, <1>6 DEF Event, Cursors
<1>8. /\ Sound(r, chain, stamp, missed)
      /\ \A m : missed \subseteq m =>
           /\ Held(r, chain, stamp, clock, m, k)
           /\ \A i \in DOMAIN chain :
                Held(store, chain, stamp, clock, m, i) => Held(r, chain, stamp, clock, m, i)
  <2>1. stamp[chain[k].block] <= clock \/ chain[k].id \in missed
    BY <1>7
  <2>2. clock \in Int /\ swap.block \in Cursors /\ Chained /\ store \in Stores
    BY <1>4, <1>7
  <2>3. Sound(store, chain, stamp, missed)
    BY DEF GapInv
  <2> HIDE DEF r
  <2>4. r = Record(store, chain[k], clock, swap.block)
    BY <1>6 DEF r
  <2> QED
    BY <2>1, <2>2, <2>3, <2>4, RecordHolds
<1>9. /\ r \in Stores /\ r.seeded = store.seeded
      /\ r = store \/ r.cursor = Moved(store.cursor, swap.block)
  <2>1. swap \in Event /\ clock \in Nat /\ swap.block \in Cursors /\ store \in Stores
    BY <1>4, <1>6, <1>7
  <2>2. /\ r \in Stores /\ r.seeded = store.seeded
        /\ swap.id \in Ids(store.swaps) => r = store
        /\ swap.id \notin Ids(store.swaps) => r.cursor = Moved(store.cursor, swap.block)
    BY <2>1, RecordIs
  <2> QED
    BY <2>2
<1> HIDE DEF r
<1>10. Heard(b, chain)
  <2>1. ASSUME NEW l \in DOMAIN b PROVE \E i \in DOMAIN chain : b[l] = chain[i]
    <3>1. l + 1 \in DOMAIN inbox /\ b[l] = inbox[l + 1]
      BY <1>5
    <3> QED
      BY <3>1 DEF GapInv, Heard
  <2>2. ASSUME NEW j \in DOMAIN b, NEW l \in DOMAIN b, j < l PROVE b[j].block <= b[l].block
    <3>1. /\ j + 1 \in DOMAIN inbox /\ l + 1 \in DOMAIN inbox /\ j + 1 < l + 1
          /\ b[j] = inbox[j + 1] /\ b[l] = inbox[l + 1]
      BY <1>5, <2>2
    <3> QED
      BY <3>1 DEF GapInv, Heard
  <2> QED
    BY <2>1, <2>2 DEF Heard
(* What is still behind the event handled is no older than it is.              *)
<1>11. ASSUME NEW i \in DOMAIN chain, chain[i].id \in Ids(inbox)
       PROVE  i = k \/ (chain[i].id \in Ids(b) /\ ~(chain[i].block < swap.block))
  <2>1. PICK l \in DOMAIN inbox : inbox[l].id = chain[i].id
    BY <1>11 DEF Ids
  <2>2. PICK j \in DOMAIN chain : inbox[l] = chain[j]
    BY DEF GapInv, Heard
  <2>3. i = j
    BY <2>1, <2>2, <1>4, IdsOfChain DEF Chained
  <2>4. CASE l = 1
    <3>1. chain[k].id = chain[i].id
      BY <2>1, <2>4, <1>5, <1>6
    <3> QED
      BY <3>1, <1>4, IdsOfChain DEF Chained
  <2>5. CASE l - 1 \in DOMAIN b /\ b[l - 1] = inbox[l] /\ 1 < l
    <3>1. inbox[1].block <= inbox[l].block
      BY <2>5, <1>5 DEF GapInv, Heard
    <3>2. swap.block <= chain[i].block
      BY <3>1, <2>2, <2>3, <1>5
    <3>3. chain[i].id \in Ids(b)
      BY <2>1, <2>5 DEF Ids
    <3> QED
      BY <3>2, <3>3, <1>7
  <2> QED
    BY <2>4, <2>5, <1>5
<1>12. Sound(store', chain, stamp, missed') /\ Sound(disk, chain, stamp, missed')
  <2>1. store' = r \/ store' = store
    BY <1>1
  <2>2. Sound(store', chain, stamp, missed) /\ Sound(disk, chain, stamp, missed)
    BY <2>1, <1>8 DEF GapInv
  <2> QED
    BY <2>2, <1>3, SoundByMore
<1>13. ASSUME NEW m, missed \subseteq m, NEW i \in DOMAIN chain, Held(store, chain, stamp, clock, m, i)
       PROVE  Held(store', chain, stamp, clock, m, i)
  <2>1. store' = r \/ store' = store
    BY <1>1
  <2> QED
    BY <2>1, <1>8, <1>13
<1>14. Covers(store', chain, head, stamp, clock, missed')
  <2> SUFFICES ASSUME store'.seeded
               PROVE  /\ store'.cursor \in Nat /\ store'.cursor <= head
                      /\ \A i \in DOMAIN chain :
                           chain[i].block < store'.cursor =>
                             Held(store', chain, stamp, clock, missed', i)
    BY DEF Covers
  <2>1. store.seeded /\ store' = r
    BY <1>1
  <2>2. /\ store.cursor \in Nat /\ store.cursor <= head
        /\ \A i \in DOMAIN chain :
             chain[i].block < store.cursor => Held(store, chain, stamp, clock, missed, i)
    BY <2>1 DEF GapInv, Covers
  <2>3. store'.cursor = store.cursor
        \/ (store'.cursor = swap.block /\ store'.cursor # store.cursor)
    BY <1>9, <2>1 DEF Moved
  <2>4. ASSUME NEW i \in DOMAIN chain, chain[i].block < store.cursor
        PROVE  Held(store', chain, stamp, clock, missed', i)
    <3>1. Held(store, chain, stamp, clock, missed', i)
      BY <2>4, <2>2, <1>3, HeldByMore
    <3> QED
      BY <3>1, <1>3, <1>13
  <2>5. CASE store'.cursor = store.cursor
    BY <2>2, <2>4, <2>5
  <2>6. CASE store'.cursor = swap.block /\ store'.cursor # store.cursor
    <3>1. ASSUME NEW i \in DOMAIN chain, chain[i].block < swap.block
          PROVE  Held(store', chain, stamp, clock, missed', i)
      <4>1. CASE chain[i].block < store.cursor
        BY <4>1, <2>4
      <4>2. CASE chain[i].id \in Ids(store.swaps)
        <5>1. Held(store, chain, stamp, clock, missed', i)
          BY <4>2 DEF Held
        <5> QED
          BY <5>1, <1>3, <1>13
      <4>3. CASE ~(chain[i].block < store.cursor) /\ chain[i].id \notin Ids(store.swaps)
        <5>1. chain[i].id \in Skipped(swap.block)
          <6>1. store.cursor <= chain[i].block
            BY <4>3, <2>2, <1>7
          <6> QED
            BY <6>1, <4>3, <3>1 DEF Skipped
        <5>2. CASE conn = "subscribing"
          <6>1. chain[i].id \in missed'
            BY <5>1, <5>2, <2>6, <1>2
          <6> QED
            BY <6>1 DEF Held
        <5>3. CASE conn = "live"
          <6>1. Held(store, chain, stamp, clock, missed \cup beyond \cup Ids(inbox), i)
            BY <5>3, <2>1, GapIs DEF GapInv, Followed
          <6>2. CASE chain[i].id \in Ids(inbox)
            <7>1. i = k
              BY <6>2, <3>1, <1>11
            <7> QED
              BY <7>1, <3>1, <1>6, <1>7
          <6>3. CASE chain[i].id \in beyond
            <7>1. chain[i].id \in missed'
              BY <5>1, <5>3, <6>3, <2>6, <1>2
            <7> QED
              BY <7>1 DEF Held
          <6>4. CASE chain[i].id \notin beyond /\ chain[i].id \notin Ids(inbox)
            <7>1. Held(store, chain, stamp, clock, missed', i)
              BY <6>1, <6>4, <1>3 DEF Held
            <7> QED
              BY <7>1, <1>3, <1>13
          <6> QED
            BY <6>2, <6>3, <6>4
        <5> QED
          BY <5>2, <5>3, <1>1
      <4> QED
        BY <4>1, <4>2, <4>3
    <3> QED
      BY <3>1, <2>6, <1>7
  <2> QED
    BY <2>3, <2>5, <2>6
<1>15. Covers(disk, chain, head, stamp, clock, missed')
  BY <1>3, CoversByMore DEF GapInv
<1>16. Stored(store', disk', chain, head, stamp, clock, missed', b)
  <2>1. Mined(chain, head)
    BY DEF GapInv
  <2>2. disk' = disk \/ disk' = store'
    BY <1>1
  <2> QED
    BY <2>1, <2>2, <1>10, <1>12, <1>14, <1>15 DEF Stored
<1>17. Followed(chain, stamp, clock, conn, store', missed' \cup beyond, b)
  <2> SUFFICES ASSUME conn = "live", store'.seeded, NEW i \in DOMAIN chain
               PROVE  Held(store', chain, stamp, clock, missed' \cup beyond \cup Ids(b), i)
    BY DEF Followed
  <2>1. store.seeded /\ store' = r
    BY <1>1
  <2>2. Held(store, chain, stamp, clock, missed \cup beyond \cup Ids(inbox), i)
    BY <2>1, GapIs DEF GapInv, Followed
  <2>3. missed \subseteq missed' \cup beyond \cup Ids(b)
    BY <1>3
  <2>4. CASE i = k
    BY <2>1, <2>3, <2>4, <1>8
  <2>5. CASE i # k
    <3>1. Held(store, chain, stamp, clock, missed' \cup beyond \cup Ids(b), i)
      BY <2>2, <2>5, <1>3, <1>11 DEF Held
    <3> QED
      BY <3>1, <2>3, <1>13
  <2> QED
    BY <2>4, <2>5
<1>18. Scanning'
  BY <1>1 DEF Scanning
<1> QED
  BY <1>1, <1>16, <1>17, <1>18, GapInvIs

LEMMA GapStep ==
  ListOfSwaps /\ OwnIds /\ Blocks /\ GapInv /\ [PoolNext]_poolVars => GapInv'
<1> SUFFICES ASSUME ListOfSwaps, OwnIds, Blocks, GapInv, [PoolNext]_poolVars PROVE GapInv'
  OBVIOUS
<1>1. CountInv'
  BY CountStep DEF GapInv
<1>2. CASE UNCHANGED poolVars
  <2>1. UNCHANGED <<clock, head, stamp, chain, store, disk, conn, inbox, scan, missed, beyond>>
    BY <1>2 DEF poolVars, network, excused
  <2>2. Scanning'
    BY <2>1 DEF GapInv, Scanning, Resume
  <2> QED
    BY <2>1, <2>2, <1>1, GapInvIs
<1> QED
  BY <1>1, <1>2, MomentGaps, BlockGaps, SwapGaps, StartScanGaps, ScanOkGaps, ScanFailGaps,
     SocketGaps, LiveGaps, AskGaps, PoolRestartGaps DEF PoolNext

(* Once a scan has succeeded and its socket is live, every swap of the window   *)
(* whose event has been handled is counted, but for those a cursor was moved    *)
(* past, those the gap fill's endpoint had yet to hear of and those its scan    *)
(* took for older than they are: for any window, slack and endpoints, and       *)
(* however many blocks there are in a moment.                                  *)
THEOREM GapsAreFilled == PoolSpec => []GapFilled
<1>0. ListOfSwaps /\ OwnIds /\ Blocks
  BY PoolAssumption DEF ListOfSwaps, OwnIds, Blocks
<1>1. PoolInit => GapInv
  BY <1>0, GapStarts
<1>2. GapInv /\ [PoolNext]_poolVars => GapInv'
  BY <1>0, GapStep
<1>3. GapInv => GapFilled
  BY DEF GapInv
<1> QED
  BY <1>1, <1>2, <1>3, PTL DEF PoolSpec

-----------------------------------------------------------------------------
(* The ticks of a new position.                                              *)

(* A product grows with its first factor.                                      *)
LEMMA MonotoneTimes ==
  ASSUME NEW a \in Int, NEW b \in Int, NEW c \in Nat, a <= b
  PROVE  a * c <= b * c
  BY SMT

(* What is multiplied by the spacing is a tick of it.                          *)
LEMMA Multiple ==
  ASSUME NEW k \in Int, NEW s \in Nat \ {0}
  PROVE  (k * s) % s = 0
<1> DEFINE q == (k * s) \div s
           m == (k * s) % s
<1>1. q \in Int /\ m \in 0..(s - 1) /\ k * s = s * q + m
  BY SMT
<1> HIDE DEF q, m
<1>2. m = (k - q) * s
  BY <1>1, SMT
<1>3. CASE k - q >= 1
  <2>1. (k - q) * s >= s
    BY <1>3, <1>1, SMT
  <2> QED
    BY <2>1, <1>1, <1>2, SMT
<1>4. CASE k - q <= -1
  <2>1. (k - q) * s <= -s
    BY <1>4, <1>1, SMT
  <2> QED
    BY <2>1, <1>1, <1>2, SMT
<1>5. CASE k = q
  <2>1. m = 0
    BY <1>5, <1>2, <1>1, SMT
  <2> QED
    BY <2>1 DEF m
<1> QED
  BY <1>3, <1>4, <1>5, <1>1, SMT

(* Rounding moves a tick by less than the spacing.                             *)
LEMMA FloorIs ==
  ASSUME NEW t \in Int, NEW s \in Nat \ {0}
  PROVE  /\ FloorTo(t, s) \in Int /\ FloorTo(t, s) <= t /\ t < FloorTo(t, s) + s
         /\ FloorTo(t, s) % s = 0 /\ (-FloorTo(t, s)) % s = 0
<1> DEFINE q == t \div s
<1>1. q \in Int /\ q * s \in Int /\ q * s <= t /\ t < q * s + s /\ -(q * s) = (-q) * s
  BY SMT
<1>2. (q * s) % s = 0 /\ ((-q) * s) % s = 0
  BY <1>1, Multiple
<1> QED
  BY <1>1, <1>2 DEF FloorTo

LEMMA CeilingIs ==
  ASSUME NEW t \in Int, NEW s \in Nat \ {0}
  PROVE  /\ CeilingTo(t, s) \in Int /\ t <= CeilingTo(t, s) /\ CeilingTo(t, s) < t + s
         /\ CeilingTo(t, s) % s = 0
<1>1. /\ FloorTo(-t, s) \in Int /\ FloorTo(-t, s) <= -t /\ -t < FloorTo(-t, s) + s
      /\ (-FloorTo(-t, s)) % s = 0
  BY FloorIs
<1> HIDE DEF FloorTo
<1> QED
  BY <1>1 DEF CeilingTo

(* A range that is widened or narrowed stays within its limits, and rounding    *)
(* outwards adds less than a spacing at each end.                              *)
LEMMA RangeIsUsable ==
  ASSUME NEW raw, IsRange(raw)
  PROVE  RangeUsable(raw)
<1> DEFINE s == raw.spacing
           l == FloorTo(raw.lower, s)
           u == CeilingTo(raw.upper, s)
           mid == (l + u) \div 2
           min == raw.min
           max == raw.max
           wide(w) == [lower |-> mid - w \div 2, upper |-> mid + w \div 2]
           range == IF u - l < min THEN wide(min)
                    ELSE IF u - l > max THEN wide(max)
                    ELSE [lower |-> l, upper |-> u]
           a == range.lower
           b == range.upper
           low == FloorTo(a, s)
           high == CeilingTo(b, s)
<1>1. /\ raw.lower \in Int /\ raw.upper \in Int /\ raw.lower <= raw.upper
      /\ s \in Nat \ {0} /\ min \in Nat \ {0} /\ max \in Nat /\ min <= max /\ min % 2 = 0
  BY DEF IsRange
<1> HIDE DEF s, min, max
<1>2. /\ l \in Int /\ l <= raw.lower /\ l % s = 0
      /\ u \in Int /\ raw.upper <= u /\ u % s = 0
  BY <1>1, FloorIs, CeilingIs
<1> HIDE DEF l, u
<1>3. mid \in Int
  BY <1>2
<1> HIDE DEF mid
<1>4. \A w \in Nat : /\ mid - w \div 2 \in Int /\ mid + w \div 2 \in Int
                     /\ (mid + w \div 2) - (mid - w \div 2) <= w
                     /\ w % 2 = 0 => (mid + w \div 2) - (mid - w \div 2) = w
  BY <1>3, SMT
(* Whether widened, narrowed or neither, the range is as wide as asked for.     *)
<1>5. /\ a \in Int /\ b \in Int /\ b - a <= max
      /\ \/ b - a >= min
         \/ u - l > max /\ a = mid - max \div 2 /\ b = mid + max \div 2
  <2>1. CASE u - l < min
    <3>1. a = mid - min \div 2 /\ b = mid + min \div 2
      BY <2>1
    <3> HIDE DEF a, b, range
    <3>2. /\ a \in Int /\ b \in Int /\ b - a = min
      BY <3>1, <1>4, <1>1
    <3> QED
      BY <3>2, <1>1
  <2>2. CASE ~(u - l < min) /\ u - l > max
    <3>1. a = mid - max \div 2 /\ b = mid + max \div 2
      BY <2>2
    <3> HIDE DEF a, b, range
    <3> QED
      BY <3>1, <2>2, <1>4, <1>1
  <2>3. CASE ~(u - l < min) /\ ~(u - l > max)
    <3>1. a = l /\ b = u
      BY <2>3
    <3> HIDE DEF a, b, range
    <3> QED
      BY <3>1, <2>3, <1>1, <1>2
  <2> QED
    BY <2>1, <2>2, <2>3
<1> HIDE DEF a, b, range
<1>6. /\ low \in Int /\ low <= a /\ a < low + s /\ low % s = 0
      /\ high \in Int /\ b <= high /\ high < b + s /\ high % s = 0
  BY <1>1, <1>5, FloorIs, CeilingIs
<1> HIDE DEF low, high
(* An odd maximum narrows to a tick less, which is still no less than an even  *)
(* minimum.                                                                    *)
<1>7. b - a >= min
  <2>1. CASE a = mid - max \div 2 /\ b = mid + max \div 2
    <3>1. max % 2 = 0 => b - a = max
      BY <2>1, <1>1, <1>4
    <3>2. max % 2 = 1 => b - a = max - 1
      BY <2>1, <1>1, <1>3, SMT
    <3>3. max % 2 = 0 \/ max % 2 = 1
      BY <1>1, SMT
    <3>4. max % 2 = 1 => max # min
      BY <1>1
    <3> QED
      BY <3>1, <3>2, <3>3, <3>4, <1>1
  <2> QED
    BY <2>1, <1>5
<1>8. high - low >= min /\ high - low < max + 2 * s /\ low < high
  BY <1>1, <1>5, <1>6, <1>7
<1>9. TickRange(raw.lower, raw.upper, raw.spacing, raw.min, raw.max) = [lower |-> low, upper |-> high]
  BY DEF TickRange, low, high, a, b, range, mid, l, u, s, min, max
<1> QED
  BY <1>6, <1>8, <1>9 DEF RangeUsable, s, min, max

-----------------------------------------------------------------------------
(* The share of cNGN in the portfolio.                                        *)

(* What the k-th answer adds: nothing when it failed.                          *)
Gain(answers, token, k) == IF answers[k][token] < 0 THEN 0 ELSE answers[k][token]

LEMMA BalanceIs ==
  ASSUME NEW answers \in Seq([cngn : Int, stable : Int]), NEW token \in {"cngn", "stable"}
  PROVE  Balance(answers, token) \in Nat
<1> DEFINE n == Len(answers)
           step == [p \in (1..n) \X Nat |-> p[2] + Gain(answers, token, p[1])]
           P(f) == f = [k \in 0..n |-> IF k = 0 THEN 0
                          ELSE f[k - 1] + (IF answers[k][token] < 0 THEN 0 ELSE answers[k][token])]
<1>1. n \in Nat /\ DOMAIN answers = 1..n
  OBVIOUS
<1>2. \A k \in 1..n : Gain(answers, token, k) \in Nat
  <2> TAKE k \in 1..n
  <2>1. answers[k] \in [cngn : Int, stable : Int]
    BY <1>1, ElementOfSeq
  <2>2. answers[k].cngn \in Int /\ answers[k].stable \in Int
    BY <2>1
  <2>3. answers[k][token] = answers[k].cngn \/ answers[k][token] = answers[k].stable
    OBVIOUS
  <2> QED
    BY <2>2, <2>3 DEF Gain
<1>3. \A k \in 1..n, a \in Nat : /\ step[<<k, a>>] = a + Gain(answers, token, k)
                                 /\ step[<<k, a>>] \in Nat
  BY <1>2
<1> HIDE DEF step
<1>4. PICK f \in [0..n -> Nat] : Runs(f, 0, step, n)
  <2>1. Closed(Nat, step, n)
    BY <1>3 DEF Closed
  <2> QED
    BY <2>1, <1>1, Unrolled
<1>5. P(f)
  <2>1. \A k \in 0..n : f[k] = IF k = 0 THEN 0
                               ELSE f[k - 1] + (IF answers[k][token] < 0 THEN 0 ELSE answers[k][token])
    <3> TAKE k \in 0..n
    <3>1. k # 0 => k \in 1..n /\ k - 1 \in 0..n
      BY <1>1
    <3>2. k # 0 => f[k] = f[k - 1] + Gain(answers, token, k)
      BY <3>1, <1>3, <1>4 DEF Runs
    <3> QED
      BY <3>2, <1>4 DEF Runs, Gain
  <2> QED
    BY <2>1
<1> DEFINE g == CHOOSE h : P(h)
<1>6. P(g)
  <2> HIDE DEF P
  <2> QED
    BY <1>5
<1>7. Balance(answers, token) = g[n]
  BY DEF Balance
<1> HIDE DEF g
<1>8. g[0] = 0 /\ \A k \in 1..n : g[k] = g[k - 1] + Gain(answers, token, k)
  <2>1. \A k \in 0..n : g[k] = IF k = 0 THEN 0
                               ELSE g[k - 1] + (IF answers[k][token] < 0 THEN 0 ELSE answers[k][token])
    BY <1>6
  <2>2. 0 \in 0..n /\ \A k \in 1..n : k \in 0..n /\ k # 0
    BY <1>1
  <2> HIDE DEF P
  <2> QED
    BY <2>1, <2>2 DEF Gain
<1> DEFINE S == {m \in Nat : m <= n => g[m] \in Nat}
<1>9. 0 \in S
  BY <1>8
<1>10. \A m \in Nat : m \in S => m + 1 \in S
  <2> SUFFICES ASSUME NEW m \in Nat, m \in S, m + 1 <= n PROVE g[m + 1] \in Nat
    OBVIOUS
  <2>1. m + 1 \in 1..n /\ (m + 1) - 1 = m /\ g[m] \in Nat
    BY <1>1
  <2> QED
    BY <2>1, <1>2, <1>8
<1>11. n \in S
  <2> HIDE DEF S
  <2> QED
    BY <1>1, <1>9, <1>10, SetInduction
<1> QED
  BY <1>7, <1>11, <1>1

(* A part of two balances that are not negative is a share.                    *)
LEMMA ShareIsAShare ==
  ASSUME NEW answers \in Seq([cngn : Int, stable : Int]), NEW rate \in Price
  PROVE  RatioWithin(answers, rate)
<1> DEFINE c == Balance(answers, "cngn")
           t == Balance(answers, "stable")
           n == rate[1]
           d == rate[2]
           worth == Times(<<c, 1>>, rate)
           total == Plus(worth, <<t, 1>>)
           r == DeltaRatio(answers, rate)
<1>1. c \in Nat /\ t \in Nat /\ n \in Nat /\ d \in Nat \ {0} /\ rate = <<n, d>>
  BY BalanceIs DEF Price
<1>2. r = IF Positive(total) THEN Over(worth, total) ELSE NoPrice
  BY DEF DeltaRatio
<1> HIDE DEF c, t, n, d, r
<1>3. worth = <<c * n, d>>
  BY <1>1 DEF Times
<1>4. total = <<c * n + t * d, d>>
  <2>1. CASE d = 1
    BY <2>1, <1>1, <1>3 DEF Plus
  <2>2. CASE d # 1
    BY <2>2, <1>1, <1>3 DEF Plus
  <2> QED
    BY <2>1, <2>2
<1> HIDE DEF worth, total
<1>5. c * n \in Nat /\ t * d \in Nat
  BY <1>1, SMT
<1>6. CASE Positive(total)
  <2>1. r = <<c * n, c * n + t * d>>
    BY <1>2, <1>3, <1>4, <1>6 DEF Over
  <2> QED
    BY <2>1, <1>5 DEF RatioWithin, r, Leq, NoPrice
<1>7. CASE ~Positive(total)
  <2>1. r = <<0, 1>>
    BY <1>2, <1>7 DEF NoPrice
  <2> QED
    BY <2>1 DEF RatioWithin, r, Leq, NoPrice
<1> QED
  BY <1>6, <1>7

-----------------------------------------------------------------------------
(* Weighted means. A sum is followed with two prices that bound it, which it    *)
(* was made from: averages of any number of prices lie between two of them.    *)

Item == [price : Price, weight : Nat]
SumOf == [worth : Price, weight : Nat]

(* A sum is worth at least, or at most, what its weight would be at a price.   *)
AtLeast(sum, p) == p[1] * sum.weight * sum.worth[2] <= sum.worth[1] * p[2]
AtMost(sum, p)  == sum.worth[1] * p[2] <= p[1] * sum.weight * sum.worth[2]

(* Inequalities of naturals are added with weights.                            *)
LEMMA TwoProducts ==
  ASSUME NEW x \in Nat, NEW y \in Nat, NEW z \in Nat, NEW w \in Nat, NEW s \in Nat, NEW t \in Nat,
         x <= y, z <= w
  PROVE  x * s + z * t <= y * s + w * t
<1>1. x * s <= y * s /\ z * t <= w * t
  BY MonotoneTimes
<1>2. x * s \in Nat /\ y * s \in Nat /\ z * t \in Nat /\ w * t \in Nat
  BY SMT
<1> QED
  BY <1>1, <1>2

(* x / y weighs n so far, c / d is added with weight k.                         *)
LEMMA FractionsAdd ==
  ASSUME NEW p \in Nat, NEW q \in Nat, NEW a \in Nat, NEW b \in Nat, NEW c \in Nat, NEW d \in Nat,
         NEW n \in Nat, NEW k \in Nat
  PROVE  /\ p * n * b <= a * q /\ p * d <= c * q =>
              p * (n + k) * (b * d) <= (a * d + (c * k) * b) * q
         /\ a * q <= p * n * b /\ c * q <= p * d =>
              (a * d + (c * k) * b) * q <= p * (n + k) * (b * d)
<1>1. /\ p * (n + k) * (b * d) = (p * n * b) * d + (p * d) * (k * b)
      /\ (a * d + (c * k) * b) * q = (a * q) * d + (c * q) * (k * b)
  BY SMT
<1>2. p * n * b \in Nat /\ p * d \in Nat /\ a * q \in Nat /\ c * q \in Nat /\ k * b \in Nat
  BY SMT
<1> QED
  BY <1>1, <1>2, TwoProducts

(* The same for two fractions with one denominator, b.                         *)
LEMMA SameBottom ==
  ASSUME NEW p \in Nat, NEW q \in Nat, NEW a \in Nat, NEW b \in Nat, NEW c \in Nat,
         NEW n \in Nat, NEW k \in Nat
  PROVE  /\ p * n * b <= a * q /\ p * b <= c * q => p * (n + k) * b <= (a + c * k) * q
         /\ a * q <= p * n * b /\ c * q <= p * b => (a + c * k) * q <= p * (n + k) * b
<1>1. /\ p * (n + k) * b = (p * n * b) * 1 + (p * b) * k
      /\ (a + c * k) * q = (a * q) * 1 + (c * q) * k
  BY SMT
<1>2. p * n * b \in Nat /\ p * b \in Nat /\ a * q \in Nat /\ c * q \in Nat
  BY SMT
<1> QED
  BY <1>1, <1>2, TwoProducts

(* A fraction no greater than one that is no greater than a third.             *)
LEMMA Between ==
  ASSUME NEW p \in Nat, NEW q \in Nat \ {0}, NEW c \in Nat, NEW d \in Nat \ {0},
         NEW w \in Nat, NEW v \in Nat
  PROVE  /\ c * q <= p * d /\ p * w <= v * q => c * w <= v * d
         /\ p * d <= c * q /\ v * q <= p * w => v * d <= c * w
<1>1. /\ (c * q) * w = (c * w) * q /\ (p * d) * w = (p * w) * d /\ (v * q) * d = (v * d) * q
  BY SMT
<1>2. c * q \in Nat /\ p * d \in Nat /\ p * w \in Nat /\ v * q \in Nat /\ c * w \in Nat /\ v * d \in Nat
  BY SMT
<1>3. ASSUME c * q <= p * d, p * w <= v * q PROVE c * w <= v * d
  <2>1. (c * w) * q <= (v * d) * q
    <3>1. (c * q) * w <= (p * d) * w /\ (p * w) * d <= (v * q) * d
      BY <1>2, <1>3, MonotoneTimes
    <3> QED
      BY <1>1, <3>1, <1>2, SMT
  <2> QED
    BY <2>1, <1>2, SMT
<1>4. ASSUME p * d <= c * q, v * q <= p * w PROVE v * d <= c * w
  <2>1. (v * d) * q <= (c * w) * q
    <3>1. (p * d) * w <= (c * q) * w /\ (v * q) * d <= (p * w) * d
      BY <1>2, <1>4, MonotoneTimes
    <3> QED
      BY <1>1, <3>1, <1>2, SMT
  <2> QED
    BY <2>1, <1>2, SMT
<1> QED
  BY <1>3, <1>4

(* A sum in progress: nothing, or no less than at one of the prices it is made *)
(* from and no more than at another.                                           *)
Bounded(sum, prices) ==
  /\ sum \in SumOf
  /\ sum.weight = 0 => sum.worth[1] = 0
  /\ sum.weight > 0 => /\ \E p \in prices : AtLeast(sum, p)
                       /\ \E p \in prices : AtMost(sum, p)

LEMMA LeqTotal ==
  ASSUME NEW p \in Price, NEW q \in Price
  PROVE  Leq(p, q) \/ Leq(q, p)
<1>1. p[1] * q[2] \in Int /\ q[1] * p[2] \in Int
  BY SMT DEF Price
<1> QED
  BY <1>1 DEF Leq

(* Adding an item keeps the sum bounded: by the price that bounded it before or *)
(* by the price that is added, whichever is the further out.                   *)
LEMMA WeightedIs ==
  ASSUME NEW P \in SUBSET Price, NEW sum, Bounded(sum, P), NEW item \in Item, item.price \in P
  PROVE  Bounded(Weighted(sum, item), P)
<1> DEFINE a == sum.worth[1]
           b == sum.worth[2]
           n == sum.weight
           r == item.price
           c == item.price[1]
           d == item.price[2]
           k == item.weight
           new == Weighted(sum, item)
<1>1. /\ a \in Nat /\ b \in Nat \ {0} /\ n \in Nat /\ c \in Nat /\ d \in Nat \ {0} /\ k \in Nat
      /\ sum.worth = <<a, b>> /\ r = <<c, d>> /\ r \in Price
      /\ n = 0 => a = 0
  BY DEF Bounded, SumOf, Item, Price
<1>2. /\ n > 0 => (\E p \in P : AtLeast(sum, p)) /\ (\E p \in P : AtMost(sum, p))
      /\ \A p \in P : p[1] \in Nat /\ p[2] \in Nat \ {0} /\ p \in Price
  BY DEF Bounded, Price
<1>3. /\ \A p : AtLeast(sum, p) <=> p[1] * n * b <= a * p[2]
      /\ \A p : AtMost(sum, p) <=> a * p[2] <= p[1] * n * b
      /\ \A p : Leq(p, r) <=> p[1] * d <= c * p[2]
      /\ \A p : Leq(r, p) <=> c * p[2] <= p[1] * d
      /\ r[1] = c /\ r[2] = d
  BY <1>1 DEF AtLeast, AtMost, Leq
<1>4. /\ new.weight = n + k
      /\ new.worth = IF b = d THEN <<a + c * k, b>> ELSE <<a * d + (c * k) * b, b * d>>
  <2>1. Times(item.price, <<item.weight, 1>>) = <<c * k, d>>
    BY <1>1 DEF Times
  <2>2. Plus(sum.worth, <<c * k, d>>) = IF b = d THEN <<a + c * k, b>>
                                        ELSE <<a * d + (c * k) * b, b * d>>
    BY <1>1 DEF Plus
  <2>3. new = [worth |-> Plus(sum.worth, <<c * k, d>>), weight |-> n + k]
    BY <2>1 DEF Weighted
  <2> HIDE DEF a, b, n, c, d, k, new
  <2> QED
    BY <2>2, <2>3
<1> HIDE DEF a, b, n, c, d, k, new, r
<1>5. c * k \in Nat /\ a * d \in Nat /\ (c * k) * b \in Nat /\ b * d \in Nat \ {0} /\ n * b \in Nat
  BY <1>1, SMT
<1>6. new \in SumOf
  <2>1. new.worth \in Price /\ new.weight \in Nat
    <3>1. CASE b = d
      BY <3>1, <1>1, <1>4, <1>5 DEF Price
    <3>2. CASE b # d
      BY <3>2, <1>1, <1>4, <1>5 DEF Price
    <3> QED
      BY <3>1, <3>2
  <2>2. new = [worth |-> new.worth, weight |-> new.weight]
    BY DEF new, Weighted
  <2> QED
    BY <2>1, <2>2 DEF SumOf
<1>7. new.weight = 0 => new.worth[1] = 0
  <2> SUFFICES ASSUME new.weight = 0 PROVE new.worth[1] = 0
    OBVIOUS
  <2>1. n = 0 /\ k = 0 /\ a = 0
    BY <1>1, <1>4
  <2>2. c * k = 0 /\ a * d = 0 /\ (c * k) * b = 0
    BY <2>1, <1>1, SMT
  <2>3. CASE b = d
    BY <2>1, <2>2, <2>3, <1>4
  <2>4. CASE b # d
    BY <2>1, <2>2, <2>4, <1>4
  <2> QED
    BY <2>3, <2>4
(* The price that bounded the sum, or the price that is added.                 *)
<1>8. \E p \in P : AtLeast(sum, p) /\ Leq(p, r)
  <2>1. r \in P /\ Leq(r, r)
    BY <1>1, <1>3 DEF r
  <2>2. CASE n = 0
    <3>1. c * n * b <= a * d
      BY <2>2, <1>1, SMT
    <3> QED
      BY <3>1, <2>1, <1>3
  <2>3. CASE n > 0
    <3>1. PICK p \in P : AtLeast(sum, p)
      BY <2>3, <1>2
    <3>2. CASE Leq(p, r)
      BY <3>1, <3>2
    <3>3. CASE Leq(r, p)
      <4> DEFINE x == p[1]
                 y == p[2]
      <4>1. x \in Nat /\ y \in Nat \ {0} /\ c * y <= x * d /\ x * n * b <= a * y
        BY <3>1, <3>3, <1>2, <1>3
      <4> HIDE DEF x, y
      <4>2. x * (n * b) = x * n * b /\ c * (n * b) = c * n * b
        BY <1>1, <4>1, SMT
      <4>3. c * (n * b) <= a * d
        <5>1. x * (n * b) <= a * y
          BY <4>1, <4>2
        <5> QED
          BY <5>1, <4>1, <1>1, <1>5, Between
      <4> QED
        BY <4>2, <4>3, <2>1, <1>3
    <3> QED
      BY <3>2, <3>3, <1>1, <1>2, LeqTotal
  <2> QED
    BY <2>2, <2>3, <1>1
<1>9. \E p \in P : AtMost(sum, p) /\ Leq(r, p)
  <2>1. r \in P /\ Leq(r, r)
    BY <1>1, <1>3 DEF r
  <2>2. CASE n = 0
    <3>1. a * d <= c * n * b
      BY <2>2, <1>1, SMT
    <3> QED
      BY <3>1, <2>1, <1>3
  <2>3. CASE n > 0
    <3>1. PICK p \in P : AtMost(sum, p)
      BY <2>3, <1>2
    <3>2. CASE Leq(r, p)
      BY <3>1, <3>2
    <3>3. CASE Leq(p, r)
      <4> DEFINE x == p[1]
                 y == p[2]
      <4>1. x \in Nat /\ y \in Nat \ {0} /\ x * d <= c * y /\ a * y <= x * n * b
        BY <3>1, <3>3, <1>2, <1>3
      <4> HIDE DEF x, y
      <4>2. x * (n * b) = x * n * b /\ c * (n * b) = c * n * b
        BY <1>1, <4>1, SMT
      <4>3. a * d <= c * (n * b)
        <5>1. a * y <= x * (n * b)
          BY <4>1, <4>2
        <5> QED
          BY <5>1, <4>1, <1>1, <1>5, Between
      <4> QED
        BY <4>2, <4>3, <2>1, <1>3
    <3> QED
      BY <3>2, <3>3, <1>1, <1>2, LeqTotal
  <2> QED
    BY <2>2, <2>3, <1>1
<1>10. \E p \in P : AtLeast(new, p)
  <2>1. PICK p \in P : AtLeast(sum, p) /\ Leq(p, r)
    BY <1>8
  <2> DEFINE x == p[1]
             y == p[2]
  <2>2. x \in Nat /\ y \in Nat /\ x * n * b <= a * y /\ x * d <= c * y
    BY <2>1, <1>2, <1>3
  <2>3. AtLeast(new, p) <=> x * new.weight * new.worth[2] <= new.worth[1] * y
    BY DEF AtLeast
  <2> HIDE DEF x, y
  <2>4. CASE b = d
    <3>1. new.worth[1] = a + c * k /\ new.worth[2] = b
      BY <2>4, <1>4
    <3>2. x * (n + k) * b <= (a + c * k) * y
      BY <2>2, <2>4, <1>1, SameBottom
    <3> QED
      BY <3>1, <3>2, <2>3, <1>4
  <2>5. CASE b # d
    <3>1. new.worth[1] = a * d + (c * k) * b /\ new.worth[2] = b * d
      BY <2>5, <1>4
    <3>2. x * (n + k) * (b * d) <= (a * d + (c * k) * b) * y
      BY <2>2, <1>1, FractionsAdd
    <3> QED
      BY <3>1, <3>2, <2>3, <1>4
  <2> QED
    BY <2>4, <2>5
<1>11. \E p \in P : AtMost(new, p)
  <2>1. PICK p \in P : AtMost(sum, p) /\ Leq(r, p)
    BY <1>9
  <2> DEFINE x == p[1]
             y == p[2]
  <2>2. x \in Nat /\ y \in Nat /\ a * y <= x * n * b /\ c * y <= x * d
    BY <2>1, <1>2, <1>3
  <2>3. AtMost(new, p) <=> new.worth[1] * y <= x * new.weight * new.worth[2]
    BY DEF AtMost
  <2> HIDE DEF x, y
  <2>4. CASE b = d
    <3>1. new.worth[1] = a + c * k /\ new.worth[2] = b
      BY <2>4, <1>4
    <3>2. (a + c * k) * y <= x * (n + k) * b
      BY <2>2, <2>4, <1>1, SameBottom
    <3> QED
      BY <3>1, <3>2, <2>3, <1>4
  <2>5. CASE b # d
    <3>1. new.worth[1] = a * d + (c * k) * b /\ new.worth[2] = b * d
      BY <2>5, <1>4
    <3>2. (a * d + (c * k) * b) * y <= x * (n + k) * (b * d)
      BY <2>2, <1>1, FractionsAdd
    <3> QED
      BY <3>1, <3>2, <2>3, <1>4
  <2> QED
    BY <2>4, <2>5
<1> QED
  BY <1>6, <1>7, <1>10, <1>11 DEF Bounded, new

(* The mean of a sum is a price between two of those it is made from.          *)
Amid(rate, prices) ==
  /\ rate \in Price
  /\ Positive(rate) => \E p, q \in prices : Leq(p, rate) /\ Leq(rate, q)

LEMMA MeanIs ==
  ASSUME NEW P \in SUBSET Price, NEW sum, Bounded(sum, P)
  PROVE  Amid(Mean(sum), P)
<1> DEFINE a == sum.worth[1]
           b == sum.worth[2]
           n == sum.weight
           m == Mean(sum)
<1>1. /\ a \in Nat /\ b \in Nat \ {0} /\ n \in Nat /\ sum.worth = <<a, b>>
      /\ n > 0 => (\E p \in P : AtLeast(sum, p)) /\ (\E p \in P : AtMost(sum, p))
      /\ \A p \in P : p[1] \in Nat /\ p[2] \in Nat \ {0}
  BY DEF Bounded, SumOf, Price
<1>2. /\ \A p : AtLeast(sum, p) <=> p[1] * n * b <= a * p[2]
      /\ \A p : AtMost(sum, p) <=> a * p[2] <= p[1] * n * b
  BY DEF AtLeast, AtMost
<1>3. m = IF n = 0 THEN <<0, 1>> ELSE IF b = 1 THEN <<a, n>> ELSE <<a * 1, b * n>>
  <2>1. m = IF n = 0 THEN <<0, 1>> ELSE Over(<<a, b>>, <<n, 1>>)
    BY <1>1 DEF Mean, NoPrice
  <2>2. Over(<<a, b>>, <<n, 1>>) = IF b = 1 THEN <<a, n>> ELSE <<a * 1, b * n>>
    BY DEF Over
  <2> QED
    BY <2>1, <2>2
<1> HIDE DEF a, b, n, m
<1>4. CASE n = 0
  BY <1>3, <1>4 DEF Amid, Positive, Price, m
<1>5. CASE n # 0
  <2>1. a * 1 = a /\ b * n \in Nat \ {0} /\ n * b = b * n /\ (b = 1 => b * n = n)
    BY <1>1, <1>5, SMT
  <2>2. m = <<a, b * n>>
    BY <2>1, <1>3, <1>5
  <2>3. \A p \in P : p[1] * n * b = p[1] * (b * n)
    BY <1>1, SMT
  <2>4. \E p \in P : Leq(p, m)
    <3>1. PICK p \in P : p[1] * n * b <= a * p[2]
      BY <1>1, <1>2, <1>5
    <3> QED
      BY <3>1, <2>2, <2>3 DEF Leq
  <2>5. \E p \in P : Leq(m, p)
    <3>1. PICK p \in P : a * p[2] <= p[1] * n * b
      BY <1>1, <1>2, <1>5
    <3> QED
      BY <3>1, <2>2, <2>3 DEF Leq
  <2>6. m \in Price
    BY <2>1, <2>2, <1>1 DEF Price
  <2> QED
    BY <2>4, <2>5, <2>6 DEF Amid, m
<1> QED
  BY <1>4, <1>5

(* What the k-th item makes of a sum.                                          *)
Included(items, counted, k, sum) == IF k \in counted THEN Weighted(sum, items[k]) ELSE sum

(* So is the sum of any list, over whichever of its items are counted.          *)
LEMMA SummedIs ==
  ASSUME NEW P \in SUBSET Price, NEW items \in Seq(Item), NEW counted,
         \A i \in DOMAIN items : i \in counted => items[i].price \in P
  PROVE  Bounded(Summed(items, counted), P)
<1> DEFINE n == Len(items)
           A == {x \in SumOf : Bounded(x, P)}
           step == [p \in (1..n) \X A |-> Included(items, counted, p[1], p[2])]
           F(f) == f = [k \in 0..n |-> IF k = 0 THEN Nobody
                          ELSE IF k \in counted THEN Weighted(f[k - 1], items[k])
                          ELSE f[k - 1]]
<1>1. n \in Nat /\ DOMAIN items = 1..n /\ \A k \in 1..n : items[k] \in Item
  BY ElementOfSeq
<1>2. Nobody \in A
  <2>1. Nobody \in SumOf /\ Nobody.weight = 0 /\ Nobody.worth[1] = 0
    BY DEF Nobody, SumOf, Price, NoPrice
  <2> QED
    BY <2>1 DEF Bounded
<1>3. \A k \in 1..n, x \in A : Included(items, counted, k, x) \in A
  <2> TAKE k \in 1..n, x \in A
  <2>1. CASE k \in counted
    <3>1. items[k] \in Item /\ items[k].price \in P
      BY <1>1, <2>1
    <3>2. Bounded(Weighted(x, items[k]), P)
      BY <3>1, WeightedIs
    <3> QED
      BY <3>2, <2>1 DEF Included, Bounded
  <2>2. CASE k \notin counted
    BY <2>2 DEF Included
  <2> QED
    BY <2>1, <2>2
<1> HIDE DEF A
<1>4. \A k \in 1..n, x \in A : /\ step[<<k, x>>] = Included(items, counted, k, x)
                               /\ step[<<k, x>>] \in A
  BY <1>3
<1> HIDE DEF step
<1>5. PICK f \in [0..n -> A] : Runs(f, Nobody, step, n)
  <2>1. Closed(A, step, n)
    BY <1>4 DEF Closed
  <2> QED
    BY <2>1, <1>1, <1>2, Unrolled
<1>6. F(f)
  <2>1. \A k \in 0..n : f[k] = IF k = 0 THEN Nobody
                               ELSE IF k \in counted THEN Weighted(f[k - 1], items[k])
                               ELSE f[k - 1]
    <3> TAKE k \in 0..n
    <3>1. k # 0 => k \in 1..n /\ k - 1 \in 0..n
      BY <1>1
    <3>2. k # 0 => f[k] = Included(items, counted, k, f[k - 1])
      BY <3>1, <1>4, <1>5 DEF Runs
    <3> QED
      BY <3>2, <1>5 DEF Runs, Included
  <2> QED
    BY <2>1
<1> DEFINE g == CHOOSE h : F(h)
<1>7. F(g)
  <2> HIDE DEF F
  <2> QED
    BY <1>6
<1>8. Summed(items, counted) = g[n]
  BY DEF Summed
<1> HIDE DEF g
<1>9. g[0] = Nobody /\ \A k \in 1..n : g[k] = Included(items, counted, k, g[k - 1])
  <2>1. \A k \in 0..n : g[k] = IF k = 0 THEN Nobody
                               ELSE IF k \in counted THEN Weighted(g[k - 1], items[k])
                               ELSE g[k - 1]
    BY <1>7
  <2>2. 0 \in 0..n /\ \A k \in 1..n : k \in 0..n /\ k # 0
    BY <1>1
  <2> HIDE DEF F
  <2> QED
    BY <2>1, <2>2 DEF Included
<1> DEFINE S == {m \in Nat : m <= n => g[m] \in A}
<1>10. 0 \in S
  BY <1>9, <1>2
<1>11. \A m \in Nat : m \in S => m + 1 \in S
  <2> SUFFICES ASSUME NEW m \in Nat, m \in S, m + 1 <= n PROVE g[m + 1] \in A
    OBVIOUS
  <2>1. m + 1 \in 1..n /\ (m + 1) - 1 = m /\ g[m] \in A
    BY <1>1
  <2> QED
    BY <2>1, <1>3, <1>9
<1>12. n \in S
  <2> HIDE DEF S
  <2> QED
    BY <1>1, <1>10, <1>11, SetInduction
<1> QED
  BY <1>8, <1>12, <1>1 DEF A

LEMMA MeanOfSummed ==
  ASSUME NEW P \in SUBSET Price, NEW items \in Seq(Item), NEW counted,
         \A i \in DOMAIN items : i \in counted => items[i].price \in P
  PROVE  Amid(Mean(Summed(items, counted)), P)
BY SummedIs, MeanIs

-----------------------------------------------------------------------------
(* The rate. The size of a stored number tells what it is a price of, as long   *)
(* as the naira is worth less than a dollar.                                   *)
LEMMA WorthIs ==
  ASSUME NEW source, NEW mid, IsPrice(source, mid)
  PROVE  /\ Worth(source, mid) \in Price /\ Positive(Worth(source, mid))
         /\ Guessed(source, mid) = Worth(source, mid)
<1>1. PICK a \in Nat, b \in Nat \ {0} : mid = <<a, b>>
  BY DEF IsPrice, Price
<1>2. a > 0 /\ (source # "bybit" => a < b)
  BY <1>1 DEF IsPrice, Positive, Below, Leq
<1>3. /\ Below(<<100, 1>>, mid) <=> a > 100 * b
      /\ Below(mid, <<1, 1>>) <=> a < b
      /\ Positive(mid)
  BY <1>1, <1>2 DEF Below, Leq, Positive
<1>4. CASE source = "bybit"
  <2>1. Worth(source, mid) = <<b, a>>
    BY <1>1, <1>4 DEF Worth, Flip
  <2>2. Guessed(source, mid) = Flip(mid)
    BY <1>3, <1>4 DEF Guessed
  <2> QED
    BY <2>1, <2>2, <1>1, <1>2, <1>4 DEF Worth, Price, Positive
<1>5. CASE source # "bybit"
  <2>1. Worth(source, mid) = mid
    BY <1>5 DEF Worth
  <2>2. ~(a > 100 * b)
    BY <1>2, <1>5
  <2>3. Guessed(source, mid) = mid
    BY <1>2, <1>3, <1>5, <2>2 DEF Guessed
  <2> QED
    BY <2>1, <2>3, <1>1, <1>3 DEF Price
<1> QED
  BY <1>4, <1>5

(* What a venue that has a say in the fair value is taken to quote.            *)
LEMMA QuoteIs ==
  ASSUME NEW venue, NEW quote, IsQuote(venue, quote)
  PROVE  /\ quote = NoQuote => ~Positive(Normalized(quote))
         /\ quote # NoQuote => /\ IsPrice(venue, quote.mid)
                               /\ quote.volume \in Nat \cup {Unheard}
                               /\ Normalized(quote) = Worth(venue, quote.mid)
<1>1. CASE quote = NoQuote
  <2>1. Normalized(quote) = NoPrice
    BY <1>1 DEF NoQuote, Normalized
  <2> QED
    BY <2>1, <1>1 DEF NoPrice, Positive
<1>2. CASE quote # NoQuote
  <2>1. /\ quote.pair = IF venue = "bybit" THEN "USDT/NGN" ELSE "cNGN/USDC"
        /\ IsPrice(venue, quote.mid) /\ quote.volume \in Nat \cup {Unheard}
    BY <1>2 DEF IsQuote
  <2>2. Positive(quote.mid) /\ (venue # "bybit" => Below(quote.mid, <<1, 1>>))
    BY <2>1 DEF IsPrice
  <2>3. Normalized(quote) = Worth(venue, quote.mid)
    <3>1. CASE venue = "bybit"
      BY <2>1, <2>2, <3>1 DEF Normalized, Worth
    <3>2. CASE venue # "bybit"
      BY <2>1, <2>2, <3>2 DEF Normalized, Worth
    <3> QED
      BY <3>1, <3>2
  <2> QED
    BY <2>1, <2>3, <1>2
<1> QED
  BY <1>1, <1>2

(* What the store may hold.                                                    *)
Snaps == Seq([source : Sources, at : Int, mid : Price])

LEMMA FairIs ==
  ASSUME NEW quotes, DOMAIN quotes = Sources, \A v \in Sources : IsQuote(v, quotes[v]),
         NEW v \in Sources \ Excluded, quotes[v] # NoQuote
  PROVE  v \in Fair(quotes)
<1>1. IsPrice(v, quotes[v].mid) /\ Normalized(quotes[v]) = Worth(v, quotes[v].mid)
  BY QuoteIs
<1>2. Positive(Normalized(quotes[v]))
  BY <1>1, WorthIs
<1> QED
  BY <1>2 DEF Fair

(* All that has a say in the rate was heard.                                   *)
LEMMA HeardIs ==
  ASSUME NEW quotes, DOMAIN quotes = Sources, \A v \in Sources : IsQuote(v, quotes[v]),
         NEW snaps \in Snaps, \A i \in DOMAIN snaps : IsPrice(snaps[i].source, snaps[i].mid)
  PROVE  /\ \A v \in Fair(quotes) :
              /\ v \in Sources /\ quotes[v] # NoQuote
              /\ quotes[v].volume \in Nat \cup {Unheard}
              /\ Normalized(quotes[v]) \in PricesHeard(quotes, snaps)
         /\ \A i \in DOMAIN snaps : Counts(snaps[i]) =>
              Guessed(snaps[i].source, snaps[i].mid) \in PricesHeard(quotes, snaps)
         /\ PricesHeard(quotes, snaps) \in SUBSET Price
<1>1. \A v \in Fair(quotes) : /\ v \in Sources /\ quotes[v] # NoQuote
                              /\ quotes[v].volume \in Nat \cup {Unheard}
                              /\ Normalized(quotes[v]) = Worth(v, quotes[v].mid)
                              /\ Worth(v, quotes[v].mid) \in Price
  <2> TAKE v \in Fair(quotes)
  <2>1. v \in Sources /\ Positive(Normalized(quotes[v])) /\ IsQuote(v, quotes[v])
    BY DEF Fair
  <2>2. /\ quotes[v] # NoQuote /\ quotes[v].volume \in Nat \cup {Unheard}
        /\ IsPrice(v, quotes[v].mid) /\ Normalized(quotes[v]) = Worth(v, quotes[v].mid)
    BY <2>1, QuoteIs
  <2> QED
    BY <2>1, <2>2, WorthIs
<1>2. \A i \in DOMAIN snaps : /\ Worth(snaps[i].source, snaps[i].mid) \in Price
                              /\ Guessed(snaps[i].source, snaps[i].mid)
                                   = Worth(snaps[i].source, snaps[i].mid)
  BY WorthIs
<1>3. \A i \in DOMAIN snaps : Counts(snaps[i]) => snaps[i].source \notin Excluded
  BY DEF Counts
<1>4. /\ \A v \in Fair(quotes) : Worth(v, quotes[v].mid) \in PricesHeard(quotes, snaps)
      /\ \A i \in DOMAIN snaps : snaps[i].source \notin Excluded =>
           Worth(snaps[i].source, snaps[i].mid) \in PricesHeard(quotes, snaps)
  BY DEF PricesHeard
<1>5. PricesHeard(quotes, snaps) \in SUBSET Price
  BY <1>1, <1>2 DEF PricesHeard
<1> QED
  BY <1>1, <1>2, <1>3, <1>4, <1>5

(* The venues listed in some order.                                            *)
LEMMA ListedIs ==
  ASSUME NEW S, IsFiniteSet(S)
  PROVE  SetToSeq(S) \in Seq(S)
<1> DEFINE n == Cardinality(S)
           I(f) == f \in [1..n -> S] /\ IsInjective(f)
<1>1. n \in Nat /\ ExistsBijection(1..n, S)
  BY FS_CardinalityType
<1>2. PICK f \in Bijection(1..n, S) : TRUE
  BY <1>1 DEF ExistsBijection
<1>3. I(f)
  BY <1>2 DEF Bijection, Injection
<1>4. I(CHOOSE h : I(h))
  <2> HIDE DEF I
  <2> QED
    BY <1>3
<1> DEFINE g == CHOOSE h \in [1..n -> S] : IsInjective(h)
<1>5. g \in [1..n -> S]
  BY <1>3
<1>6. SetToSeq(S) = g
  BY DEF SetToSeq
<1> HIDE DEF g, n
<1> QED
  BY <1>1, <1>5, <1>6

LEMMA VwapIs ==
  ASSUME NEW quotes, DOMAIN quotes = Sources, \A v \in Sources : IsQuote(v, quotes[v]),
         IsFiniteSet(Sources), NEW P \in SUBSET Price,
         \A v \in Fair(quotes) : /\ v \in Sources /\ quotes[v].volume \in Nat \cup {Unheard}
                                 /\ Normalized(quotes[v]) \in P
  PROVE  Amid(Vwap(quotes), P)
<1> DEFINE S == {v \in Fair(quotes) : quotes[v].volume # Unheard}
           heard == SetToSeq(S)
           items == [i \in DOMAIN heard |-> [price  |-> Normalized(quotes[heard[i]]),
                                            weight |-> quotes[heard[i]].volume]]
<1>1. IsFiniteSet(S)
  <2>1. S \subseteq Sources
    OBVIOUS
  <2> QED
    BY <2>1, FS_Subset
<1>2. \A v \in S : quotes[v].volume \in Nat /\ Normalized(quotes[v]) \in P
  OBVIOUS
<1>3. Vwap(quotes) = Mean(Summed(items, DOMAIN heard))
  BY DEF Vwap
<1> HIDE DEF S
<1>4. heard \in Seq(S)
  BY <1>1, ListedIs
<1> HIDE DEF heard
<1>5. \A i \in DOMAIN heard : heard[i] \in S
  BY <1>4, ElementOfSeq
<1>6. \A i \in DOMAIN heard : items[i] \in Item /\ items[i].price \in P
  BY <1>2, <1>5 DEF Item
<1>7. items \in Seq(Item) /\ DOMAIN items = DOMAIN heard
  <2>1. DOMAIN heard = 1..Len(heard) /\ Len(heard) \in Nat /\ DOMAIN items = DOMAIN heard
    BY <1>4
  <2>2. items \in [1..Len(heard) -> Item]
    BY <2>1, <1>6
  <2> HIDE DEF items
  <2> QED
    BY <2>1, <2>2
<1> HIDE DEF items
<1> QED
  BY <1>3, <1>6, <1>7, MeanOfSummed

LEMMA TwapIs ==
  ASSUME NEW snaps \in Snaps, NEW from \in Int, NEW until \in Int, NEW P \in SUBSET Price,
         \A i \in DOMAIN snaps : IsPrice(snaps[i].source, snaps[i].mid),
         \A i \in DOMAIN snaps : Counts(snaps[i]) => Guessed(snaps[i].source, snaps[i].mid) \in P
  PROVE  Amid(Twap(snaps, from, until), P)
<1> DEFINE items == Timed(snaps, until)
           counted == {i \in Within(snaps, from) : Counts(snaps[i])}
<1>1. DOMAIN snaps = 1..Len(snaps) /\ Len(snaps) \in Nat
  BY DEF Snaps
<1>2. \A i \in DOMAIN snaps : snaps[i].at \in Int
  <2> TAKE i \in DOMAIN snaps
  <2>1. snaps[i] \in [source : Sources, at : Int, mid : Price]
    BY <1>1, ElementOfSeq DEF Snaps
  <2> QED
    BY <2>1
<1>3. \A i \in DOMAIN snaps : Duration(snaps, i, until) \in Nat
  <2> TAKE i \in DOMAIN snaps
  <2>1. i < Len(snaps) => i + 1 \in DOMAIN snaps
    BY <1>1
  <2> DEFINE next == IF i < Len(snaps) THEN snaps[i + 1].at ELSE until
  <2>2. next \in Int
    BY <2>1, <1>2
  <2>3. Duration(snaps, i, until) = IF next - snaps[i].at > 1 THEN next - snaps[i].at ELSE 1
    BY DEF Duration
  <2> HIDE DEF next
  <2> QED
    BY <2>2, <2>3, <1>2
<1>4. \A i \in DOMAIN snaps : Guessed(snaps[i].source, snaps[i].mid) \in Price
  BY WorthIs
<1>5. /\ DOMAIN items = DOMAIN snaps
      /\ \A i \in DOMAIN snaps : /\ items[i].price = Guessed(snaps[i].source, snaps[i].mid)
                                 /\ items[i] \in Item
  BY <1>3, <1>4 DEF Timed, Item
<1>6. items \in Seq(Item)
  <2>1. items \in [1..Len(snaps) -> Item]
    <3>1. items = [i \in 1..Len(snaps) |-> items[i]]
      BY <1>1 DEF Timed
    <3> HIDE DEF items
    <3> QED
      BY <3>1, <1>1, <1>5
  <2> HIDE DEF items
  <2> QED
    BY <2>1, <1>1
<1>7. Twap(snaps, from, until) = Mean(Summed(items, counted))
  BY DEF Twap
<1>8. \A i \in DOMAIN items : i \in counted => items[i].price \in P
  BY <1>5
<1> HIDE DEF items, counted
<1> QED
  BY <1>6, <1>7, <1>8, MeanOfSummed

LEMMA OrIs ==
  ASSUME NEW P, NEW p, NEW q, Amid(p, P), Amid(q, P)
  PROVE  Amid(Or(p, q), P)
BY DEF Or

LEMMA RateIsWithin ==
  ASSUME NEW quotes, DOMAIN quotes = Sources, \A v \in Sources : IsQuote(v, quotes[v]),
         IsFiniteSet(Sources), {"bybit", "quidax"} \subseteq Sources,
         NEW snaps \in Snaps, \A i \in DOMAIN snaps : IsPrice(snaps[i].source, snaps[i].mid),
         NEW until \in Int
  PROVE  RateWithin(quotes, snaps, until)
<1> DEFINE P == PricesHeard(quotes, snaps)
           b == Blended(quotes, snaps, until)
           bybit == quotes["bybit"].mid
           naira == IF Positive(bybit) THEN Flip(bybit) ELSE NoPrice
           quidax == quotes["quidax"].mid
<1>1. /\ P \in SUBSET Price
      /\ \A v \in Fair(quotes) : /\ v \in Sources /\ quotes[v].volume \in Nat \cup {Unheard}
                                 /\ Normalized(quotes[v]) \in P
      /\ \A i \in DOMAIN snaps : Counts(snaps[i]) => Guessed(snaps[i].source, snaps[i].mid) \in P
  BY HeardIs
<1>2. P = PricesHeard(quotes, snaps)
  OBVIOUS
<1> HIDE DEF P
<1>3. Amid(b.vwap, P) /\ Amid(b.twap_5m, P) /\ Amid(b.twap_1h, P)
  <2>1. Amid(Vwap(quotes), P)
    BY <1>1, VwapIs
  <2>2. until - 2 \in Int /\ until - 4 \in Int
    OBVIOUS
  <2>3. Amid(Twap(snaps, until - 2, until), P) /\ Amid(Twap(snaps, until - 4, until), P)
    BY <2>2, <1>1, TwapIs
  <2>4. /\ b.vwap = Vwap(quotes)
        /\ b.twap_5m = Or(Twap(snaps, until - 2, until), Vwap(quotes))
        /\ b.twap_1h = Or(Twap(snaps, until - 4, until), Vwap(quotes))
    BY DEF Blended
  <2> HIDE DEF b
  <2> QED
    BY <2>1, <2>3, <2>4, OrIs
<1>4. Amid(NoPrice, P) /\ \A p \in P : p \in Price => Amid(p, P)
  <2>1. Amid(NoPrice, P)
    BY DEF Amid, NoPrice, Positive, Price
  <2>2. \A p \in P : p \in Price => Leq(p, p)
    BY DEF Leq, Price
  <2> QED
    BY <2>1, <2>2 DEF Amid
<1>5. Amid(quidax, P)
  <2>1. CASE quotes["quidax"] = NoQuote
    BY <2>1, <1>4 DEF NoQuote
  <2>2. CASE quotes["quidax"] # NoQuote
    <3>1. "quidax" \in Sources \ Excluded
      BY DEF Excluded
    <3>2. "quidax" \in Fair(quotes)
      BY <3>1, <2>2, FairIs
    <3>3. Normalized(quotes["quidax"]) = Worth("quidax", quidax)
      BY <3>1, <2>2, QuoteIs
    <3>4. quidax \in P /\ quidax \in Price
      BY <3>2, <3>3, <1>1 DEF Worth
    <3> QED
      BY <3>4, <1>4
  <2> QED
    BY <2>1, <2>2
<1>6. Amid(naira, P)
  <2>1. CASE quotes["bybit"] = NoQuote
    BY <2>1, <1>4 DEF NoQuote, Positive, NoPrice
  <2>2. CASE quotes["bybit"] # NoQuote
    <3>1. "bybit" \in Sources \ Excluded
      BY DEF Excluded
    <3>2. "bybit" \in Fair(quotes)
      BY <3>1, <2>2, FairIs
    <3>3. Normalized(quotes["bybit"]) = Worth("bybit", bybit)
      BY <3>1, <2>2, QuoteIs
    <3>4. Flip(bybit) \in P /\ Flip(bybit) \in Price
      BY <3>2, <3>3, <1>1 DEF Worth
    <3> QED
      BY <3>4, <1>4
  <2> QED
    BY <2>1, <2>2
<1>7. Rate(quotes, snaps, until) = Or(b.vwap, Or(b.twap_5m, Or(b.twap_1h, Or(quidax, naira))))
  BY DEF Rate
<1> HIDE DEF b, quidax, naira
<1>8. Amid(Rate(quotes, snaps, until), P)
  BY <1>3, <1>5, <1>6, <1>7, OrIs
<1> QED
  BY <1>2, <1>8 DEF Amid, RateWithin

(* In every case of the inputs, for any venues, quotes, snapshots, answers and   *)
(* raw ticks: the rate lies between two prices that were heard, the share is     *)
(* between 0 and 1, and the ticks of a position are as wide as was asked for.    *)
(* There is no step to take: a case is computed, and nothing follows from it.    *)
THEOREM FiguresStayInRange ==
  ASSUME sample \in Samples \cup {NoSample}
  PROVE  FiguresInRange
<1>1. CASE sample = NoSample
  BY <1>1 DEF NoSample, FiguresInRange
<1>2. ASSUME NEW q \in Quotes, NEW s \in Snapshots,
             sample = [kind |-> "rate", quotes |-> q, snaps |-> s]
      PROVE  FiguresInRange
  <2>1. RateWithin(q, s, Now)
    BY FiguresAssumption, RateIsWithin DEF Snaps
  <2> QED
    BY <2>1, <1>2 DEF FiguresInRange
<1>3. ASSUME NEW a \in Answers, NEW r \in Rates,
             sample = [kind |-> "share", answers |-> a, rate |-> r]
      PROVE  FiguresInRange
  <2>1. RatioWithin(a, r)
    BY FiguresAssumption, ShareIsAShare
  <2> QED
    BY <2>1, <1>3 DEF FiguresInRange
<1>4. ASSUME NEW r \in Ranges, sample = [kind |-> "ticks", range |-> r]
      PROVE  FiguresInRange
  <2>1. RangeUsable(r)
    BY FiguresAssumption, RangeIsUsable
  <2> QED
    BY <2>1, <1>4 DEF FiguresInRange
<1> QED
  BY <1>1, <1>2, <1>3, <1>4 DEF Samples

===============================================================================
