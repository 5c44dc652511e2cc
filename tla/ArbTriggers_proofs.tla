-------------------------- MODULE ArbTriggers_proofs --------------------------
(***************************************************************************)
(* Theorems about ArbTriggers, for every choice of chains and wallets, any *)
(* numbers of swaps, mints, transfers and seeds, and every combination of  *)
(* faults.                                                                 *)
(***************************************************************************)
EXTENDS ArbTriggers, SequenceTheorems, TLAPS

-----------------------------------------------------------------------------
(* What the seed walks, and what a subscription hands over.                *)

Orders == {SeedOrder, Tail(SeedOrder), <<>>}

LEMMA Pair == \A a, b : <<a>> \o <<b>> = <<a, b>>
  <1>1. SUFFICES ASSUME NEW a, NEW b PROVE <<a>> \o <<b>> = <<a, b>>  OBVIOUS
  <1> DEFINE p == <<a>> \o <<b>>
  <1>2. <<a>> \in Seq({a, b}) /\ <<b>> \in Seq({a, b}) /\ <<a, b>> \in Seq({a, b})
    OBVIOUS
  <1>3. p \in Seq({a, b}) /\ Len(p) = 2 /\ p[1] = a /\ p[2] = b
    BY <1>2, ConcatProperties
  <1> HIDE DEF p
  <1>4. Len(p) = Len(<<a, b>>) /\ \A i \in 1..Len(p) : p[i] = <<a, b>>[i]
    BY <1>3
  <1>5. p = <<a, b>>  BY <1>2, <1>3, <1>4, SeqEqual
  <1> QED  BY <1>5 DEF p

LEMMA SeedWalk ==
  ASSUME NEW t \in Orders, t # <<>>
  PROVE  Head(t) \in Chains /\ Tail(t) \in Orders
  <1>1. CASE "bsc" \in Chains /\ "base" \in Chains
    <2>1. SeedOrder = <<"bsc", "base">>
      <3>1. SeedOrder = <<"bsc">> \o <<"base">>  BY <1>1 DEF SeedOrder
      <3> QED  BY <3>1, Pair
    <2>2. Tail(SeedOrder) = <<"base">>  BY <2>1
    <2>3. Tail(Tail(SeedOrder)) = <<>>  BY <2>2
    <2>4. Head(SeedOrder) = "bsc" /\ Head(Tail(SeedOrder)) = "base"  BY <2>1, <2>2
    <2>5. t = SeedOrder \/ t = Tail(SeedOrder)  BY DEF Orders
    <2> QED  BY <1>1, <2>3, <2>4, <2>5 DEF Orders
  <1>2. CASE ~("bsc" \in Chains /\ "base" \in Chains)
    <2>1. PICK c : Chains = {c} /\ SeedOrder = <<c>>
      <3>1. Chains = {"bsc"} \/ Chains = {"base"}
        BY <1>2, TriggersAssumption
      <3>2. CASE Chains = {"bsc"}
        <4>1. SeedOrder = <<"bsc">>  BY <3>2 DEF SeedOrder
        <4> QED  BY <3>2, <4>1
      <3>3. CASE Chains = {"base"}
        <4>1. SeedOrder = <<"base">>  BY <3>3 DEF SeedOrder
        <4> QED  BY <3>3, <4>1
      <3> QED  BY <3>1, <3>2, <3>3
    <2>2. Tail(SeedOrder) = <<>> /\ Head(SeedOrder) = c  BY <2>1
    <2>3. t = SeedOrder  BY <2>2 DEF Orders
    <2> QED  BY <2>1, <2>2, <2>3 DEF Orders
  <1> QED  BY <1>1, <1>2

(* The last swap a subscription has yet to hand over is the last there was,    *)
(* and those before it are older.                                           *)
Newest(q, n) ==
  \A i \in 1..Len(q) :
    q[i][1] = "swap" /\ (\A j \in 1..Len(q) : j > i => q[j][1] # "swap") => q[i][2] = n

Past(q, n) ==
  \A i \in 1..Len(q) : q[i][1] = "swap" => q[i][2] = n \/ q[i][2].swaps < n.swaps

Watched(q, c) == \A i \in 1..Len(q) : q[i][1] = "transfer" => c \in Wallets

LEMMA EventForms ==
  ASSUME NEW e \in Event
  PROVE  \/ e[1] = "swap" /\ e[2] \in PoolState
         \/ e[1] = "transfer"
  BY DEF Event

LEMMA AppendSwap ==
  ASSUME NEW q \in Seq(Event), NEW n \in PoolState, NEW o \in PoolState, o.swaps < n.swaps,
         Past(q, o), NEW c
  PROVE  LET e == <<"swap", n>> IN
         /\ Append(q, e) \in Seq(Event) /\ Swapped(Append(q, e))
         /\ Newest(Append(q, e), n) /\ Past(Append(q, e), n)
         /\ (Watched(q, c) => Watched(Append(q, e), c))
  <1> DEFINE e == <<"swap", n>>
             r == Append(q, e)
  <1>1. e \in Event /\ e[1] = "swap" /\ e[2] = n  BY DEF Event
  <1> HIDE DEF e
  <1>2. /\ r \in Seq(Event) /\ Len(r) = Len(q) + 1 /\ r[Len(q) + 1] = e /\ Len(q) \in Nat
        /\ \A i \in 1..Len(q) : r[i] = q[i]
    BY <1>1
  <1> HIDE DEF r
  <1>3. Len(r) \in 1..Len(r) /\ r[Len(r)] = e  BY <1>2
  <1>4. Swapped(r)  BY <1>1, <1>3 DEF Swapped
  <1>5. Newest(r, n)
    <2>1. SUFFICES ASSUME NEW i \in 1..Len(r), \A j \in 1..Len(r) : j > i => r[j][1] # "swap"
                   PROVE  r[i][2] = n
      BY DEF Newest
    <2>2. i = Len(r)  BY <1>1, <1>2, <1>3, <2>1
    <2> QED  BY <1>1, <1>3, <2>2
  <1>6. Watched(q, c) => Watched(r, c)
    <2>1. SUFFICES ASSUME Watched(q, c), NEW i \in 1..Len(r), r[i][1] = "transfer" PROVE c \in Wallets
      BY DEF Watched
    <2>2. i # Len(r)  BY <1>1, <1>3, <2>1
    <2>3. i \in 1..Len(q)  BY <1>2, <2>2
    <2> QED  BY <1>2, <2>1, <2>3 DEF Watched
  <1>7. Past(r, n)
    <2>1. SUFFICES ASSUME NEW i \in 1..Len(r), r[i][1] = "swap"
                   PROVE  r[i][2] = n \/ r[i][2].swaps < n.swaps
      BY DEF Past
    <2>2. CASE i = Len(r)  BY <1>1, <1>3, <2>2
    <2>3. CASE i # Len(r)
      <3>1. i \in 1..Len(q) /\ r[i] = q[i]  BY <1>2, <2>3
      <3>2. r[i][2] = o \/ r[i][2].swaps < o.swaps  BY <2>1, <3>1 DEF Past
      <3>3. r[i] \in Event  BY <1>2
      <3>4. r[i][2] \in PoolState
        <4>1. r[i][1] # "transfer"  BY <2>1
        <4> QED  BY <3>3, <4>1, EventForms
      <3>5. r[i][2].swaps \in Int /\ o.swaps \in Int /\ n.swaps \in Int  BY <3>4 DEF PoolState
      <3> QED  BY <3>2, <3>5
    <2> QED  BY <2>2, <2>3
  <1> QED  BY <1>2, <1>4, <1>5, <1>6, <1>7 DEF r, e

LEMMA AppendTransfer ==
  ASSUME NEW q \in Seq(Event), NEW n, NEW c \in Wallets
  PROVE  LET e == <<"transfer">> IN
         /\ Append(q, e) \in Seq(Event) /\ (Swapped(Append(q, e)) <=> Swapped(q))
         /\ (Newest(q, n) => Newest(Append(q, e), n)) /\ (Past(q, n) => Past(Append(q, e), n))
         /\ Watched(Append(q, e), c)
  <1> DEFINE e == <<"transfer">>
             r == Append(q, e)
  <1>1. e \in Event /\ e[1] = "transfer"  BY DEF Event
  <1> HIDE DEF e
  <1>2. /\ r \in Seq(Event) /\ Len(r) = Len(q) + 1 /\ r[Len(q) + 1] = e /\ Len(q) \in Nat
        /\ \A i \in 1..Len(q) : r[i] = q[i]
    BY <1>1
  <1> HIDE DEF r
  <1>3. \A i \in 1..Len(r) : r[i][1] = "swap" => i \in 1..Len(q) /\ r[i] = q[i]
    BY <1>1, <1>2
  <1>4. Swapped(r) <=> Swapped(q)  BY <1>2, <1>3 DEF Swapped
  <1>5. Newest(q, n) => Newest(r, n)
    <2>1. SUFFICES ASSUME Newest(q, n), NEW i \in 1..Len(r), r[i][1] = "swap",
                          \A j \in 1..Len(r) : j > i => r[j][1] # "swap"
                   PROVE  r[i][2] = n
      BY DEF Newest
    <2>2. i \in 1..Len(q) /\ r[i] = q[i]  BY <1>3, <2>1
    <2>3. \A j \in 1..Len(q) : j > i => q[j][1] # "swap"  BY <1>2, <2>1
    <2> QED  BY <2>1, <2>2, <2>3 DEF Newest
  <1>6. Past(q, n) => Past(r, n)  BY <1>3 DEF Past
  <1>7. Watched(r, c)  BY DEF Watched
  <1> QED  BY <1>2, <1>4, <1>5, <1>6, <1>7 DEF r, e

(* Handing over the next event: if it is a swap and none follows, it is the *)
(* newest.                                                                  *)
LEMMA HandOver ==
  ASSUME NEW q \in Seq(Event), q # <<>>, NEW n, NEW c, Newest(q, n), Past(q, n), Watched(q, c)
  PROVE  /\ Head(q) \in Event /\ Tail(q) \in Seq(Event)
         /\ Newest(Tail(q), n) /\ Past(Tail(q), n) /\ Watched(Tail(q), c)
         /\ Head(q)[1] = "transfer" => c \in Wallets /\ (Swapped(q) <=> Swapped(Tail(q)))
         /\ Head(q)[1] = "swap" => Head(q)[2] = n \/ Head(q)[2].swaps < n.swaps
         /\ Head(q)[1] = "swap" /\ ~Swapped(Tail(q)) => Head(q)[2] = n
  <1> DEFINE r == Tail(q)
  <1>1. /\ r \in Seq(Event) /\ Len(q) = Len(r) + 1 /\ Len(r) \in Nat /\ Head(q) = q[1]
        /\ \A i \in 1..Len(r) : r[i] = q[i + 1]
        /\ Head(q) \in Event
    OBVIOUS
  <1> HIDE DEF r
  <1>2. \A i \in 1..Len(q) : i = 1 \/ (i - 1 \in 1..Len(r) /\ q[i] = r[i - 1])
    BY <1>1
  <1>3. Newest(r, n)
    <2>1. SUFFICES ASSUME NEW i \in 1..Len(r), r[i][1] = "swap",
                          \A j \in 1..Len(r) : j > i => r[j][1] # "swap"
                   PROVE  r[i][2] = n
      BY DEF Newest
    <2>2. i + 1 \in 1..Len(q) /\ q[i + 1] = r[i]  BY <1>1
    <2>3. \A j \in 1..Len(q) : j > i + 1 => q[j][1] # "swap"
      <3>1. TAKE j \in 1..Len(q)
      <3>2. HAVE j > i + 1
      <3>3. j - 1 \in 1..Len(r) /\ q[j] = r[j - 1] /\ j - 1 > i  BY <1>2, <3>2
      <3> QED  BY <2>1, <3>3
    <2> QED  BY <2>1, <2>2, <2>3 DEF Newest
  <1>4. Watched(r, c)
    <2>1. SUFFICES ASSUME NEW i \in 1..Len(r), r[i][1] = "transfer" PROVE c \in Wallets
      BY DEF Watched
    <2>2. i + 1 \in 1..Len(q) /\ q[i + 1] = r[i]  BY <1>1
    <2> QED  BY <2>1, <2>2 DEF Watched
  <1>5. 1 \in 1..Len(q)  BY <1>1
  <1>6. ASSUME Head(q)[1] = "transfer" PROVE c \in Wallets /\ (Swapped(q) <=> Swapped(r))
    <2>1. c \in Wallets  BY <1>1, <1>5, <1>6 DEF Watched
    <2>2. Swapped(q) => Swapped(r)
      <3>1. SUFFICES ASSUME NEW i \in 1..Len(q), q[i][1] = "swap" PROVE Swapped(r)  BY DEF Swapped
      <3>2. i # 1  BY <1>1, <1>6, <3>1
      <3> QED  BY <1>2, <3>1, <3>2 DEF Swapped
    <2>3. Swapped(r) => Swapped(q)
      <3>1. SUFFICES ASSUME NEW i \in 1..Len(r), r[i][1] = "swap" PROVE Swapped(q)  BY DEF Swapped
      <3>2. i + 1 \in 1..Len(q) /\ q[i + 1] = r[i]  BY <1>1
      <3> QED  BY <3>1, <3>2 DEF Swapped
    <2> QED  BY <2>1, <2>2, <2>3
  <1>7. ASSUME Head(q)[1] = "swap", ~Swapped(r) PROVE Head(q)[2] = n
    <2>1. \A j \in 1..Len(q) : j > 1 => q[j][1] # "swap"
      <3>1. TAKE j \in 1..Len(q)
      <3>2. HAVE j > 1
      <3>3. j - 1 \in 1..Len(r) /\ q[j] = r[j - 1]  BY <1>2, <3>2
      <3> QED  BY <1>7, <3>3 DEF Swapped
    <2> QED  BY <1>1, <1>5, <1>7, <2>1 DEF Newest
  <1>8. Past(r, n)
    <2>1. SUFFICES ASSUME NEW i \in 1..Len(r), r[i][1] = "swap"
                   PROVE  r[i][2] = n \/ r[i][2].swaps < n.swaps
      BY DEF Past
    <2>2. i + 1 \in 1..Len(q) /\ q[i + 1] = r[i]  BY <1>1
    <2> QED  BY <2>1, <2>2 DEF Past
  <1>9. Head(q)[1] = "swap" => Head(q)[2] = n \/ Head(q)[2].swaps < n.swaps
    BY <1>1, <1>5 DEF Past
  <1> QED  BY <1>1, <1>3, <1>4, <1>6, <1>7, <1>8, <1>9 DEF r

-----------------------------------------------------------------------------
(* The inductive invariant: what the subscriptions have yet to hand over    *)
(* ends in the newest swap, no reading knows more than the chain, and what  *)
(* the cache lacks has a reason.                                            *)

ListenerType ==
  /\ running \in BOOLEAN
  /\ pool \in [Chains -> PoolState]
  /\ moves \in 0..MaxMoves
  /\ link \in [Chains -> Links]
  /\ active \subseteq Chains
  /\ inbox \in [Chains -> Seq(Event)]
  /\ read \in [Chains -> Reading]
  /\ cache \in [Chains -> {Nothing} \cup PoolState]
  /\ told \in [Chains -> PoolState]
  /\ missed \in [Chains -> BOOLEAN]
  /\ setBack \in [Chains -> SUBSET {"price", "liquidity"}]

BatchType ==
  /\ market \in BOOLEAN
  /\ venues \subseteq Wallets
  /\ calc \in [pc : {"none", "sleep", "wallet", "dex"}, venues : SUBSET Wallets]
  /\ owed \subseteq {"swap", "transfer"} \X Chains

BootType ==
  /\ gas \in BOOLEAN
  /\ boot \in [pending : BOOLEAN, pc : {"idle", "seed", "eval"}, recent : BOOLEAN]

SeedType == seed \in [Seeders -> [todo : Orders, got : Reading]]

LEMMA TypeParts == TypeOK <=> ListenerType /\ BatchType /\ BootType /\ SeedType
  BY DEF TypeOK, ListenerType, BatchType, BootType, SeedType, Orders

Heard(c) ==
  /\ ~Hears(c) => inbox[c] = <<>>
  /\ Newest(inbox[c], told[c])
  /\ Past(inbox[c], told[c])
  /\ Watched(inbox[c], c)

(* Minting since the last swap is all that separates the pool from told.     *)
Told(c) ==
  /\ told[c].swaps = pool[c].swaps /\ told[c].tick = pool[c].tick
  /\ told[c].liq[1] = pool[c].tick /\ pool[c].liq[1] = pool[c].tick
  /\ told[c].liq[2] <= pool[c].liq[2]

(* What a reading with the pool's price says of the rest.                    *)
TrueTo(r, p, t) ==
  /\ r.swaps <= p.swaps
  /\ r.swaps = p.swaps =>
       /\ r.tick = p.tick
       /\ r.liq # NoLiq => r.liq[1] = p.tick /\ r.liq[2] >= t.liq[2]

Truthful(c) ==
  /\ read[c] \notin {Nothing, Failed} => TrueTo(read[c], pool[c], told[c])
  /\ cache[c].swaps <= pool[c].swaps
  /\ cache[c].swaps = pool[c].swaps => cache[c].tick = pool[c].tick

Priced(c) == cache[c].swaps = pool[c].swaps

Liquid(c) == cache[c].liq[1] = pool[c].tick /\ cache[c].liq[2] >= told[c].liq[2]

Fresh(c) ==
  /\ "price" \in setBack[c] => "liquidity" \in setBack[c]
  /\ link[c] = "refresh" =>
       /\ read[c] # Nothing
       /\ ~Swapped(inbox[c]) /\ read[c] # Failed => read[c].swaps = pool[c].swaps
  /\ link[c] # "off" /\ ~Swapped(inbox[c]) =>
       /\ \/ Priced(c)
          \/ "price" \in setBack[c]
          \/ missed[c] /\ (link[c] = "live" => read[c] = Failed)
       /\ Priced(c) /\ ~missed[c] /\ "liquidity" \notin setBack[c] => Liquid(c)

ChainInv(c) == Heard(c) /\ Told(c) /\ Truthful(c) /\ Fresh(c)

Seeded ==
  \A s \in Seeders : seed[s].got # Nothing =>
    /\ seed[s].todo # <<>>
    /\ seed[s].got # Failed =>
         TrueTo(seed[s].got, pool[Head(seed[s].todo)], told[Head(seed[s].todo)])

TriggersInv ==
  /\ ListenerType /\ BatchType /\ BootType /\ SeedType
  /\ \A c \in Chains : ChainInv(c)
  /\ Seeded
  /\ NoLostWakeup

(* No mark of an unknown level is a level.                                  *)
LEMMA Marks ==
  /\ Never \notin Nat /\ Unknown \notin Nat /\ Never # Unknown
  /\ Never \in Int /\ Unknown \in Int /\ Never < 0
  /\ Nothing.swaps = Never /\ Nothing.tick = Never /\ Nothing.liq = NoLiq
  /\ Failed.swaps = Unknown /\ Nothing # Failed
  /\ Nothing \in Reading /\ Failed \in Reading
  /\ Nothing \notin PoolState /\ Failed \notin PoolState
  /\ NoLiq \notin Liquidity
  /\ Ticks \subseteq Nat
  <1>1. Never \notin Nat /\ Unknown \notin Nat /\ Never # Unknown /\ Never \in Int /\ Unknown \in Int /\ Never < 0
    BY DEF Never, Unknown
  <1>2. Ticks \subseteq Nat  BY TriggersAssumption
  <1>3. /\ Nothing.swaps = Never /\ Nothing.tick = Never /\ Nothing.liq = NoLiq /\ Failed.swaps = Unknown
    BY DEF Nothing, Failed
  <1>4. Nothing # Failed  BY <1>1, <1>3
  <1>5. Nothing \in Reading /\ Failed \in Reading  BY DEF Reading
  <1>6. Nothing \notin PoolState /\ Failed \notin PoolState
    <2>1. \A p \in PoolState : p.swaps \in Nat  BY DEF PoolState
    <2> QED  BY <1>1, <1>3, <2>1
  <1>7. NoLiq \notin Liquidity
    <2>1. \A l \in Liquidity : l[1] \in Nat  BY <1>2 DEF Liquidity
    <2>2. NoLiq[1] = Never  BY DEF NoLiq
    <2> QED  BY <1>1, <2>1, <2>2
  <1> QED  BY <1>1, <1>2, <1>3, <1>4, <1>5, <1>6, <1>7

LEMMA EmptyInbox ==
  ASSUME NEW n, NEW c
  PROVE  /\ <<>> \in Seq(Event) /\ Newest(<<>>, n) /\ Past(<<>>, n) /\ Watched(<<>>, c)
         /\ ~Swapped(<<>>)
  BY DEF Newest, Past, Watched, Swapped

LEMMA SeedForms ==
  /\ NoSeed \in [todo : Orders, got : Reading] /\ NoSeed.got = Nothing
  /\ NewSeed \in [todo : Orders, got : Reading] /\ NewSeed.got = Nothing
  BY Marks DEF NoSeed, NewSeed, Orders

LEMMA CalcForms ==
  ASSUME NEW V \in SUBSET Wallets, NEW pc \in {"none", "sleep", "wallet", "dex"}
  PROVE  /\ NoCalc \in [pc : {"none", "sleep", "wallet", "dex"}, venues : SUBSET Wallets]
         /\ [NoCalc EXCEPT !.pc = pc] \in [pc : {"none", "sleep", "wallet", "dex"}, venues : SUBSET Wallets]
         /\ [NoCalc EXCEPT !.pc = pc].pc = pc
         /\ [NoCalc EXCEPT !.pc = pc, !.venues = V] \in [pc : {"none", "sleep", "wallet", "dex"}, venues : SUBSET Wallets]
         /\ [NoCalc EXCEPT !.pc = pc, !.venues = V].pc = pc
  BY DEF NoCalc

LEMMA BootForms ==
  ASSUME BootType
  PROVE  /\ Scheduled(boot) \in [pending : BOOLEAN, pc : {"idle", "seed", "eval"}, recent : BOOLEAN]
         /\ \A p \in {"idle", "seed", "eval"} : [boot EXCEPT !.pc = p] \in
               [pending : BOOLEAN, pc : {"idle", "seed", "eval"}, recent : BOOLEAN]
         /\ \A p \in {"idle", "seed", "eval"} : [boot EXCEPT !.pc = p, !.pending = FALSE] \in
               [pending : BOOLEAN, pc : {"idle", "seed", "eval"}, recent : BOOLEAN]
         /\ [boot EXCEPT !.recent = FALSE] \in
               [pending : BOOLEAN, pc : {"idle", "seed", "eval"}, recent : BOOLEAN]
  <1>1. TRUE \in BOOLEAN /\ FALSE \in BOOLEAN  OBVIOUS
  <1>2. [boot EXCEPT !.pc = "seed", !.recent = TRUE] \in
          [pending : BOOLEAN, pc : {"idle", "seed", "eval"}, recent : BOOLEAN]
    BY <1>1, Zenon DEF BootType
  <1>3. Scheduled(boot) \in [pending : BOOLEAN, pc : {"idle", "seed", "eval"}, recent : BOOLEAN]
    BY <1>2 DEF Scheduled, BootType
  <1>4. \A p \in {"idle", "seed", "eval"} : [boot EXCEPT !.pc = p] \in
          [pending : BOOLEAN, pc : {"idle", "seed", "eval"}, recent : BOOLEAN]
    BY Zenon DEF BootType
  <1>5. \A p \in {"idle", "seed", "eval"} : [boot EXCEPT !.pc = p, !.pending = FALSE] \in
          [pending : BOOLEAN, pc : {"idle", "seed", "eval"}, recent : BOOLEAN]
    BY <1>1, Zenon DEF BootType
  <1>6. [boot EXCEPT !.recent = FALSE] \in
          [pending : BOOLEAN, pc : {"idle", "seed", "eval"}, recent : BOOLEAN]
    BY <1>1, Zenon DEF BootType
  <1> QED  BY <1>3, <1>4, <1>5, <1>6

(* Asking for a seed.                                                       *)
Asked == {seed} \cup {[seed EXCEPT ![s] = NewSeed] : s \in Seeders}

LEMMA AskSeed ==
  ASSUME SeedType, Seeded, pool' = pool, told' = told, seed' \in Asked
  PROVE  SeedType' /\ Seeded'
  <1>1. CASE seed' = seed  BY <1>1 DEF SeedType, Seeded
  <1>2. CASE \E s \in Seeders : seed' = [seed EXCEPT ![s] = NewSeed]
    <2>1. PICK s \in Seeders : seed' = [seed EXCEPT ![s] = NewSeed]  BY <1>2
    <2>2. seed' \in [Seeders -> [todo : Orders, got : Reading]] /\ seed'[s] = NewSeed
          /\ \A z \in Seeders : z # s => seed'[z] = seed[z]
      BY <2>1, SeedForms DEF SeedType
    <2> QED  BY <2>2, SeedForms DEF SeedType, Seeded
  <1> QED  BY <1>1, <1>2 DEF Asked

LEMMA SeedingAsks == Seeding \subseteq Asked
  BY TriggersAssumption DEF Seeding, Asked, IdleTasks

LEMMA EvaluateAsks == Evaluate => seed' \in Asked /\ owed' \subseteq owed
  BY SeedingAsks DEF Evaluate, Asked

LEMMA ListenerKept ==
  ASSUME TriggersInv,
         UNCHANGED <<running, pool, moves, link, active, inbox, read, cache, told, missed, setBack>>
  PROVE  ListenerType' /\ \A c \in Chains : ChainInv(c)'
  <1>1. ListenerType'  BY DEF TriggersInv, ListenerType
  <1>2. \A c \in Chains : ChainInv(c)'
    BY DEF TriggersInv, ChainInv, Heard, Told, Truthful, TrueTo, Fresh, Priced, Liquid, Hears
  <1> QED  BY <1>1, <1>2

LEMMA BatchKept ==
  ASSUME TriggersInv, UNCHANGED <<running, market, venues, calc>>, owed' \subseteq owed
  PROVE  BatchType' /\ NoLostWakeup'
  BY DEF TriggersInv, BatchType, NoLostWakeup

-----------------------------------------------------------------------------
(* The chains and their listeners.                                          *)

(* A step of one pool, of its listener or of a seed changes one chain only. *)
LEMMA OneChain ==
  ASSUME TriggersInv, NEW c \in Chains, ListenerType',
         \A d \in Chains : d # c =>
           /\ pool'[d] = pool[d] /\ told'[d] = told[d] /\ missed'[d] = missed[d]
           /\ link'[d] = link[d] /\ inbox'[d] = inbox[d] /\ read'[d] = read[d]
           /\ cache'[d] = cache[d] /\ setBack'[d] = setBack[d],
         ChainInv(c)'
  PROVE  \A d \in Chains : ChainInv(d)'
  <1>1. SUFFICES ASSUME NEW d \in Chains, d # c PROVE ChainInv(d)'  OBVIOUS
  <1>2. ChainInv(d)  BY DEF TriggersInv
  <1> QED
    BY <1>1, <1>2 DEF ChainInv, Heard, Told, Truthful, TrueTo, Fresh, Priced, Liquid, Hears

(* A pool moves on: a reading is still no newer, and true where it is as new. *)
LEMMA StillTrue ==
  ASSUME NEW p \in PoolState, NEW t \in PoolState, NEW q \in PoolState, NEW u \in PoolState,
         NEW r, TrueTo(r, p, t), r.swaps \in Int,
         \/ p.swaps < q.swaps
         \/ q.swaps = p.swaps /\ q.tick = p.tick /\ u = t
  PROVE  TrueTo(r, q, u)
  <1>1. p.swaps \in Int /\ q.swaps \in Int  BY DEF PoolState
  <1> QED  BY <1>1 DEF TrueTo

LEMMA ReadingForms ==
  ASSUME NEW r \in Reading
  PROVE  /\ r.swaps \in Int
         /\ r \notin {Nothing, Failed} => r.swaps \in 0..MaxSwaps /\ r.tick \in Ticks
         /\ r \notin {Nothing, Failed} /\ r.liq # NoLiq => r \in PoolState
         /\ r \notin {Nothing, Failed} => [r EXCEPT !.liq = NoLiq] \in Slot0
         /\ r \notin {Nothing, Failed} => \A l \in Liquidity : [r EXCEPT !.liq = l] \in PoolState
  <1>1. CASE r = Nothing \/ r = Failed  BY <1>1, Marks
  <1>2. CASE r \in Slot0 \cup PoolState
    <2>1. r.swaps \in 0..MaxSwaps /\ r.tick \in Ticks  BY <1>2 DEF Slot0, PoolState
    <2>2. r.liq # NoLiq => r \in PoolState  BY <1>2 DEF Slot0
    <2>3. [r EXCEPT !.liq = NoLiq] \in Slot0  BY <1>2 DEF Slot0, PoolState
    <2>4. \A l \in Liquidity : [r EXCEPT !.liq = l] \in PoolState  BY <1>2 DEF Slot0, PoolState
    <2> QED  BY <2>1, <2>2, <2>3, <2>4
  <1> QED  BY <1>1, <1>2 DEF Reading

(* What the pool's move does to the readings under way.                     *)
LEMMA SeedsStillTrue ==
  ASSUME TriggersInv, NEW c \in Chains, seed' = seed,
         pool' \in [Chains -> PoolState], told' \in [Chains -> PoolState],
         \A d \in Chains : d # c => pool'[d] = pool[d] /\ told'[d] = told[d],
         \/ pool[c].swaps < pool'[c].swaps
         \/ pool'[c].swaps = pool[c].swaps /\ pool'[c].tick = pool[c].tick /\ told'[c] = told[c]
  PROVE  SeedType' /\ Seeded'
  <1>1. SeedType'  BY DEF TriggersInv, SeedType
  <1>2. ASSUME NEW s \in Seeders, seed[s].got # Nothing
        PROVE  /\ seed[s].todo # <<>>
               /\ seed[s].got # Failed =>
                    TrueTo(seed[s].got, pool'[Head(seed[s].todo)], told'[Head(seed[s].todo)])
    <2> DEFINE d == Head(seed[s].todo)
    <2>1. seed[s].todo # <<>> /\ seed[s].todo \in Orders /\ seed[s].got \in Reading
      BY <1>2 DEF TriggersInv, Seeded, SeedType
    <2>2. d \in Chains  BY <2>1, SeedWalk
    <2>3. SUFFICES ASSUME seed[s].got # Failed PROVE TrueTo(seed[s].got, pool'[d], told'[d])
      BY <2>1
    <2>4. TrueTo(seed[s].got, pool[d], told[d])  BY <1>2, <2>3 DEF TriggersInv, Seeded
    <2> HIDE DEF d
    <2>5. CASE d = c
      <3>1. pool[c] \in PoolState /\ told[c] \in PoolState  BY DEF TriggersInv, ListenerType
      <3>2. pool'[c] \in PoolState /\ told'[c] \in PoolState  OBVIOUS
      <3>3. seed[s].got.swaps \in Int  BY <2>1, ReadingForms
      <3> QED  BY <2>4, <2>5, <3>1, <3>2, <3>3, StillTrue
    <2>6. CASE d # c  BY <2>2, <2>4, <2>6
    <2> QED  BY <2>5, <2>6
  <1>3. Seeded'  BY <1>2 DEF Seeded
  <1> QED  BY <1>1, <1>3

LEMMA StepSwap == ASSUME TriggersInv, NEW c \in Chains, Swap(c) PROVE TriggersInv'
  <1>1. /\ pool[c].swaps < MaxSwaps
        /\ UNCHANGED <<running, moves, link, active, read, cache, setBack, market, venues, calc, gas, boot, seed, owed>>
    BY DEF Swap, batch, jobs
  <1>2. ListenerType /\ ChainInv(c)  BY DEF TriggersInv
  <1>3. PICK t \in Ticks :
          pool' = [pool EXCEPT ![c] = [swaps |-> pool[c].swaps + 1, tick |-> t, liq |-> <<t, pool[c].liq[2]>>]]
    BY DEF Swap
  <1> DEFINE n == [swaps |-> pool[c].swaps + 1, tick |-> t, liq |-> <<t, pool[c].liq[2]>>]
             e == <<"swap", n>>
  <1>4. pool[c] \in PoolState /\ told[c] \in PoolState /\ inbox[c] \in Seq(Event)
    BY <1>2 DEF ListenerType
  <1>5. n \in PoolState
    <2>1. pool[c].swaps \in 0..MaxSwaps /\ pool[c].liq[2] \in 0..MaxMints
      BY <1>4 DEF PoolState, Liquidity
    <2>2. pool[c].swaps + 1 \in 0..MaxSwaps  BY <1>1, <2>1, TriggersAssumption
    <2>3. <<t, pool[c].liq[2]>> \in Liquidity  BY <2>1 DEF Liquidity
    <2> QED  BY <2>2, <2>3 DEF PoolState
  <1>6. n.swaps = pool[c].swaps + 1 /\ n.tick = t /\ n.liq[1] = t /\ n.liq[2] = pool[c].liq[2]
    OBVIOUS
  <1>7. pool[c].swaps \in Int /\ pool[c].liq[2] \in Int  BY <1>4 DEF PoolState, Liquidity
  <1> HIDE DEF n
  <1>8. /\ pool' \in [Chains -> PoolState] /\ pool'[c] = n
        /\ \A d \in Chains : d # c => pool'[d] = pool[d]
    BY <1>2, <1>3, <1>5 DEF ListenerType, n
  <1>9. /\ told' \in [Chains -> PoolState] /\ told'[c] = n
        /\ \A d \in Chains : d # c => told'[d] = told[d]
    BY <1>2, <1>5, <1>8 DEF ListenerType, Swap
  <1>10. /\ missed' \in [Chains -> BOOLEAN] /\ missed'[c] = ~Hears(c)
         /\ \A d \in Chains : d # c => missed'[d] = missed[d]
    <2> DEFINE h == ~Hears(c)
    <2>1. missed' = [missed EXCEPT ![c] = h] /\ h \in BOOLEAN  BY DEF Swap, Hears
    <2> HIDE DEF h
    <2>2. /\ missed' \in [Chains -> BOOLEAN] /\ missed'[c] = h
          /\ \A d \in Chains : d # c => missed'[d] = missed[d]
      BY <1>2, <2>1, Zenon DEF ListenerType
    <2> QED  BY <2>2 DEF h
  <1>11. /\ Append(inbox[c], e) \in Seq(Event) /\ Swapped(Append(inbox[c], e))
         /\ Newest(Append(inbox[c], e), n) /\ Past(Append(inbox[c], e), n)
         /\ Watched(Append(inbox[c], e), c)
    <2>1. told[c].swaps < n.swaps  BY <1>2, <1>6, <1>7 DEF ChainInv, Told
    <2> QED  BY <1>2, <1>4, <1>5, <2>1, AppendSwap DEF ChainInv, Heard
  <1>12. inbox' = IF Hears(c) THEN [inbox EXCEPT ![c] = Append(@, e)] ELSE inbox
    BY <1>8 DEF Swap, Announce
  <1>13. inbox' \in [Chains -> Seq(Event)] /\ \A d \in Chains : d # c => inbox'[d] = inbox[d]
    BY <1>2, <1>11, <1>12 DEF ListenerType
  <1>14. ListenerType'  BY <1>1, <1>2, <1>8, <1>9, <1>10, <1>13 DEF ListenerType
  <1>15. Hears(c)' = Hears(c)  BY <1>1 DEF Hears
  <1>16. Told(c)'  BY <1>6, <1>7, <1>8, <1>9 DEF Told
  <1>17. Truthful(c)'
    <2>1. cache[c].swaps < n.swaps
      <3>1. cache[c].swaps \in Int
        <4>1. cache[c] \in {Nothing} \cup PoolState  BY <1>2 DEF ListenerType
        <4> QED  BY <4>1, Marks DEF PoolState
      <3> QED  BY <1>2, <1>6, <1>7, <3>1 DEF ChainInv, Truthful
    <2>2. n.swaps \in Int /\ cache[c].swaps \in Int
      <3>1. cache[c] \in {Nothing} \cup PoolState  BY <1>2 DEF ListenerType
      <3> QED  BY <1>6, <1>7, <3>1, Marks DEF PoolState
    <2>3. ASSUME read[c] \notin {Nothing, Failed} PROVE TrueTo(read[c], n, n)
      <3>1. read[c].swaps \in Int  BY <1>2, ReadingForms DEF ListenerType
      <3>2. TrueTo(read[c], pool[c], told[c])  BY <1>2, <2>3 DEF ChainInv, Truthful
      <3>3. pool[c].swaps < n.swaps  BY <1>6, <1>7
      <3> QED  BY <1>4, <1>5, <3>1, <3>2, <3>3, StillTrue
    <2> QED  BY <1>1, <1>8, <1>9, <2>1, <2>2, <2>3 DEF Truthful
  <1>18. Heard(c)' /\ Fresh(c)'
    <2>1. CASE Hears(c)
      <3>1. inbox'[c] = Append(inbox[c], e)  BY <1>2, <1>12, <2>1 DEF ListenerType
      <3>2. Heard(c)'  BY <1>9, <1>11, <1>15, <2>1, <3>1 DEF Heard
      <3>3. Fresh(c)'  BY <1>1, <1>2, <1>11, <3>1 DEF Fresh, ChainInv
      <3> QED  BY <3>2, <3>3
    <2>2. CASE ~Hears(c)
      <3>1. inbox'[c] = <<>>  BY <1>2, <1>12, <2>2 DEF ChainInv, Heard
      <3>2. Heard(c)'  BY <3>1, EmptyInbox DEF Heard
      <3>3. link[c] # "refresh" /\ link[c] # "live" /\ missed'[c]  BY <1>10, <2>2 DEF Hears
      <3>4. Fresh(c)'  BY <1>1, <1>2, <3>3 DEF Fresh, ChainInv
      <3> QED  BY <3>2, <3>4
    <2> QED  BY <2>1, <2>2
  <1>19. \A d \in Chains : ChainInv(d)'
    <2>1. ChainInv(c)'  BY <1>16, <1>17, <1>18 DEF ChainInv
    <2> QED  BY <1>1, <1>8, <1>9, <1>10, <1>13, <1>14, <2>1, OneChain
  <1>20. SeedType' /\ Seeded'
    <2>1. pool[c].swaps < pool'[c].swaps  BY <1>6, <1>7, <1>8
    <2> QED  BY <1>1, <1>8, <1>9, <2>1, SeedsStillTrue
  <1>21. BatchType' /\ NoLostWakeup'  BY <1>1, BatchKept
  <1>22. BootType'  BY <1>1 DEF TriggersInv, BootType
  <1> QED  BY <1>14, <1>19, <1>20, <1>21, <1>22 DEF TriggersInv

LEMMA StepMint == ASSUME TriggersInv, NEW c \in Chains, Mint(c) PROVE TriggersInv'
  <1>1. /\ pool[c].liq[2] < MaxMints /\ pool' = [pool EXCEPT ![c].liq[2] = @ + 1]
        /\ UNCHANGED <<running, moves, link, active, inbox, read, cache, told, missed, setBack, market, venues, calc, gas, boot, seed, owed>>
    BY DEF Mint, listener, batch, jobs, swapped
  <1>2. ListenerType /\ ChainInv(c)  BY DEF TriggersInv
  <1>3. pool[c] \in PoolState  BY <1>2 DEF ListenerType
  <1> DEFINE l == [pool[c].liq EXCEPT ![2] = pool[c].liq[2] + 1]
             n == [pool[c] EXCEPT !.liq = l]
  <1>4. l \in Liquidity /\ l[1] = pool[c].liq[1] /\ l[2] = pool[c].liq[2] + 1 /\ pool[c].liq[2] \in Int
    <2>1. pool[c].liq \in Ticks \X (0..MaxMints)  BY <1>3 DEF PoolState, Liquidity
    <2>2. pool[c].liq[2] + 1 \in 0..MaxMints  BY <1>1, <2>1, TriggersAssumption
    <2> QED  BY <2>1, <2>2 DEF Liquidity
  <1>5. pool' = [pool EXCEPT ![c] = n]  BY <1>1
  <1> HIDE DEF l
  <1>6. n \in PoolState /\ n.swaps = pool[c].swaps /\ n.tick = pool[c].tick /\ n.liq = l
    BY <1>3, <1>4 DEF PoolState
  <1> HIDE DEF n
  <1>7. /\ pool' \in [Chains -> PoolState] /\ pool'[c] = n
        /\ \A d \in Chains : d # c => pool'[d] = pool[d]
    BY <1>2, <1>5, <1>6 DEF ListenerType
  <1>8. ListenerType'  BY <1>1, <1>2, <1>7 DEF ListenerType
  <1>9. ChainInv(c)'
    <2>1. Heard(c)'  BY <1>1, <1>2 DEF ChainInv, Heard, Hears
    <2>2. Told(c)'
      <3>1. told[c].liq[2] \in Int  BY <1>2 DEF ListenerType, PoolState, Liquidity
      <3> QED  BY <1>1, <1>2, <1>4, <1>6, <1>7, <3>1 DEF ChainInv, Told
    <2>3. Truthful(c)'  BY <1>1, <1>2, <1>6, <1>7 DEF ChainInv, Truthful, TrueTo
    <2>4. Fresh(c)'  BY <1>1, <1>2, <1>6, <1>7 DEF ChainInv, Fresh, Priced, Liquid
    <2> QED  BY <2>1, <2>2, <2>3, <2>4 DEF ChainInv
  <1>10. \A d \in Chains : ChainInv(d)'  BY <1>1, <1>7, <1>8, <1>9, OneChain
  <1>11. SeedType' /\ Seeded'
    <2>1. told' \in [Chains -> PoolState]  BY <1>1, <1>2 DEF ListenerType
    <2> QED  BY <1>1, <1>6, <1>7, <2>1, SeedsStillTrue
  <1>12. BatchType' /\ NoLostWakeup'  BY <1>1, BatchKept
  <1>13. BootType'  BY <1>1 DEF TriggersInv, BootType
  <1> QED  BY <1>8, <1>10, <1>11, <1>12, <1>13 DEF TriggersInv

LEMMA StepTransfer == ASSUME TriggersInv, NEW w \in Wallets, Transfer(w) PROVE TriggersInv'
  <1> DEFINE e == <<"transfer">>
  <1>1. /\ moves' = moves + 1 /\ moves < MaxMoves
        /\ UNCHANGED <<running, pool, link, active, read, cache, told, missed, setBack, market, venues, calc, gas, boot, seed, owed>>
    BY DEF Transfer, batch, jobs, swapped
  <1>2. inbox' = IF Hears(w) THEN [inbox EXCEPT ![w] = Append(@, e)] ELSE inbox
    BY DEF Transfer, Announce
  <1>3. w \in Chains /\ ListenerType /\ ChainInv(w)  BY TriggersAssumption DEF TriggersInv
  <1>4. inbox[w] \in Seq(Event)  BY <1>3 DEF ListenerType
  <1>5. /\ Append(inbox[w], e) \in Seq(Event) /\ (Swapped(Append(inbox[w], e)) <=> Swapped(inbox[w]))
        /\ Newest(Append(inbox[w], e), told[w]) /\ Past(Append(inbox[w], e), told[w])
        /\ Watched(Append(inbox[w], e), w)
    BY <1>3, <1>4, AppendTransfer DEF ChainInv, Heard
  <1>6. inbox' \in [Chains -> Seq(Event)] /\ \A d \in Chains : d # w => inbox'[d] = inbox[d]
    BY <1>2, <1>3, <1>5 DEF ListenerType
  <1>7. ListenerType'
    <2>1. moves' \in 0..MaxMoves  BY <1>1, <1>3, TriggersAssumption DEF ListenerType
    <2> QED  BY <1>1, <1>3, <1>6, <2>1 DEF ListenerType
  <1>8. Heard(w)' /\ (Swapped(inbox'[w]) <=> Swapped(inbox[w]))
    <2>1. CASE Hears(w)
      <3>1. inbox'[w] = Append(inbox[w], e)  BY <1>2, <1>3, <2>1 DEF ListenerType
      <3> QED  BY <1>1, <1>5, <2>1, <3>1 DEF Heard, Hears
    <2>2. CASE ~Hears(w)
      <3>1. inbox' = inbox  BY <1>2, <2>2
      <3> QED  BY <1>1, <1>3, <3>1 DEF ChainInv, Heard, Hears
    <2> QED  BY <2>1, <2>2
  <1>9. ChainInv(w)'
    <2>1. Told(w)' /\ Truthful(w)'  BY <1>1, <1>3 DEF ChainInv, Told, Truthful, TrueTo
    <2>2. Fresh(w)'  BY <1>1, <1>3, <1>8 DEF ChainInv, Fresh, Priced, Liquid
    <2> QED  BY <1>8, <2>1, <2>2 DEF ChainInv
  <1>10. \A d \in Chains : ChainInv(d)'  BY <1>1, <1>3, <1>6, <1>7, <1>9, OneChain
  <1>11. SeedType' /\ Seeded'  BY <1>1 DEF TriggersInv, SeedType, Seeded, TrueTo
  <1>12. BatchType' /\ NoLostWakeup'  BY <1>1, BatchKept
  <1>13. BootType'  BY <1>1 DEF TriggersInv, BootType
  <1> QED  BY <1>7, <1>10, <1>11, <1>12, <1>13 DEF TriggersInv

(* The triggers, and the batch they start.                                  *)
LEMMA Triggered ==
  ASSUME TriggersInv, NEW c \in Chains,
         TriggerMarket(c) \/ (c \in Wallets /\ TriggerWallet(c)), running' = running
  PROVE  BatchType' /\ NoLostWakeup'
  <1>1. calc' = Ensured /\ market' \in BOOLEAN /\ venues' \subseteq Wallets
        /\ owed' \subseteq {"swap", "transfer"} \X Chains
    <2>1. market' \in BOOLEAN
      <3>1. CASE TriggerMarket(c)
        <4>1. TRUE \in BOOLEAN  OBVIOUS
        <4> QED  BY <3>1, <4>1 DEF TriggerMarket
      <3>2. CASE TriggerWallet(c)  BY <3>2 DEF TriggerWallet, TriggersInv, BatchType
      <3> QED  BY <3>1, <3>2
    <2> QED  BY <2>1 DEF TriggerMarket, TriggerWallet, TriggersInv, BatchType
  <1>2. /\ calc' \in [pc : {"none", "sleep", "wallet", "dex"}, venues : SUBSET Wallets]
        /\ calc'.pc # "none"
    BY <1>1, CalcForms DEF Ensured, TriggersInv, BatchType
  <1> QED  BY <1>1, <1>2 DEF BatchType, NoLostWakeup

LEMMA StepConnect == ASSUME TriggersInv, NEW c \in Chains, Connect(c) PROVE TriggersInv'
  <1>1. /\ link[c] = "down" /\ link' = [link EXCEPT ![c] = "handshake"] /\ active' = active \cup {c}
        /\ UNCHANGED <<running, pool, moves, inbox, read, cache, told, missed, setBack, market, venues, calc, gas, boot, seed, owed>>
    BY DEF Connect, batch, jobs, swapped
  <1>2. ListenerType /\ ChainInv(c)  BY DEF TriggersInv
  <1>3. link' \in [Chains -> Links] /\ link'[c] = "handshake" /\ \A d \in Chains : d # c => link'[d] = link[d]
    BY <1>1, <1>2 DEF ListenerType, Links
  <1>4. ListenerType'  BY <1>1, <1>2, <1>3 DEF ListenerType
  <1>5. ChainInv(c)'
    BY <1>1, <1>2, <1>3 DEF ChainInv, Heard, Told, Truthful, TrueTo, Fresh, Priced, Liquid, Hears
  <1>6. \A d \in Chains : ChainInv(d)'  BY <1>1, <1>3, <1>4, <1>5, OneChain
  <1>7. BatchType' /\ NoLostWakeup'  BY <1>1, BatchKept
  <1>8. BootType' /\ SeedType' /\ Seeded'  BY <1>1 DEF TriggersInv, BootType, SeedType, Seeded, TrueTo
  <1> QED  BY <1>4, <1>6, <1>7, <1>8 DEF TriggersInv

LEMMA StepSubscribe == ASSUME TriggersInv, NEW c \in Chains, Subscribe(c) PROVE TriggersInv'
  <1>1. /\ link[c] = "handshake" /\ link' = [link EXCEPT ![c] = "subscribed"]
        /\ UNCHANGED <<running, pool, moves, active, inbox, read, cache, told, missed, setBack, market, venues, calc, gas, boot, seed, owed>>
    BY DEF Subscribe, batch, jobs, swapped
  <1>2. ListenerType /\ ChainInv(c)  BY DEF TriggersInv
  <1>3. link' \in [Chains -> Links] /\ link'[c] = "subscribed" /\ \A d \in Chains : d # c => link'[d] = link[d]
    BY <1>1, <1>2 DEF ListenerType, Links
  <1>4. ListenerType'  BY <1>1, <1>2, <1>3 DEF ListenerType
  <1>5. ChainInv(c)'
    BY <1>1, <1>2, <1>3 DEF ChainInv, Heard, Told, Truthful, TrueTo, Fresh, Priced, Liquid, Hears
  <1>6. \A d \in Chains : ChainInv(d)'  BY <1>1, <1>3, <1>4, <1>5, OneChain
  <1>7. BatchType' /\ NoLostWakeup'  BY <1>1, BatchKept
  <1>8. BootType' /\ SeedType' /\ Seeded'  BY <1>1 DEF TriggersInv, BootType, SeedType, Seeded, TrueTo
  <1> QED  BY <1>4, <1>6, <1>7, <1>8 DEF TriggersInv

(* The two answers of a node: slot0, then the liquidity of a moment later.  *)
LEMMA Slot0Read ==
  ASSUME TriggersInv, NEW c \in Chains, NEW r \in Slot0Answers(c)
  PROVE  /\ r \in Reading /\ r # Nothing
         /\ r # Failed => TrueTo(r, pool[c], told[c]) /\ r.swaps = pool[c].swaps
  <1>1. CASE r = Failed  BY <1>1, Marks
  <1>2. CASE r = [pool[c] EXCEPT !.liq = NoLiq]
    <2>1. pool[c] \in PoolState  BY DEF TriggersInv, ListenerType
    <2>2. r \in Slot0 /\ r.swaps = pool[c].swaps /\ r.tick = pool[c].tick /\ r.liq = NoLiq
      BY <1>2, <2>1 DEF Slot0, PoolState
    <2>3. r.swaps \in Nat  BY <2>2 DEF Slot0
    <2> QED  BY <2>2, <2>3, Marks DEF Reading, TrueTo
  <1> QED  BY <1>1, <1>2 DEF Slot0Answers, Answers

LEMMA LiquidityRead ==
  ASSUME TriggersInv, NEW c \in Chains, NEW g \in Reading, AsksLiquidity(g, c),
         TrueTo(g, pool[c], told[c]), NEW r \in LiquidityAnswers(g, c)
  PROVE  /\ r \in Reading /\ r # Nothing
         /\ r # Failed => TrueTo(r, pool[c], told[c]) /\ r.swaps = g.swaps
  <1>1. CASE r = Failed  BY <1>1, Marks
  <1>2. CASE r = [g EXCEPT !.liq = pool[c].liq]
    <2>1. pool[c] \in PoolState /\ told[c] \in PoolState /\ Told(c)
      BY DEF TriggersInv, ListenerType, ChainInv
    <2>2. g \notin {Nothing, Failed}  BY DEF AsksLiquidity
    <2>3. pool[c].liq \in Liquidity  BY <2>1 DEF PoolState
    <2>4. r \in PoolState  BY <1>2, <2>2, <2>3, ReadingForms
    <2>5. r.swaps = g.swaps /\ r.tick = g.tick /\ r.liq = pool[c].liq
      BY <1>2, <2>2, <2>3 DEF Reading, Slot0, PoolState
    <2>6. pool[c].liq[1] = pool[c].tick /\ pool[c].liq[2] >= told[c].liq[2]
      <3>1. pool[c].liq[2] \in Int /\ told[c].liq[2] \in Int  BY <2>1 DEF PoolState, Liquidity
      <3> QED  BY <2>1, <3>1 DEF Told
    <2>7. TrueTo(r, pool[c], told[c])  BY <2>5, <2>6 DEF TrueTo
    <2> QED  BY <2>4, <2>5, <2>7, Marks DEF Reading
  <1> QED  BY <1>1, <1>2 DEF LiquidityAnswers, Answers

LEMMA StepRefresh ==
  ASSUME TriggersInv, NEW c \in Chains, Refresh(c) \/ RefreshLiquidity(c) PROVE TriggersInv'
  <1>1. /\ link[c] \in {"subscribed", "refresh"} /\ link' = [link EXCEPT ![c] = "refresh"]
        /\ UNCHANGED <<running, pool, moves, active, inbox, cache, told, missed, setBack, market, venues, calc, gas, boot, seed, owed>>
    BY DEF Refresh, RefreshLiquidity, batch, jobs, swapped, TriggersInv, ListenerType
  <1>2. ListenerType /\ ChainInv(c)  BY DEF TriggersInv
  <1>3. \E r \in Reading :
          /\ read' = [read EXCEPT ![c] = r] /\ r # Nothing
          /\ r # Failed => TrueTo(r, pool[c], told[c])
          /\ ~Swapped(inbox[c]) /\ r # Failed => r.swaps = pool[c].swaps
    <2>1. CASE Refresh(c)
      <3>1. PICK r \in Slot0Answers(c) : read' = [read EXCEPT ![c] = r]  BY <2>1 DEF Refresh
      <3> QED  BY <3>1, Slot0Read
    <2>2. CASE RefreshLiquidity(c)
      <3>1. PICK r \in LiquidityAnswers(read[c], c) : read' = [read EXCEPT ![c] = r]
        BY <2>2 DEF RefreshLiquidity
      <3>2. link[c] = "refresh" /\ AsksLiquidity(read[c], c)  BY <2>2 DEF RefreshLiquidity
      <3>3. read[c] \in Reading /\ read[c] \notin {Nothing, Failed}
        BY <1>2, <3>2 DEF ListenerType, AsksLiquidity
      <3>4. TrueTo(read[c], pool[c], told[c])  BY <1>2, <3>3 DEF ChainInv, Truthful
      <3>5. ~Swapped(inbox[c]) => read[c].swaps = pool[c].swaps
        BY <1>2, <3>2, <3>3 DEF ChainInv, Fresh
      <3>6. /\ r \in Reading /\ r # Nothing
            /\ r # Failed => TrueTo(r, pool[c], told[c]) /\ r.swaps = read[c].swaps
        BY <3>1, <3>2, <3>3, <3>4, LiquidityRead
      <3> QED  BY <3>1, <3>5, <3>6
    <2> QED  BY <2>1, <2>2
  <1>4. PICK r \in Reading :
          /\ read' = [read EXCEPT ![c] = r] /\ r # Nothing
          /\ r # Failed => TrueTo(r, pool[c], told[c])
          /\ ~Swapped(inbox[c]) /\ r # Failed => r.swaps = pool[c].swaps
    BY <1>3
  <1>5. /\ link' \in [Chains -> Links] /\ link'[c] = "refresh"
        /\ read' \in [Chains -> Reading] /\ read'[c] = r
        /\ \A d \in Chains : d # c => link'[d] = link[d] /\ read'[d] = read[d]
    BY <1>1, <1>2, <1>4 DEF ListenerType, Links
  <1>6. ListenerType'  BY <1>1, <1>2, <1>5 DEF ListenerType
  <1>7. ChainInv(c)'
    <2>1. Heard(c)' /\ Told(c)'  BY <1>1, <1>2, <1>5 DEF ChainInv, Heard, Told, Hears
    <2>2. Truthful(c)'  BY <1>1, <1>2, <1>4, <1>5 DEF ChainInv, Truthful, TrueTo
    <2>3. Fresh(c)'  BY <1>1, <1>2, <1>4, <1>5 DEF ChainInv, Fresh, Priced, Liquid
    <2> QED  BY <2>1, <2>2, <2>3 DEF ChainInv
  <1>8. \A d \in Chains : ChainInv(d)'  BY <1>1, <1>5, <1>6, <1>7, OneChain
  <1>9. BatchType' /\ NoLostWakeup'  BY <1>1, BatchKept
  <1>10. BootType' /\ SeedType' /\ Seeded'  BY <1>1 DEF TriggersInv, BootType, SeedType, Seeded, TrueTo
  <1> QED  BY <1>6, <1>8, <1>9, <1>10 DEF TriggersInv

(* What is written from a reading: its price, and the liquidity of the cache *)
(* only where the tick is the cached one.                                    *)
LEMMA Writes ==
  ASSUME TriggersInv, NEW c \in Chains, NEW r \in Reading, r \notin {Nothing, Failed},
         ~AsksLiquidity(r, c), TrueTo(r, pool[c], told[c])
  PROVE  LET w == Written(r, c) IN
         /\ w \in PoolState /\ w.swaps = r.swaps /\ w.tick = r.tick
         /\ w.swaps <= pool[c].swaps
         /\ w.swaps = pool[c].swaps => w.tick = pool[c].tick
         /\ w.swaps = pool[c].swaps /\ (Priced(c) => Liquid(c)) /\ (r.liq = NoLiq => Priced(c)) =>
              w.liq[1] = pool[c].tick /\ w.liq[2] >= told[c].liq[2]
  <1>1. cache[c] \in {Nothing} \cup PoolState  BY DEF TriggersInv, ListenerType
  <1>2. CASE r.liq # NoLiq
    <2>1. Written(r, c) = r /\ r \in PoolState  BY <1>2, ReadingForms DEF Written
    <2> QED  BY <1>2, <2>1 DEF TrueTo
  <1>3. CASE r.liq = NoLiq
    <2>1. r.tick = cache[c].tick /\ r.tick \in Ticks  BY <1>3, ReadingForms DEF AsksLiquidity
    <2>2. cache[c] \in PoolState  BY <1>1, <2>1, Marks
    <2>3. cache[c].liq \in Liquidity  BY <2>2 DEF PoolState
    <2>4. Written(r, c) = [r EXCEPT !.liq = cache[c].liq]  BY <1>3 DEF Written
    <2>5. Written(r, c) \in PoolState  BY <2>3, <2>4, ReadingForms
    <2>6. /\ Written(r, c).swaps = r.swaps /\ Written(r, c).tick = r.tick
          /\ Written(r, c).liq = cache[c].liq
      BY <2>3, <2>4 DEF Reading, Slot0, PoolState
    <2> QED  BY <1>3, <2>5, <2>6 DEF TrueTo, Liquid
  <1> QED  BY <1>2, <1>3

LEMMA StepRefreshed == ASSUME TriggersInv, NEW c \in Chains, Refreshed(c) PROVE TriggersInv'
  <1>1. /\ link[c] = "refresh" /\ link' = [link EXCEPT ![c] = "live"] /\ ~AsksLiquidity(read[c], c)
        /\ UNCHANGED <<running, pool, moves, active, inbox, gas, boot, seed, told, missed>>
    BY DEF Refreshed, jobs
  <1>2. ListenerType /\ ChainInv(c)  BY DEF TriggersInv
  <1>3. link' \in [Chains -> Links] /\ link'[c] = "live" /\ \A d \in Chains : d # c => link'[d] = link[d]
    BY <1>1, <1>2 DEF ListenerType, Links
  <1>4. Heard(c)' /\ Told(c)'  BY <1>1, <1>2, <1>3 DEF ChainInv, Heard, Told, Hears
  <1>5. read[c] \in Reading /\ read[c] # Nothing  BY <1>1, <1>2 DEF ListenerType, ChainInv, Fresh
  <1>6. /\ ListenerType' /\ ChainInv(c)'
        /\ \A d \in Chains : d # c => /\ cache'[d] = cache[d] /\ read'[d] = read[d]
                                      /\ setBack'[d] = setBack[d]
        /\ BatchType' /\ NoLostWakeup'
    <2>1. CASE read[c] = Failed
      <3>1. UNCHANGED <<read, cache, market, venues, calc, owed, setBack>>  BY <2>1 DEF Refreshed, batch
      <3>2. ListenerType'  BY <1>1, <1>2, <1>3, <3>1 DEF ListenerType
      <3>3. Truthful(c)'  BY <1>1, <1>2, <3>1 DEF ChainInv, Truthful, TrueTo
      <3>4. Fresh(c)'  BY <1>1, <1>2, <1>3, <2>1, <3>1 DEF ChainInv, Fresh, Priced, Liquid
      <3>5. BatchType' /\ NoLostWakeup'  BY <1>1, <3>1, BatchKept
      <3> QED  BY <1>4, <3>1, <3>2, <3>3, <3>4, <3>5 DEF ChainInv
    <2>2. CASE read[c] # Failed
      <3> DEFINE w == Written(read[c], c)
                 b == setBack[c] \ {"price"}
      <3>1. /\ cache' = [cache EXCEPT ![c] = w] /\ read' = [read EXCEPT ![c] = Nothing]
            /\ setBack' = [setBack EXCEPT ![c] = b] /\ TriggerMarket(c)
        BY <2>2 DEF Refreshed
      <3>2. TrueTo(read[c], pool[c], told[c])  BY <1>2, <1>5, <2>2 DEF ChainInv, Truthful
      <3>3. /\ w \in PoolState /\ w.swaps = read[c].swaps
            /\ w.swaps <= pool[c].swaps
            /\ w.swaps = pool[c].swaps => w.tick = pool[c].tick
            /\ w.swaps = pool[c].swaps /\ (Priced(c) => Liquid(c)) /\ (read[c].liq = NoLiq => Priced(c)) =>
                 w.liq[1] = pool[c].tick /\ w.liq[2] >= told[c].liq[2]
        BY <1>1, <1>5, <2>2, <3>2, Writes
      <3> HIDE DEF w
      <3>4. b \in SUBSET {"price", "liquidity"}  BY <1>2 DEF ListenerType
      <3>5. /\ cache'[c] = w /\ read'[c] = Nothing /\ setBack'[c] = b
            /\ cache' \in [Chains -> {Nothing} \cup PoolState] /\ read' \in [Chains -> Reading]
            /\ setBack' \in [Chains -> SUBSET {"price", "liquidity"}]
            /\ \A d \in Chains : d # c => /\ cache'[d] = cache[d] /\ read'[d] = read[d]
                                          /\ setBack'[d] = setBack[d]
        BY <1>2, <3>1, <3>3, <3>4, Marks DEF ListenerType
      <3>6. ListenerType'  BY <1>1, <1>2, <1>3, <3>5 DEF ListenerType
      <3>7. Truthful(c)'  BY <1>1, <3>3, <3>5 DEF Truthful
      <3>8. Fresh(c)'
        <4>1. ASSUME ~Swapped(inbox[c]) PROVE w.swaps = pool[c].swaps
          BY <1>1, <1>2, <2>2, <3>3, <4>1 DEF ChainInv, Fresh
        <4>2. ASSUME ~Swapped(inbox[c]), ~missed[c], "liquidity" \notin b
              PROVE  w.liq[1] = pool[c].tick /\ w.liq[2] >= told[c].liq[2]
          <5>1. "liquidity" \notin setBack[c] /\ "price" \notin setBack[c]
            BY <1>2, <4>2 DEF ChainInv, Fresh
          <5>2. Priced(c) /\ Liquid(c)  BY <1>1, <1>2, <4>2, <5>1 DEF ChainInv, Fresh
          <5> QED  BY <3>3, <4>1, <4>2, <5>2
        <4> QED  BY <1>1, <1>3, <3>5, <4>1, <4>2 DEF Fresh, Priced, Liquid
      <3>9. BatchType' /\ NoLostWakeup'  BY <1>1, <3>1, Triggered
      <3> QED  BY <1>4, <3>5, <3>6, <3>7, <3>8, <3>9 DEF ChainInv
    <2> QED  BY <2>1, <2>2
  <1>7. \A d \in Chains : ChainInv(d)'  BY <1>1, <1>3, <1>6, OneChain
  <1>8. BootType' /\ SeedType' /\ Seeded'  BY <1>1 DEF TriggersInv, BootType, SeedType, Seeded, TrueTo
  <1> QED  BY <1>6, <1>7, <1>8 DEF TriggersInv

LEMMA StepHandle == ASSUME TriggersInv, NEW c \in Chains, Handle(c) PROVE TriggersInv'
  <1> DEFINE q == inbox[c]
             e == Head(q)
  <1>1. /\ link[c] \in {"subscribed", "live"} /\ q # <<>> /\ inbox' = [inbox EXCEPT ![c] = Tail(q)]
        /\ UNCHANGED <<running, pool, moves, link, active, read, gas, boot, seed, told, missed>>
    BY DEF Handle, jobs
  <1>2. ListenerType /\ ChainInv(c)  BY DEF TriggersInv
  <1>3. q \in Seq(Event)  BY <1>2 DEF ListenerType
  <1>4. /\ e \in Event /\ Tail(q) \in Seq(Event)
        /\ Newest(Tail(q), told[c]) /\ Past(Tail(q), told[c]) /\ Watched(Tail(q), c)
        /\ e[1] = "transfer" => c \in Wallets /\ (Swapped(q) <=> Swapped(Tail(q)))
        /\ e[1] = "swap" => e[2] = told[c] \/ e[2].swaps < told[c].swaps
        /\ e[1] = "swap" /\ ~Swapped(Tail(q)) => e[2] = told[c]
    BY <1>1, <1>2, <1>3, HandOver DEF ChainInv, Heard
  <1>5. /\ inbox' \in [Chains -> Seq(Event)] /\ inbox'[c] = Tail(q)
        /\ \A d \in Chains : d # c => inbox'[d] = inbox[d]
    BY <1>1, <1>2, <1>4 DEF ListenerType
  <1>6. Heard(c)' /\ Told(c)'  BY <1>1, <1>2, <1>4, <1>5 DEF ChainInv, Heard, Told, Hears
  <1>7. /\ cache' \in [Chains -> {Nothing} \cup PoolState]
        /\ setBack' \in [Chains -> SUBSET {"price", "liquidity"}]
        /\ \A d \in Chains : d # c => cache'[d] = cache[d] /\ setBack'[d] = setBack[d]
        /\ Truthful(c)' /\ Fresh(c)'
        /\ BatchType' /\ NoLostWakeup'
    <2>1. CASE e[1] = "swap"
      <3>1. /\ cache' = [cache EXCEPT ![c] = e[2]] /\ setBack' = [setBack EXCEPT ![c] = {}]
            /\ TriggerMarket(c)
        BY <2>1 DEF Handle
      <3>2. e[2] \in PoolState
        <4>1. e[1] # "transfer"  BY <2>1
        <4> QED  BY <1>4, <4>1, EventForms
      <3>3. /\ cache'[c] = e[2] /\ setBack'[c] = {}
            /\ cache' \in [Chains -> {Nothing} \cup PoolState]
            /\ setBack' \in [Chains -> SUBSET {"price", "liquidity"}]
            /\ \A d \in Chains : d # c => cache'[d] = cache[d] /\ setBack'[d] = setBack[d]
        BY <1>2, <3>1, <3>2 DEF ListenerType
      <3>4. told[c] \in PoolState /\ Told(c)  BY <1>2 DEF ListenerType, ChainInv
      <3>5. e[2].swaps \in Int /\ told[c].swaps \in Int /\ told[c].liq[2] \in Int
        BY <3>2, <3>4 DEF PoolState, Liquidity
      <3>6. Truthful(c)'
        <4>1. e[2].swaps <= pool[c].swaps /\ (e[2].swaps = pool[c].swaps => e[2].tick = pool[c].tick)
          BY <1>4, <2>1, <3>4, <3>5 DEF Told
        <4> QED  BY <1>1, <1>2, <3>3, <4>1 DEF ChainInv, Truthful, TrueTo
      <3>7. Fresh(c)'
        <4>1. ~Swapped(Tail(q)) => /\ e[2].swaps = pool[c].swaps /\ e[2].liq[1] = pool[c].tick
                                   /\ e[2].liq[2] >= told[c].liq[2]
          BY <1>4, <2>1, <3>4, <3>5 DEF Told
        <4> QED  BY <1>1, <1>5, <3>3, <4>1 DEF Fresh, Priced, Liquid
      <3>8. BatchType' /\ NoLostWakeup'  BY <1>1, <3>1, Triggered
      <3> QED  BY <3>3, <3>6, <3>7, <3>8
    <2>2. CASE e[1] # "swap"
      <3>1. e[1] = "transfer"  BY <1>4, <2>2, EventForms
      <3>2. UNCHANGED <<cache, setBack>> /\ TriggerWallet(c)  BY <2>2 DEF Handle
      <3>3. Truthful(c)'  BY <1>1, <1>2, <3>2 DEF ChainInv, Truthful, TrueTo
      <3>4. Fresh(c)'  BY <1>1, <1>2, <1>4, <1>5, <3>1, <3>2 DEF ChainInv, Fresh, Priced, Liquid
      <3>5. BatchType' /\ NoLostWakeup'  BY <1>1, <1>4, <3>1, <3>2, Triggered
      <3> QED  BY <1>2, <3>2, <3>3, <3>4, <3>5 DEF ListenerType
    <2> QED  BY <2>1, <2>2
  <1> HIDE DEF e, q
  <1>8. ListenerType'  BY <1>1, <1>2, <1>5, <1>7 DEF ListenerType
  <1>9. ChainInv(c)'  BY <1>6, <1>7 DEF ChainInv
  <1>10. \A d \in Chains : ChainInv(d)'  BY <1>1, <1>5, <1>7, <1>8, <1>9, OneChain
  <1>11. BootType' /\ SeedType' /\ Seeded'  BY <1>1 DEF TriggersInv, BootType, SeedType, Seeded, TrueTo
  <1> QED  BY <1>7, <1>8, <1>10, <1>11 DEF TriggersInv

LEMMA StepLose == ASSUME TriggersInv, NEW c \in Chains, Lose(c) PROVE TriggersInv'
  <1> DEFINE m == missed[c] \/ Swapped(inbox[c])
  <1>1. /\ link[c] \notin {"off", "down"}
        /\ link' = [link EXCEPT ![c] = "down"] /\ active' = active \ {c}
        /\ inbox' = [inbox EXCEPT ![c] = <<>>] /\ read' = [read EXCEPT ![c] = Nothing]
        /\ missed' = [missed EXCEPT ![c] = m]
        /\ UNCHANGED <<running, pool, moves, cache, told, setBack, market, venues, calc, gas, boot, seed, owed>>
    BY DEF Lose, batch, jobs
  <1>2. ListenerType /\ ChainInv(c)  BY DEF TriggersInv
  <1>3. m \in BOOLEAN  BY <1>2 DEF ListenerType, Swapped
  <1> HIDE DEF m
  <1>4. /\ missed' \in [Chains -> BOOLEAN] /\ missed'[c] = m
        /\ \A d \in Chains : d # c => missed'[d] = missed[d]
    BY <1>1, <1>2, <1>3, Zenon DEF ListenerType
  <1>5. /\ link' \in [Chains -> Links] /\ link'[c] = "down"
        /\ inbox' \in [Chains -> Seq(Event)] /\ inbox'[c] = <<>>
        /\ read' \in [Chains -> Reading] /\ read'[c] = Nothing
        /\ \A d \in Chains : d # c => link'[d] = link[d] /\ inbox'[d] = inbox[d] /\ read'[d] = read[d]
    BY <1>1, <1>2, Marks, EmptyInbox DEF ListenerType, Links
  <1>6. ListenerType'  BY <1>1, <1>2, <1>4, <1>5 DEF ListenerType
  <1>7. ChainInv(c)'
    <2>1. Heard(c)'  BY <1>5, EmptyInbox DEF Heard
    <2>2. Told(c)' /\ Truthful(c)'  BY <1>1, <1>2, <1>5 DEF ChainInv, Told, Truthful, TrueTo
    <2>3. Fresh(c)'
      <3>1. CASE Swapped(inbox[c])
        BY <1>1, <1>2, <1>4, <1>5, <3>1 DEF m, ChainInv, Fresh
      <3>2. CASE ~Swapped(inbox[c])
        <4>1. m <=> missed[c]  BY <3>2 DEF m
        <4> QED  BY <1>1, <1>2, <1>4, <1>5, <3>2, <4>1 DEF ChainInv, Fresh, Priced, Liquid
      <3> QED  BY <3>1, <3>2
    <2> QED  BY <2>1, <2>2, <2>3 DEF ChainInv
  <1>8. \A d \in Chains : ChainInv(d)'  BY <1>1, <1>4, <1>5, <1>6, <1>7, OneChain
  <1>9. BatchType' /\ NoLostWakeup'  BY <1>1, BatchKept
  <1>10. BootType' /\ SeedType' /\ Seeded'  BY <1>1 DEF TriggersInv, BootType, SeedType, Seeded, TrueTo
  <1> QED  BY <1>6, <1>8, <1>9, <1>10 DEF TriggersInv

LEMMA StepStop == ASSUME TriggersInv, Stop PROVE TriggersInv'
  <1>1. /\ running' = FALSE /\ link' = [c \in Chains |-> "off"] /\ inbox' = [c \in Chains |-> <<>>]
        /\ calc' = NoCalc
        /\ UNCHANGED <<pool, moves, active, read, cache, told, missed, setBack, market, venues, gas, boot, seed, owed>>
    BY DEF Stop, jobs, swapped
  <1>2. ListenerType'
    <2>1. running' \in BOOLEAN  BY <1>1
    <2>2. inbox' \in [Chains -> Seq(Event)]  BY <1>1, EmptyInbox
    <2> QED  BY <1>1, <2>1, <2>2 DEF TriggersInv, ListenerType, Links
  <1>3. \A c \in Chains : ChainInv(c)'
    <2>1. TAKE c \in Chains
    <2>2. link'[c] = "off" /\ inbox'[c] = <<>> /\ ChainInv(c)  BY <1>1 DEF TriggersInv
    <2>3. Heard(c)'  BY <2>2, EmptyInbox DEF Heard
    <2>4. Told(c)' /\ Truthful(c)' /\ Fresh(c)'
      BY <1>1, <2>2 DEF ChainInv, Told, Truthful, TrueTo, Fresh
    <2> QED  BY <2>3, <2>4 DEF ChainInv
  <1>4. BatchType' /\ NoLostWakeup'
    <2>1. calc' \in [pc : {"none", "sleep", "wallet", "dex"}, venues : SUBSET Wallets]
      BY <1>1, CalcForms
    <2> QED  BY <1>1, <2>1 DEF TriggersInv, BatchType, NoLostWakeup
  <1>5. BootType' /\ SeedType' /\ Seeded'  BY <1>1 DEF TriggersInv, BootType, SeedType, Seeded, TrueTo
  <1> QED  BY <1>2, <1>3, <1>4, <1>5 DEF TriggersInv

-----------------------------------------------------------------------------
(* The seed, the batch and the jobs.                                        *)

LEMMA StepSeedRead ==
  ASSUME TriggersInv, NEW s \in Seeders, SeedSlot0(s) \/ SeedLiquidity(s) PROVE TriggersInv'
  <1> DEFINE c == Head(seed[s].todo)
  <1>1. UNCHANGED <<running, pool, moves, link, active, inbox, read, cache, told, missed, setBack, market, venues, calc, gas, boot, owed>>
    BY DEF SeedSlot0, SeedLiquidity, listener, batch, swapped
  <1>2. seed \in [Seeders -> [todo : Orders, got : Reading]] /\ Seeded
    BY DEF TriggersInv, SeedType
  <1>3. seed[s].todo # <<>>
    <2>1. CASE SeedSlot0(s)  BY <2>1 DEF SeedSlot0
    <2>2. CASE SeedLiquidity(s)
      <3>1. seed[s].got # Nothing  BY <2>2 DEF SeedLiquidity, AsksLiquidity
      <3> QED  BY <1>2, <3>1 DEF Seeded
    <2> QED  BY <2>1, <2>2
  <1>4. c \in Chains  BY <1>2, <1>3, SeedWalk
  <1>5. \E r \in Reading :
          Reads(s, r) /\ r # Nothing /\ (r # Failed => TrueTo(r, pool[c], told[c]))
    <2>1. CASE SeedSlot0(s)
      <3>1. PICK r \in Slot0Answers(c) : Reads(s, r)  BY <2>1 DEF SeedSlot0
      <3> QED  BY <1>4, <3>1, Slot0Read
    <2>2. CASE SeedLiquidity(s)
      <3>1. AsksLiquidity(seed[s].got, c) /\ \E r \in LiquidityAnswers(seed[s].got, c) : Reads(s, r)
        BY <2>2 DEF SeedLiquidity
      <3>2. PICK r \in LiquidityAnswers(seed[s].got, c) : Reads(s, r)  BY <3>1
      <3>3. seed[s].got \in Reading /\ seed[s].got \notin {Nothing, Failed}
        BY <1>2, <3>1 DEF AsksLiquidity
      <3>4. TrueTo(seed[s].got, pool[c], told[c])  BY <1>2, <3>3 DEF Seeded
      <3> QED  BY <1>4, <3>1, <3>2, <3>3, <3>4, LiquidityRead
    <2> QED  BY <2>1, <2>2
  <1>6. PICK r \in Reading :
          Reads(s, r) /\ r # Nothing /\ (r # Failed => TrueTo(r, pool[c], told[c]))
    BY <1>5
  <1>7. /\ seed' \in [Seeders -> [todo : Orders, got : Reading]]
        /\ seed'[s].todo = seed[s].todo /\ seed'[s].got = r
        /\ \A z \in Seeders : z # s => seed'[z] = seed[z]
    BY <1>2, <1>6 DEF Reads
  <1>8. SeedType' /\ Seeded'
    BY <1>1, <1>2, <1>3, <1>6, <1>7 DEF SeedType, Seeded, TrueTo
  <1>9. ListenerType' /\ \A d \in Chains : ChainInv(d)'  BY <1>1, ListenerKept
  <1>10. BatchType' /\ NoLostWakeup'  BY <1>1, BatchKept
  <1>11. BootType'  BY <1>1 DEF TriggersInv, BootType
  <1> QED  BY <1>8, <1>9, <1>10, <1>11 DEF TriggersInv

(* A seed may overwrite what a listener knew; where it does not set the     *)
(* entry back, it brings the price of the pool itself or leaves the reason  *)
(* there was for an older one.                                              *)
LEMMA SeedWriteOf ==
  ASSUME TriggersInv, NEW s \in Seeders, SeedWrite(s), NEW c, c = Head(seed[s].todo),
         NEW r, r = seed[s].got
  PROVE  TriggersInv'
  <1>1. /\ r # Nothing /\ ~AsksLiquidity(r, c)
        /\ seed' = [seed EXCEPT ![s] = [todo |-> Tail(seed[s].todo), got |-> Nothing]]
        /\ UNCHANGED <<running, pool, moves, link, active, inbox, read, told, missed, market, venues, calc, gas, boot, owed>>
    BY DEF SeedWrite, listener, batch
  <1>2. seed \in [Seeders -> [todo : Orders, got : Reading]] /\ Seeded /\ ListenerType
    BY DEF TriggersInv, SeedType
  <1>3. seed[s].todo # <<>> /\ r \in Reading /\ (r # Failed => TrueTo(r, pool[c], told[c]))
    BY <1>1, <1>2 DEF Seeded
  <1>4. c \in Chains /\ Tail(seed[s].todo) \in Orders  BY <1>2, <1>3, SeedWalk
  <1>5. ChainInv(c)  BY <1>4 DEF TriggersInv
  <1>6. /\ ListenerType' /\ ChainInv(c)'
        /\ \A d \in Chains : d # c => cache'[d] = cache[d] /\ setBack'[d] = setBack[d]
    <2>1. Heard(c)' /\ Told(c)'  BY <1>1, <1>5 DEF ChainInv, Heard, Told, Hears
    <2>2. CASE r = Failed
      <3>1. UNCHANGED <<cache, setBack>>  BY <2>2 DEF SeedWrite
      <3>2. ListenerType'  BY <1>1, <1>2, <3>1 DEF ListenerType
      <3>3. Truthful(c)' /\ Fresh(c)'
        BY <1>1, <1>5, <3>1 DEF ChainInv, Truthful, TrueTo, Fresh, Priced, Liquid
      <3> QED  BY <2>1, <3>1, <3>2, <3>3 DEF ChainInv
    <2>3. CASE r # Failed
      <3> DEFINE w == Written(r, c)
                 b == IF r.swaps < cache[c].swaps THEN {"price", "liquidity"}
                      ELSE IF r.swaps = pool[c].swaps THEN setBack[c] \ {"price"}
                      ELSE setBack[c]
      <3>1. cache' = [cache EXCEPT ![c] = w] /\ setBack' = [setBack EXCEPT ![c] = b]
        BY <2>3 DEF SeedWrite
      <3>2. /\ w \in PoolState /\ w.swaps = r.swaps
            /\ w.swaps <= pool[c].swaps
            /\ w.swaps = pool[c].swaps => w.tick = pool[c].tick
            /\ w.swaps = pool[c].swaps /\ (Priced(c) => Liquid(c)) /\ (r.liq = NoLiq => Priced(c)) =>
                 w.liq[1] = pool[c].tick /\ w.liq[2] >= told[c].liq[2]
        BY <1>1, <1>3, <1>4, <2>3, Writes
      <3> HIDE DEF w
      <3>3. setBack[c] \in SUBSET {"price", "liquidity"}  BY <1>2, <1>4 DEF ListenerType
      <3>4. b \in SUBSET {"price", "liquidity"}  BY <3>3
      <3>5. /\ r.swaps < cache[c].swaps => b = {"price", "liquidity"}
            /\ "price" \in b => "liquidity" \in b
            /\ "liquidity" \notin b => "liquidity" \notin setBack[c]
            /\ "price" \in setBack[c] => "price" \in b \/ r.swaps = pool[c].swaps
        BY <1>5, <3>3 DEF ChainInv, Fresh
      <3> HIDE DEF b
      <3>6. /\ cache'[c] = w /\ setBack'[c] = b
            /\ cache' \in [Chains -> {Nothing} \cup PoolState]
            /\ setBack' \in [Chains -> SUBSET {"price", "liquidity"}]
            /\ \A d \in Chains : d # c => cache'[d] = cache[d] /\ setBack'[d] = setBack[d]
        BY <1>2, <1>4, <3>1, <3>2, <3>4 DEF ListenerType
      <3>7. ListenerType'  BY <1>1, <1>2, <3>6 DEF ListenerType
      <3>8. Truthful(c)'  BY <1>1, <1>5, <3>2, <3>6 DEF ChainInv, Truthful, TrueTo
      <3>9. ASSUME link[c] # "off", ~Swapped(inbox[c])
            PROVE  /\ \/ w.swaps = pool[c].swaps
                      \/ "price" \in b
                      \/ missed[c] /\ (link[c] = "live" => read[c] = Failed)
                   /\ w.swaps = pool[c].swaps /\ ~missed[c] /\ "liquidity" \notin b =>
                        w.liq[1] = pool[c].tick /\ w.liq[2] >= told[c].liq[2]
        <4>1. \/ Priced(c)
              \/ "price" \in setBack[c]
              \/ missed[c] /\ (link[c] = "live" => read[c] = Failed)
          BY <1>5, <3>9 DEF ChainInv, Fresh
        <4>2. Priced(c) => r.swaps < cache[c].swaps \/ r.swaps = pool[c].swaps
          <5>1. r.swaps \in Int  BY <1>3, ReadingForms
          <5>2. pool[c].swaps \in Int
            <6>1. pool[c] \in PoolState  BY <1>2, <1>4 DEF ListenerType
            <6> QED  BY <6>1 DEF PoolState
          <5> QED  BY <3>2, <5>1, <5>2 DEF Priced
        <4>3. \/ w.swaps = pool[c].swaps
              \/ "price" \in b
              \/ missed[c] /\ (link[c] = "live" => read[c] = Failed)
          BY <3>2, <3>5, <4>1, <4>2
        <4>4. ASSUME w.swaps = pool[c].swaps, ~missed[c], "liquidity" \notin b
              PROVE  w.liq[1] = pool[c].tick /\ w.liq[2] >= told[c].liq[2]
          <5>1. "liquidity" \notin setBack[c] /\ "price" \notin setBack[c]
            BY <1>5, <3>5, <4>4 DEF ChainInv, Fresh
          <5>2. Priced(c) /\ Liquid(c)  BY <1>5, <3>9, <4>1, <4>4, <5>1 DEF ChainInv, Fresh
          <5> QED  BY <3>2, <4>4, <5>2
        <4> QED  BY <4>3, <4>4
      <3>10. Fresh(c)'
        BY <1>1, <1>5, <3>5, <3>6, <3>9 DEF ChainInv, Fresh, Priced, Liquid
      <3> QED  BY <2>1, <3>6, <3>7, <3>8, <3>10 DEF ChainInv
    <2> QED  BY <2>2, <2>3
  <1>7. \A d \in Chains : ChainInv(d)'  BY <1>1, <1>4, <1>6, OneChain
  <1>8. SeedType' /\ Seeded'
    <2>1. [todo |-> Tail(seed[s].todo), got |-> Nothing] \in [todo : Orders, got : Reading]
      BY <1>4, Marks
    <2>2. /\ seed' \in [Seeders -> [todo : Orders, got : Reading]] /\ seed'[s].got = Nothing
          /\ \A z \in Seeders : z # s => seed'[z] = seed[z]
      BY <1>1, <1>2, <2>1
    <2> QED  BY <1>1, <1>2, <2>2 DEF SeedType, Seeded, TrueTo
  <1>9. BatchType' /\ NoLostWakeup'  BY <1>1, BatchKept
  <1>10. BootType'  BY <1>1 DEF TriggersInv, BootType
  <1> QED  BY <1>6, <1>7, <1>8, <1>9, <1>10 DEF TriggersInv

LEMMA StepSeedWrite == ASSUME TriggersInv, NEW s \in Seeders, SeedWrite(s) PROVE TriggersInv'
  BY SeedWriteOf

(* What a step of the batch leaves: its own types and wake-up.              *)
LEMMA BatchOnly ==
  ASSUME TriggersInv, BatchType', NoLostWakeup', BootType',
         seed' \in Asked,
         UNCHANGED <<running, pool, moves, link, active, inbox, read, cache, told, missed, setBack>>
  PROVE  TriggersInv'
  <1>1. ListenerType' /\ \A c \in Chains : ChainInv(c)'  BY ListenerKept
  <1>2. SeedType' /\ Seeded'  BY AskSeed DEF TriggersInv
  <1> QED  BY <1>1, <1>2 DEF TriggersInv

LEMMA StepWake == ASSUME TriggersInv, Wake PROVE TriggersInv'
  <1>1. /\ calc' = (IF ~market /\ venues = {} THEN NoCalc
                     ELSE [NoCalc EXCEPT !.pc = IF venues # {} THEN "wallet" ELSE "dex",
                                         !.venues = venues])
        /\ market' = FALSE /\ venues' = {}
        /\ UNCHANGED <<running, pool, moves, link, active, inbox, read, cache, told, missed, setBack, gas, boot, seed, owed>>
    BY DEF Wake, listener, jobs, swapped
  <1>2. venues \in SUBSET Wallets /\ owed \subseteq {"swap", "transfer"} \X Chains
    BY DEF TriggersInv, BatchType
  <1>3. calc' \in [pc : {"none", "sleep", "wallet", "dex"}, venues : SUBSET Wallets]
    BY <1>1, <1>2, CalcForms
  <1>4. market' \in BOOLEAN  BY <1>1
  <1>5. BatchType' /\ NoLostWakeup'  BY <1>1, <1>2, <1>3, <1>4 DEF BatchType, NoLostWakeup
  <1>6. BootType' /\ seed' \in Asked  BY <1>1 DEF TriggersInv, BootType, Asked
  <1> QED  BY <1>1, <1>5, <1>6, BatchOnly

LEMMA StepWalletActivity == ASSUME TriggersInv, WalletActivity PROVE TriggersInv'
  <1>1. /\ calc' = [NoCalc EXCEPT !.pc = "dex"] /\ owed' \subseteq owed
        /\ UNCHANGED <<running, pool, moves, link, active, inbox, read, cache, told, missed, setBack, market, venues, gas, boot, seed>>
    BY DEF WalletActivity, listener, jobs, swapped
  <1>2. /\ calc' \in [pc : {"none", "sleep", "wallet", "dex"}, venues : SUBSET Wallets]
        /\ calc'.pc = "dex"
    BY <1>1, CalcForms
  <1>3. BatchType' /\ NoLostWakeup'
    BY <1>1, <1>2 DEF TriggersInv, BatchType, NoLostWakeup
  <1>4. BootType' /\ seed' \in Asked  BY <1>1 DEF TriggersInv, BootType, Asked
  <1> QED  BY <1>1, <1>3, <1>4, BatchOnly

LEMMA StepDexEvent == ASSUME TriggersInv, DexEvent PROVE TriggersInv'
  <1>1. /\ calc' = Round /\ owed' \subseteq owed /\ seed' \in Asked
        /\ UNCHANGED <<running, pool, moves, link, active, inbox, read, cache, told, missed, setBack, market, venues, gas, boot>>
    BY EvaluateAsks DEF DexEvent, listener, swapped
  <1>2. /\ calc' \in [pc : {"none", "sleep", "wallet", "dex"}, venues : SUBSET Wallets]
        /\ market \/ venues # {} => calc'.pc = "sleep"
    BY <1>1, CalcForms DEF Round
  <1>3. BatchType' /\ NoLostWakeup'
    BY <1>1, <1>2 DEF TriggersInv, BatchType, NoLostWakeup
  <1>4. BootType'  BY <1>1 DEF TriggersInv, BootType
  <1> QED  BY <1>1, <1>3, <1>4, BatchOnly

(* The jobs ask for a seed, or change the gas figure or the bootstrap.      *)
LEMMA JobsOnly ==
  ASSUME TriggersInv, gas' \in BOOLEAN,
         boot' \in [pending : BOOLEAN, pc : {"idle", "seed", "eval"}, recent : BOOLEAN],
         owed' \subseteq owed, seed' \in Asked,
         UNCHANGED <<running, pool, moves, link, active, inbox, read, cache, told, missed, setBack, market, venues, calc>>
  PROVE  TriggersInv'
  <1>1. BatchType' /\ NoLostWakeup'  BY BatchKept
  <1>2. BootType'  BY DEF BootType
  <1> QED  BY <1>1, <1>2, BatchOnly

LEMMA StepJobs ==
  ASSUME TriggersInv,
         Fallback \/ DepthTick \/ GasJob \/ GasAges \/ RetryAllowed \/ BootGas \/ BootEvaluate
  PROVE  TriggersInv'
  <1> USE DEF listener, batch, jobs, swapped
  <1>1. BootType /\ seed \in Asked  BY DEF TriggersInv, Asked
  <1>2. gas \in BOOLEAN /\ TRUE \in BOOLEAN /\ FALSE \in BOOLEAN  BY <1>1 DEF BootType
  <1>3. CASE Fallback
    BY <1>1, <1>3, EvaluateAsks, JobsOnly DEF Fallback, BootType
  <1>4. CASE DepthTick
    BY <1>1, <1>4, SeedingAsks, JobsOnly DEF DepthTick, BootType
  <1>5. CASE GasJob
    <2>1. gas' \in BOOLEAN  BY <1>2, <1>5 DEF GasJob
    <2>2. boot' = Scheduled(boot)  BY <1>5 DEF GasJob
    <2>3. seed' \in Asked
      BY <1>1, <1>5, TriggersAssumption DEF GasJob, SeedOf, Asked
    <2> QED  BY <1>1, <1>5, <2>1, <2>2, <2>3, BootForms, JobsOnly DEF GasJob
  <1>6. CASE GasAges
    <2>1. gas' \in BOOLEAN  BY <1>2, <1>6 DEF GasAges
    <2> QED  BY <1>1, <1>6, <2>1, JobsOnly DEF GasAges, BootType
  <1>7. CASE RetryAllowed
    BY <1>1, <1>2, <1>7, BootForms, JobsOnly DEF RetryAllowed
  <1>8. CASE BootGas
    <2>1. gas' \in BOOLEAN  BY <1>2, <1>8 DEF BootGas
    <2>2. boot' = [boot EXCEPT !.pc = "eval"] \/ boot' = [boot EXCEPT !.pc = "idle"]
      BY <1>8 DEF BootGas
    <2>3. boot' \in [pending : BOOLEAN, pc : {"idle", "seed", "eval"}, recent : BOOLEAN]
      BY <1>1, <2>2, BootForms
    <2> QED  BY <1>1, <1>8, <2>1, <2>3, JobsOnly DEF BootGas
  <1>9. CASE BootEvaluate
    <2>1. \/ boot' = [boot EXCEPT !.pc = "idle", !.pending = FALSE]
          \/ boot' = [boot EXCEPT !.pc = "idle"]
      BY <1>9 DEF BootEvaluate
    <2>2. boot' \in [pending : BOOLEAN, pc : {"idle", "seed", "eval"}, recent : BOOLEAN]
      BY <1>1, <2>1, BootForms
    <2> QED  BY <1>2, <1>9, <2>2, EvaluateAsks, JobsOnly DEF BootEvaluate
  <1> QED  BY <1>3, <1>4, <1>5, <1>6, <1>7, <1>8, <1>9

LEMMA InitTriggers == Init => TriggersInv
  <1> SUFFICES ASSUME Init PROVE TriggersInv  OBVIOUS
  <1> DEFINE p == [swaps |-> 0, tick |-> 0, liq |-> <<0, 0>>]
  <1>0. p \in PoolState /\ p.swaps = 0 /\ p.tick = 0 /\ p.liq[1] = 0 /\ p.liq[2] = 0
    <2>1. 0 \in 0..MaxSwaps /\ 0 \in 0..MaxMints /\ 0 \in Ticks  BY TriggersAssumption
    <2>2. <<0, 0>> \in Liquidity  BY <2>1 DEF Liquidity
    <2> QED  BY <2>1, <2>2 DEF PoolState
  <1>1. /\ ListenerType
        /\ \A c \in Chains : /\ pool[c] = p /\ told[c] = p /\ missed[c] /\ setBack[c] = {}
                            /\ cache[c] \in {Nothing, p} /\ read[c] = Nothing
                            /\ inbox[c] = <<>> /\ link[c] = "down"
    <2> HIDE DEF p
    <2>1. pool = [c \in Chains |-> p] /\ told = pool  BY DEF Init, p
    <2>2. pool \in [Chains -> PoolState] /\ \A c \in Chains : pool[c] = p  BY <1>0, <2>1
    <2>3. PICK cold \in SUBSET Chains :
            cache = [c \in Chains |-> IF c \in cold THEN Nothing ELSE pool[c]]
      BY DEF Init
    <2>4. /\ cache \in [Chains -> {Nothing} \cup PoolState]
          /\ \A c \in Chains : cache[c] \in {Nothing, p}
      BY <1>0, <2>2, <2>3
    <2>5. inbox \in [Chains -> Seq(Event)]  BY EmptyInbox DEF Init
    <2>6. read \in [Chains -> Reading]  BY Marks DEF Init
    <2>7. running \in BOOLEAN /\ moves \in 0..MaxMoves
      BY TriggersAssumption DEF Init
    <2>8. /\ missed \in [Chains -> BOOLEAN] /\ \A c \in Chains : missed[c]
      <3>1. TRUE \in BOOLEAN  OBVIOUS
      <3>2. missed = [c \in Chains |-> TRUE]  BY DEF Init
      <3> QED  BY <3>1, <3>2, Zenon
    <2>9. setBack \in [Chains -> SUBSET {"price", "liquidity"}]  BY DEF Init
    <2> QED
      BY <2>1, <2>2, <2>4, <2>5, <2>6, <2>7, <2>8, <2>9 DEF Init, ListenerType, Links
  <1>2. BatchType
    <2>1. market \in BOOLEAN  BY DEF Init
    <2>2. calc \in [pc : {"none", "sleep", "wallet", "dex"}, venues : SUBSET Wallets]
      BY CalcForms DEF Init
    <2> QED  BY <2>1, <2>2 DEF Init, BatchType
  <1>3. BootType
    <2>1. gas \in BOOLEAN  BY DEF Init
    <2>2. PICK young \in BOOLEAN :
            boot = Scheduled([pending |-> TRUE, pc |-> "idle", recent |-> young])
      BY DEF Init
    <2> DEFINE b == [pending |-> TRUE, pc |-> "idle", recent |-> young]
    <2>3. b \in [pending : BOOLEAN, pc : {"idle", "seed", "eval"}, recent : BOOLEAN]
      <3>1. TRUE \in BOOLEAN  OBVIOUS
      <3> QED  BY <3>1, Zenon
    <2>4. [b EXCEPT !.pc = "seed", !.recent = TRUE] \in
            [pending : BOOLEAN, pc : {"idle", "seed", "eval"}, recent : BOOLEAN]
      <3>1. TRUE \in BOOLEAN  OBVIOUS
      <3> HIDE DEF b
      <3> QED  BY <2>3, <3>1, Zenon
    <2> HIDE DEF b
    <2>5. boot = Scheduled(b)  BY <2>2 DEF b
    <2>6. boot \in [pending : BOOLEAN, pc : {"idle", "seed", "eval"}, recent : BOOLEAN]
      BY <2>3, <2>4, <2>5 DEF Scheduled
    <2> QED  BY <2>1, <2>6 DEF BootType
  <1>4. SeedType /\ Seeded
    <2>1. seed \in [Seeders -> [todo : Orders, got : Reading]] /\ \A s \in Seeders : seed[s].got = Nothing
      BY SeedForms DEF Init
    <2> QED  BY <2>1 DEF SeedType, Seeded
  <1>5. \A c \in Chains : ChainInv(c)
    <2>1. TAKE c \in Chains
    <2> HIDE DEF p
    <2>2. Heard(c)  BY <1>1, EmptyInbox DEF Heard
    <2>3. Told(c)  BY <1>0, <1>1 DEF Told
    <2>4. Truthful(c)  BY <1>0, <1>1, Marks DEF Truthful
    <2>5. Fresh(c)  BY <1>1 DEF Fresh
    <2> QED  BY <2>2, <2>3, <2>4, <2>5 DEF ChainInv
  <1>6. NoLostWakeup  BY DEF Init, NoLostWakeup
  <1> QED  BY <1>1, <1>2, <1>3, <1>4, <1>5, <1>6 DEF TriggersInv

LEMMA StepStutter == ASSUME TriggersInv, UNCHANGED vars PROVE TriggersInv'
  <1>1. UNCHANGED <<running, pool, moves, link, active, inbox, read, cache, told, missed, setBack, market, venues, calc, gas, boot, seed, owed>>
    BY DEF vars, listener, batch, jobs, swapped
  <1>2. BatchType' /\ NoLostWakeup'  BY <1>1, BatchKept
  <1>3. BootType' /\ seed' \in Asked  BY <1>1 DEF TriggersInv, BootType, Asked
  <1> QED  BY <1>1, <1>2, <1>3, BatchOnly

LEMMA Inductive == TriggersInv /\ [Next]_vars => TriggersInv'
  <1> SUFFICES ASSUME TriggersInv, [Next]_vars PROVE TriggersInv'  OBVIOUS
  <1>1. ASSUME NEW c \in Chains, Swap(c) \/ Mint(c) \/ Listen(c) \/ Lose(c) PROVE TriggersInv'
    BY <1>1, StepSwap, StepMint, StepConnect, StepSubscribe, StepRefresh, StepRefreshed, StepHandle, StepLose
       DEF Listen
  <1>2. ASSUME NEW w \in Wallets, Transfer(w) PROVE TriggersInv'  BY <1>2, StepTransfer
  <1>3. CASE Calculate  BY <1>3, StepWake, StepWalletActivity, StepDexEvent DEF Calculate
  <1>4. ASSUME NEW s \in Seeders, Seed(s) PROVE TriggersInv'
    BY <1>4, StepSeedRead, StepSeedWrite DEF Seed
  <1>5. CASE Fallback \/ DepthTick \/ GasJob \/ GasAges \/ RetryAllowed \/ BootGas \/ BootEvaluate
    BY <1>5, StepJobs
  <1>6. CASE Stop  BY <1>6, StepStop
  <1>7. CASE UNCHANGED vars  BY <1>7, StepStutter
  <1> QED  BY <1>1, <1>2, <1>3, <1>4, <1>5, <1>6, <1>7 DEF Next

LEMMA TriggersInvariant == Spec => []TriggersInv
  BY InitTriggers, Inductive, PTL DEF Spec

-----------------------------------------------------------------------------
(* Listeners, batch, seed and bootstrap keep their types whatever fails.    *)
THEOREM TypeCorrect == Spec => []TypeOK
  <1>1. TriggersInv => TypeOK  BY TypeParts DEF TriggersInv
  <1> QED  BY <1>1, TriggersInvariant, PTL

(* While the listener runs, what is pending has a calculation that will     *)
(* take it.                                                                 *)
THEOREM NoNewsWithoutACalculation == Spec => []NoLostWakeup
  <1>1. TriggersInv => NoLostWakeup  BY DEF TriggersInv
  <1> QED  BY <1>1, TriggersInvariant, PTL

(* A live chain with nothing left to hand over has its pool's price in the  *)
(* cache, and the liquidity the pool had at its last swap or later if that  *)
(* swap was heard of, unless a late seed or a failed refresh has left an    *)
(* older one: whatever closes, and for any number of seeds at once.         *)
THEOREM LiveIsCurrent == Spec => []LiveMeansCurrent
  <1>1. TriggersInv => LiveMeansCurrent
    <2>1. SUFFICES ASSUME TriggersInv, NEW c \in Chains, link[c] = "live", inbox[c] = <<>>
                   PROVE  \/ Priced(c) /\ (Liquid(c) \/ missed[c] \/ "liquidity" \in setBack[c])
                          \/ "price" \in setBack[c]
                          \/ read[c] = Failed /\ missed[c]
      BY DEF LiveMeansCurrent, Priced, Liquid
    <2>2. Fresh(c)  BY <2>1 DEF TriggersInv, ChainInv
    <2>3. ~Swapped(inbox[c])  BY <2>1, EmptyInbox
    <2> QED  BY <2>1, <2>2, <2>3 DEF Fresh
  <1> QED  BY <1>1, TriggersInvariant, PTL

=============================================================================
