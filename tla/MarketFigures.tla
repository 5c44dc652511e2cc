---------------------------- MODULE MarketFigures -----------------------------
(* Figures the engine computes from what it has fetched: the price of cNGN from *)
(* quotes and stored snapshots, the share of cNGN in the portfolio, and the     *)
(* ticks of a new LP position. Prices are exact fractions, as in ArbPricing.    *)
EXTENDS ArbPricing, FiniteSets

CONSTANTS
  Sources,    \* the venues
  Quotes,     \* what they quote, a function of the venue
  Snapshots,  \* what the store holds, in the order of the times
  Answers,    \* what the accounts and positions of the portfolio answer
  Rates,      \* it is valued with
  Ranges,     \* raw ticks, with the spacing and the limits of the width
  Now

VARIABLE sample    \* the case that is computed

NoPrice == <<0, 1>>
Flip(p) == <<p[2], p[1]>>
Positive(p) == p[1] > 0
Below(p, q) == ~Leq(q, p)

Excluded == {"blockradar", "assetchain"}      \* FAIR_VALUE_EXCLUDED

-----------------------------------------------------------------------------
(* Quotes, one for each venue. A quote is the middle of the venue's pair and   *)
(* the volume of a day, Unheard where the venue reports none.                  *)

Unheard == -1
NoQuote == [pair |-> "none", mid |-> NoPrice, volume |-> Unheard]

(* The middle of a Quidax ticker, in dollars for a cNGN.                       *)
Ticker(buy, sell, last) ==
  LET once(p) == IF p > 0 THEN <<1, p>> ELSE NoPrice
  IN IF buy > 0 /\ sell > 0 THEN Times(Plus(once(sell), once(buy)), <<1, 2>>) ELSE once(last)

Normalized(quote) ==
  CASE quote.pair = "USDT/NGN" /\ Positive(quote.mid) -> Flip(quote.mid)
    [] quote.pair = "cNGN/USDC" /\ Positive(quote.mid) /\ Below(quote.mid, <<1, 1>>) ->
         quote.mid
    [] OTHER -> NoPrice

Fair(quotes) == {v \in DOMAIN quotes \ Excluded : Positive(Normalized(quotes[v]))}

Nobody == [worth |-> NoPrice, weight |-> 0]

Weighted(sum, item) ==
  [worth  |-> Plus(sum.worth, Times(item.price, <<item.weight, 1>>)),
   weight |-> sum.weight + item.weight]

Summed(items, counted) ==
  LET upTo[n \in 0..Len(items)] ==
        IF n = 0 THEN Nobody
        ELSE IF n \in counted THEN Weighted(upTo[n - 1], items[n])
        ELSE upTo[n - 1]
  IN upTo[Len(items)]

Mean(sum) == IF sum.weight = 0 THEN NoPrice ELSE Over(sum.worth, <<sum.weight, 1>>)

(* A venue without a volume has no say at all.                                 *)
Vwap(quotes) ==
  LET heard == SetToSeq({v \in Fair(quotes) : quotes[v].volume # Unheard})
  IN Mean(Summed([i \in DOMAIN heard |-> [price  |-> Normalized(quotes[heard[i]]),
                                         weight |-> quotes[heard[i]].volume]],
                 DOMAIN heard))

-----------------------------------------------------------------------------
(* Snapshots, in the order of their times. They carry no pair: the size of the *)
(* number tells a rate of the naira from a price of cNGN.                      *)

Guessed(source, mid) ==
  IF ~Positive(mid) THEN NoPrice
  ELSE CASE source = "bybit" \/ Below(<<100, 1>>, mid)  -> Flip(mid)
         [] source # "bybit" /\ Below(mid, <<1, 1>>)    -> mid
         [] OTHER                                      -> NoPrice

Within(snaps, from) == {i \in DOMAIN snaps : snaps[i].at >= from}

(* A snapshot weighs the time until the next one, whichever venue that is of,  *)
(* and at least a millisecond.                                                 *)
Duration(snaps, i, now) ==
  LET next == IF i < Len(snaps) THEN snaps[i + 1].at ELSE now
  IN IF next - snaps[i].at > 1 THEN next - snaps[i].at ELSE 1

Counts(snap) == snap.source \notin Excluded /\ Positive(Guessed(snap.source, snap.mid))

Timed(snaps, now) ==
  [i \in DOMAIN snaps |-> [price  |-> Guessed(snaps[i].source, snaps[i].mid),
                           weight |-> Duration(snaps, i, now)]]

TwapOfAll(snaps, from, now) ==
  Mean(Summed([i \in DOMAIN snaps |-> IF Counts(snaps[i]) THEN Timed(snaps, now)[i]
                                      ELSE [Timed(snaps, now)[i] EXCEPT !.price = NoPrice]],
              Within(snaps, from)))

Twap(snaps, from, now) ==
  Mean(Summed(Timed(snaps, now), {i \in Within(snaps, from) : Counts(snaps[i])}))

Or(p, q) == IF Positive(p) THEN p ELSE q

Blended(quotes, snaps, now) ==
  LET vwap == Vwap(quotes) IN
    [vwap |-> vwap, twap_5m |-> Or(Twap(snaps, now - 2, now), vwap),
     twap_1h |-> Or(Twap(snaps, now - 4, now), vwap)]

-----------------------------------------------------------------------------
(* The price the portfolio is valued with, or nothing.                         *)

Rate(quotes, snaps, now) ==
  LET b == Blended(quotes, snaps, now)
      bybit == quotes["bybit"].mid
  IN Or(b.vwap, Or(b.twap_5m, Or(b.twap_1h, Or(quotes["quidax"].mid,
       IF Positive(bybit) THEN Flip(bybit) ELSE NoPrice))))

(* A balance below zero is an answer that failed.                              *)
Balance(answers, token) ==
  LET upTo[n \in 0..Len(answers)] ==
        IF n = 0 THEN 0
        ELSE upTo[n - 1] + (IF answers[n][token] < 0 THEN 0 ELSE answers[n][token])
  IN upTo[Len(answers)]

DeltaRatio(answers, rate) ==
  LET worth == Times(<<Balance(answers, "cngn"), 1>>, rate)
      total == Plus(worth, <<Balance(answers, "stable"), 1>>)
  IN IF Positive(total) THEN Over(worth, total) ELSE NoPrice

-----------------------------------------------------------------------------
(* Ticks: rounded outwards, widened or narrowed around their middle, and       *)
(* rounded outwards again.                                                     *)

FloorTo(tick, spacing)   == (tick \div spacing) * spacing
CeilingTo(tick, spacing) == -FloorTo(-tick, spacing)

TickRange(lower, upper, spacing, min, max) ==
  LET l == FloorTo(lower, spacing)
      u == CeilingTo(upper, spacing)
      mid == (l + u) \div 2
      wide(w) == [lower |-> mid - w \div 2, upper |-> mid + w \div 2]
      range == IF u - l < min THEN wide(min)
               ELSE IF u - l > max THEN wide(max)
               ELSE [lower |-> l, upper |-> u]
  IN [lower |-> FloorTo(range.lower, spacing), upper |-> CeilingTo(range.upper, spacing)]

-----------------------------------------------------------------------------
(* What the figures are computed from. The naira is worth less than a dollar,   *)
(* as _normalize_single_price takes for granted of what is stored; Bybit quotes *)
(* the dollar in naira, every other venue cNGN in dollars.                      *)

Price == Nat \X (Nat \ {0})

IsPrice(venue, mid) ==
  mid \in Price /\ Positive(mid) /\ (venue # "bybit" => Below(mid, <<1, 1>>))

IsQuote(venue, quote) ==
  \/ quote = NoQuote
  \/ /\ quote.pair = IF venue = "bybit" THEN "USDT/NGN" ELSE "cNGN/USDC"
     /\ IsPrice(venue, quote.mid) /\ quote.volume \in Nat \cup {Unheard}

IsRange(r) ==
  /\ r.lower \in Int /\ r.upper \in Int /\ r.lower <= r.upper
  /\ r.spacing \in Nat \ {0} /\ r.min \in Nat \ {0} /\ r.max \in Nat
  /\ r.min <= r.max /\ r.min % 2 = 0

ASSUME FiguresAssumption ==
  /\ IsFiniteSet(Sources) /\ {"bybit", "quidax"} \subseteq Sources
  /\ \A q \in Quotes : DOMAIN q = Sources /\ \A v \in Sources : IsQuote(v, q[v])
  /\ \A s \in Snapshots :
       /\ s \in Seq([source : Sources, at : Int, mid : Price])
       /\ \A i \in DOMAIN s : IsPrice(s[i].source, s[i].mid)
  /\ Answers \subseteq Seq([cngn : Int, stable : Int]) /\ Rates \subseteq Price
  /\ \A r \in Ranges : IsRange(r)
  /\ Now \in Int

NoSample == [kind |-> "none"]

Samples ==
  {[kind |-> "rate", quotes |-> q, snaps |-> s] : q \in Quotes, s \in Snapshots} \cup
  {[kind |-> "share", answers |-> a, rate |-> r] : a \in Answers, r \in Rates} \cup
  {[kind |-> "ticks", range |-> r] : r \in Ranges}

-----------------------------------------------------------------------------
(* A price that was really quoted or stored, by its own meaning.               *)
Worth(source, mid) == IF source = "bybit" THEN Flip(mid) ELSE mid

PricesHeard(quotes, snaps) ==
  {Worth(v, quotes[v].mid) : v \in Fair(quotes)} \cup
  {Worth(snaps[i].source, snaps[i].mid) : i \in {j \in DOMAIN snaps : snaps[j].source \notin Excluded}}

(* The rate the portfolio is valued with lies between the lowest and the       *)
(* highest price a venue of the fair value has quoted or left in a snapshot.   *)
RateWithin(quotes, snaps, now) ==
  LET rate == Rate(quotes, snaps, now)
  IN Positive(rate) => \E p, q \in PricesHeard(quotes, snaps) : Leq(p, rate) /\ Leq(rate, q)

(* The share the delta limit is compared with is a share, whatever failed.     *)
RatioWithin(answers, rate) ==
  LET r == DeltaRatio(answers, rate) IN Leq(NoPrice, r) /\ Leq(r, <<1, 1>>)

(* A position can be minted on the ticks, is as wide as asked for, and no      *)
(* wider than the limit but for the rounding at both ends.                     *)
RangeUsable(raw) ==
  LET r == TickRange(raw.lower, raw.upper, raw.spacing, raw.min, raw.max) IN
    /\ r.lower % raw.spacing = 0 /\ r.upper % raw.spacing = 0 /\ r.lower < r.upper
    /\ r.upper - r.lower >= raw.min /\ r.upper - r.lower < raw.max + 2 * raw.spacing

(* What is computed from quotes, balances and prices stays within what it was   *)
(* computed from: the rate within the prices heard, the share within 0 and 1,   *)
(* the ticks within what was asked for.                                         *)
FiguresInRange ==
  CASE sample.kind = "none"  -> TRUE
    [] sample.kind = "rate"  -> RateWithin(sample.quotes, sample.snaps, Now)
    [] sample.kind = "share" -> RatioWithin(sample.answers, sample.rate)
    [] sample.kind = "ticks" -> RangeUsable(sample.range)

=============================================================================
