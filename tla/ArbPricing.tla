------------------------------ MODULE ArbPricing ------------------------------
(* What a trade of a given size would bring: walks through the levels of a      *)
(* CEX book and swaps against the cached state of a pool. Amounts are exact     *)
(* fractions <<n, d>>; the code's Decimals carry 28 digits. A book is a set of  *)
(* levels, a pool its two virtual reserves L/sqrtP and L*sqrtP.                 *)
EXTENDS Integers, SequencesExt

LOCAL Zero == <<0, 1>>
LOCAL One  == <<1, 1>>

Plus(a, b)  == IF a[2] = b[2] THEN <<a[1] + b[1], a[2]>>
                              ELSE <<a[1] * b[2] + b[1] * a[2], a[2] * b[2]>>
Minus(a, b) == Plus(a, <<-b[1], b[2]>>)
Times(a, b) == <<a[1] * b[1], a[2] * b[2]>>
Over(a, b)  == IF a[2] = b[2] THEN <<a[1], b[1]>> ELSE <<a[1] * b[2], a[2] * b[1]>>
Leq(a, b)   == a[1] * b[2] <= b[1] * a[2]
Least(a, b) == IF Leq(a, b) THEN a ELSE b

Kept(fee) == Minus(One, fee)

-----------------------------------------------------------------------------
(* The book: bids are walked from the highest price, asks from the lowest.     *)

Bids(book) == SetToSortSeq(book.bids, LAMBDA k, l : k.price > l.price)
Asks(book) == SetToSortSeq(book.asks, LAMBDA k, l : k.price < l.price)

(* What is left of the size when the book ends is not bought.                  *)
WalkBids(book, usd, fee) ==
  LET Take(w, l) ==
        LET sold == Least(w.left, <<l.amount, 1>>) IN
          [left |-> Minus(w.left, sold),
           got  |-> Plus(w.got, Times(sold, <<l.price, 1>>))]
  IN Times(FoldLeft(Take, [left |-> usd, got |-> Zero], Bids(book)).got, Kept(fee))

WalkAsks(book, cngn, fee) ==
  LET Take(w, l) ==
        LET level == <<l.amount * l.price, 1>> IN
          IF Leq(level, w.left)
            THEN [left |-> Minus(w.left, level), got |-> Plus(w.got, <<l.amount, 1>>)]
            ELSE [left |-> Zero, got |-> Plus(w.got, Over(w.left, <<l.price, 1>>))]
  IN Times(FoldLeft(Take, [left |-> cngn, got |-> Zero], Asks(book)).got, Kept(fee))

(* The walk of the bids inverted: the size whose cNGN fits in the wallet.      *)
MaxCexBuy(book, wallet, fee) ==
  LET Take(w, l) ==
        LET bought == Least(<<l.amount, 1>>, Over(w.left, <<l.price, 1>>)) IN
          [left |-> Minus(w.left, Times(bought, <<l.price, 1>>)),
           got  |-> Plus(w.got, bought)]
  IN FoldLeft(Take, [left |-> Over(wallet, Kept(fee)), got |-> Zero], Bids(book)).got

-----------------------------------------------------------------------------
(* The pool, within its present tick.                                          *)

Swapped(from, to, amount, fee) ==
  LET in == Times(amount, Kept(fee)) IN Over(Times(<<to, 1>>, in), Plus(<<from, 1>>, in))

SellCngn(pool, cngn) == Swapped(pool.cngn, pool.usd, cngn, pool.fee)
BuyCngn(pool, usd)   == Swapped(pool.usd, pool.cngn, usd, pool.fee)

-----------------------------------------------------------------------------
(* A trade: the cNGN its first leg buys and the dollars its second leg brings. *)

Trade(cngn, usd) == [cngn |-> cngn, usd |-> usd]

CexToDex(book, pool, fee, size) ==
  LET cngn == WalkBids(book, size, fee) IN Trade(cngn, SellCngn(pool, cngn))

DexToCex(book, pool, fee, size) ==
  LET cngn == BuyCngn(pool, size) IN Trade(cngn, WalkAsks(book, cngn, fee))

DexToDex(from, to, size) ==
  LET cngn == BuyCngn(from, size) IN Trade(cngn, SellCngn(to, cngn))

Profit(trade, size) == Minus(trade.usd, size)

=============================================================================
