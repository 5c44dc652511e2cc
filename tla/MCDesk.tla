------------------------------- MODULE MCDesk --------------------------------
(* Four machines of the trading desk that share no state, checked side by side: *)
(* a behaviour runs one of them while the others stay parked. A fifth part has  *)
(* no steps: it starts in every case of the market figures.                     *)
EXTENDS ArbSizing, ArbPricing, RiskGate, PoolVolume, MarketFigures

CONSTANTS Amounts, MinStable, MaxMoves, MaxFaults

VARIABLES part,
  wallet, figure, flagged, cached, reading, seeded, approved, moves, faults

DexVenues == {"uni-base", "uni-bsc"}
MCProfits == {-1, 1}
MCSwaps   == <<"s1", "s2", "s3">>

Wallets == INSTANCE WalletFigures WITH Venues <- DexVenues

-----------------------------------------------------------------------------
(* The curves and the caps of the sizing machine, priced on one book and two   *)
(* pools in two states.                                                        *)

MCBook == [bids |-> {[price |-> 3, amount |-> 2], [price |-> 2, amount |-> 3]},
           asks |-> {[price |-> 2, amount |-> 4], [price |-> 4, amount |-> 2]}]
MCFee  == <<1, 10>>
MCPool(usd, cngns, fee) == [usd |-> usd, cngn |-> cngns, fee |-> fee]
MCMarkets ==
  {[bsc |-> MCPool(20, 60, <<0, 1>>), base |-> MCPool(40, 60, MCFee)],
   [bsc |-> MCPool(20, 40, <<0, 1>>), base |-> MCPool(20, 60, MCFee)]}

MCTrade(m, d, x) ==
  CASE d = "QUIDAX_TO_UNI_BASE"  -> CexToDex(MCBook, m.base, MCFee, <<x, 1>>)
    [] d = "UNI_BASE_TO_QUIDAX"  -> DexToCex(MCBook, m.base, MCFee, <<x, 1>>)
    [] d = "UNI_BSC_TO_UNI_BASE" -> DexToDex(m.bsc, m.base, <<x, 1>>)
    [] d = "UNI_BASE_TO_UNI_BSC" -> DexToDex(m.base, m.bsc, <<x, 1>>)

Floor(q)   == q[1] \div q[2]
Ceiling(q) == -((-q[1]) \div q[2])

MCCurve == [m \in MCMarkets |-> [d \in Directions |-> [x \in 0..9 |->
              Floor(Times(<<100, 1>>, MCTrade(m, d, x).usd)) - 100 * x]]]
MCNeed  == [m \in MCMarkets |-> [d \in Directions |-> [x \in 0..9 |->
              Ceiling(MCTrade(m, d, x).cngn)]]]
MCPurses == {0, 3, 8}
MCBuyCap == [m \in MCMarkets |-> [c \in MCPurses |->
              Floor(MaxCexBuy(MCBook, <<c, 1>>, MCFee))]]

-----------------------------------------------------------------------------
(* Cases of the figures: quotes and snapshots for the rate, answers of two      *)
(* wallets for the share, and raw ticks for the range.                          *)

MCBybit == {NoQuote} \cup
  {[pair |-> "USDT/NGN", mid |-> <<3, 1>>, volume |-> v] : v \in {Unheard, 2}}
MCPrice(mid) == {NoQuote} \cup
  {[pair |-> "cNGN/USDC", mid |-> mid, volume |-> v] : v \in {Unheard, 0, 2}}
MCTicker == Ticker(4, 5, 4)
MCQuotes ==
  {[v \in Sources |->
      CASE v = "bybit" -> b [] v = "quidax" -> q [] v = "uni-base" -> u
        [] v = "assetchain" -> [pair |-> "cNGN/USDC", mid |-> <<1, 2>>, volume |-> 2]] :
     b \in MCBybit, q \in MCPrice(MCTicker), u \in MCPrice(<<1, 4>>)}

MCSnap == [source : {"bybit", "uni-base", "assetchain"}, at : {0, 1, 3}]
MCStored(s) == [source |-> s.source, at |-> s.at,
                mid |-> CASE s.source = "bybit" -> <<4, 1>>
                          [] s.source = "uni-base" -> <<1, 4>>
                          [] s.source = "assetchain" -> <<1, 3>>]
MCSnaps == {<<>>} \cup {<<MCStored(s)>> : s \in MCSnap} \cup
  {<<MCStored(st[1]), MCStored(st[2])>> : st \in {x \in MCSnap \X MCSnap : x[1].at <= x[2].at}}

MCAnswer  == [cngn : {-1, 0, 2}, stable : {-1, 0, 2}]
MCAnswers == {<<a, b>> : a, b \in MCAnswer}
MCRates   == {NoPrice, <<1, 100>>, <<3, 2>>}
MCRanges  == {[lower |-> t, upper |-> t + w, spacing |-> 3, min |-> m, max |-> 12] :
                t \in -7..7, w \in 0..20, m \in {4, 6}}

-----------------------------------------------------------------------------
AnyMarket == CHOOSE m \in MCMarkets : TRUE
Rest(value) == [d \in Directions |-> value]

SizingParked ==
  /\ pipeline = "cex_dex" /\ market = AnyMarket /\ stable = Rest(0) /\ cngn = Rest(0)
  /\ phase = "done" /\ todo = <<>> /\ low = 0 /\ high = 0
  /\ dead = {} /\ cands = <<>> /\ scored = {} /\ chosen = NoRoute

(* One direction's wallets differ at a time.                                   *)
SizingStart ==
  /\ SizingInit
  /\ \E d \in Directions :
       \A e \in Directions \ {d} : stable[e] = 8 /\ cngn[e] = 8

MCInit ==
  /\ part \in {"sizing", "wallets", "gate", "pool", "figures"}
  /\ IF part = "sizing" THEN SizingStart ELSE SizingParked
  /\ Wallets!WalletInit
  /\ \A v \in DexVenues : wallet[v].stable = 1 /\ wallet[v].cngn = 1
  /\ GateInit
  /\ PoolInit
  /\ sample \in IF part = "figures" THEN Samples ELSE {NoSample}

walletVars == <<wallet, figure, flagged, cached, reading, seeded, approved, moves, faults>>
mcVars     == <<part, sizingVars, walletVars, gateVars, poolVars, sample>>

MCNext ==
  \/ /\ part = "sizing" /\ SizingNext
     /\ UNCHANGED <<part, sample, walletVars, gateVars, poolVars>>
  \/ /\ part = "wallets" /\ Wallets!WalletNext
     /\ UNCHANGED <<part, sample, sizingVars, gateVars, poolVars>>
  \/ /\ part = "gate" /\ GateNext
     /\ UNCHANGED <<part, sample, sizingVars, walletVars, poolVars>>
  \/ /\ part = "pool" /\ PoolNext
     /\ UNCHANGED <<part, sample, sizingVars, walletVars, gateVars>>

MCSpec ==
  /\ MCInit /\ [][MCNext]_mcVars
  /\ WF_walletVars(part = "wallets" /\ Wallets!Check)
  /\ WF_walletVars(part = "wallets" /\ Wallets!DepthTick)
  /\ WF_walletVars(part = "wallets" /\ Wallets!SeedWrite)
  /\ WF_walletVars(part = "wallets" /\ Wallets!RefreshWrite)

-----------------------------------------------------------------------------
(* Figures and flags of the wallets come to be what the wallets hold.           *)
FiguresCatchUp == part = "wallets" => Wallets!FiguresCatchUp

=============================================================================
