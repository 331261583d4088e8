--------------------------- MODULE VirtualPosition ---------------------------
(***************************************************************************)
(* The inventory behind the virtual position (virtual/position.ts), what   *)
(* moving it costs (decision/costs.ts) and what it is compared with        *)
(* (virtual/benchmarks.ts): the arithmetic that ShadowStrategy leaves out. *)
(*                                                                         *)
(* Amounts are integers.  A bin is given whole units of base, and quote    *)
(* that buys whole units at the price of the bin, so that every conversion *)
(* of markPosition is exact; what does not divide is left in the reserve,  *)
(* where allocatePosition puts whatever it did not deploy.                 *)
(***************************************************************************)
EXTENDS ShadowStrategy, FiniteSetsExt

CONSTANTS
  Price,      \* Price[b]: the price of bin b, as binPrice draws it
  Root,       \* Root[b]: its square root, up to a common factor
  Weight,     \* Weight[shape][d]: share of a bin at distance d, as shapeWeight draws it
  Slippage,   \* params.quoteSlippageBps, in percent
  TxCount,    \* transactions of a REBALANCE, a COMPOUND, an EXIT
  Recapture   \* expectedRecapture7d, in percent of what the APR yields in a year

NoQuote == -1  \* a number of CostInputs, or a signal, that is null

Shape == DOMAIN Weight

(* Shares of the inventory policy, in fourths                              *)
Policy == {p \in [base : 0..4, quote : 0..4] : p.base + p.quote <= 4}

Balanced == [base |-> 2, quote |-> 2]

Positive(x) == Max({0, x})

-----------------------------------------------------------------------------
(* Distributing a value over bins *)

ShapeWeight(shape, distance) == Weight[shape][distance]

(* The active bin is given half of the weight on each side.                *)
QuoteWeight(shape, bin, active) ==
  CASE bin < active -> ShapeWeight(shape, active - bin)
    [] bin = active -> ShapeWeight(shape, 0) \div 2
    [] bin > active -> 0

BaseWeight(shape, bin, active) == QuoteWeight(shape, active, bin)

Share(budget, weight, total) == IF total = 0 THEN 0 ELSE (budget * weight) \div total

(* What the policy lets each side have of a value                          *)
Budget(value, policy) ==
  [quote |-> (value * policy.quote) \div 4, base |-> (value * policy.base) \div 4]

Distribute(lower, upper, active, budget, shape) ==
  LET bins  == lower..upper
      quote == SumFunction([b \in bins |-> QuoteWeight(shape, b, active)])
      base  == SumFunction([b \in bins |-> BaseWeight(shape, b, active)])
      QuoteOf(b) == Share(budget.quote, QuoteWeight(shape, b, active), quote)
      BaseOf(b)  == Share(budget.base, BaseWeight(shape, b, active), base)
  IN  [b \in bins |-> [quote |-> (QuoteOf(b) \div Price[b]) * Price[b],
                       base  |-> BaseOf(b) \div Price[active]]]

Base(bins) == SumFunction([b \in DOMAIN bins |-> bins[b].base])

Quote(bins) == SumFunction([b \in DOMAIN bins |-> bins[b].quote])

Placed(position, bins) ==
  [position EXCEPT !.bins = bins, !.base = Base(bins), !.quote = Quote(bins)]

Deploy(position, active, budget, shape) ==
  Placed(position, Distribute(position.lower, position.upper, active, budget, shape))

Undeployed(position, active, value) == value - position.base * Price[active] - position.quote

(* Mutation of Allocate: what an earlier allocation kept back is added.    *)
AllocateOnTop(position, active, value, shape, policy) ==
  LET Reserve(deployed) == [deployed EXCEPT !.reserve = @ + Undeployed(deployed, active, value)]
  IN  Reserve(Deploy(position, active, Budget(value, policy), shape))

Allocate(position, active, value, shape, policy) ==
  LET Reserve(deployed) ==
        [deployed EXCEPT !.reserve = Positive(Undeployed(deployed, active, value))]
  IN  Reserve(Deploy(position, active, Budget(value, policy), shape))

Inventory(position, active) ==
  position.base * Price[active] + position.quote + position.reserve

Nav(position, active) == Inventory(position, active) + position.pending

-----------------------------------------------------------------------------
(* The life of a position *)

(* NoPosition, with its inventory and what it has cost                     *)
Unfunded == [status |-> "NONE", lower |-> 0, upper |-> 0, pending |-> 0, fees |-> 0,
             openedAt |-> Never, oorSince |-> Never,
             bins |-> <<>>, base |-> 0, quote |-> 0, reserve |-> 0, costs |-> 0]

(* A width of 0 is the one of the strategy.                                *)
Half(width) == IF width = 0 THEN HalfWidth ELSE width \div 2

OpenFunded(now, active, width, funds, shape, policy) ==
  Allocate([Unfunded EXCEPT !.status = "ACTIVE", !.openedAt = now,
                            !.lower = active - Half(width), !.upper = active + Half(width)],
           active, funds, shape, policy)

(* Mutation of Convert: at the price of the market.                        *)
ConvertAtMarket(bins, active) ==
  [b \in DOMAIN bins |->
     CASE b < active -> [base |-> 0, quote |-> bins[b].quote + bins[b].base * Price[active]]
       [] b > active -> [base |-> bins[b].base + bins[b].quote \div Price[active], quote |-> 0]
       [] b = active -> bins[b]]

(* A bin the price has crossed is converted at its own price.              *)
Convert(bins, active) ==
  [b \in DOMAIN bins |->
     CASE b < active -> [base |-> 0, quote |-> bins[b].quote + bins[b].base * Price[b]]
       [] b > active -> [base |-> bins[b].base + bins[b].quote \div Price[b], quote |-> 0]
       [] b = active -> bins[b]]

MarkFunded(position, now, active) ==
  IF position.status = "EXITED" THEN position
  ELSE Placed(MarkPosition(position, now, active), Convert(position.bins, active))

OurLiquidity(position, active) ==
  IF position.status = "EXITED" \/ active \notin DOMAIN position.bins THEN 0
  ELSE position.bins[active].base * Price[active] + position.bins[active].quote

(* liq is what the others have in the active bin.                          *)
FeesTick(position, active, liq, fees) ==
  LET ours == OurLiquidity(position, active)
  IN  IF ours = 0 THEN 0 ELSE (ours * fees) \div (liq + ours)

AccrueFunded(position, active, liq, fees) ==
  AccrueFees(position, active, FeesTick(position, active, liq, fees))

Charge(position, cost) == [position EXCEPT !.costs = @ + cost]

(* Mutation of Remainder: the pending fees are paid out once more.         *)
RemainderTwice(position, active, cost) ==
  Positive(Nav(position, active) + position.pending - cost)

Remainder(position, active, cost) == Positive(Nav(position, active) - cost)

CompoundFunded(position, active, cost, shape, policy) ==
  Allocate(Charge(ApplyCompound(position), cost), active,
           Remainder(position, active, cost), shape, policy)

RebalanceFunded(position, active, cost, shape, policy) ==
  Allocate(Charge(ApplyRebalance(position, active), cost), active,
           Remainder(position, active, cost), shape, policy)

(* Half of a BALANCED exit is base, as far as it buys whole units.         *)
ExitFunded(position, active, cost, target) ==
  LET value == Remainder(position, active, cost)
      base  == IF target = "BALANCED" THEN (value \div 2) \div Price[active] ELSE 0
  IN  [Charge(ApplyExit(position), cost) EXCEPT
         !.bins = <<>>, !.base = base, !.quote = value - base * Price[active], !.reserve = 0]

-----------------------------------------------------------------------------
(* Buyers *)

SellBins(position, active) == {b \in DOMAIN position.bins : b >= active /\ position.bins[b].base > 0}

Capacity(position, bins) == SumFunction([b \in bins |-> position.bins[b].base * Price[b]])

(* simulateBuyerSwap, what each bin sells: the lower ones sell first.      *)
Fill(position, active, order, bin) ==
  LET cheaper == {b \in SellBins(position, active) : b < bin}
  IN  Min({position.bins[bin].base * Price[bin], Positive(order - Capacity(position, cheaper))})

Filled(position, active, order) ==
  SumFunction([b \in SellBins(position, active) |-> Fill(position, active, order, b)])

(* What the bin charges above limit percent over the active price, times   *)
(* a hundred times the highest price of the range, which all others divide. *)
Excess(position, active, bin, limit) ==
  LET highest == Price[position.upper]
  IN  100 * highest - (100 + limit) * Price[active] * (highest \div Price[bin])

(* The average price paid exceeds the active one by at most limit percent. *)
WithinAverage(position, active, order, limit) ==
  SumFunction([b \in SellBins(position, active) |->
                 Fill(position, active, order, b) * Excess(position, active, b, limit)]) <= 0

(* Mutation of Depth: bins above the limit are counted.                    *)
DepthUnlimited(position, active, limit) == Capacity(position, SellBins(position, active))

(* buyDepthWithinPriceImpact                                               *)
Depth(position, active, limit) ==
  Capacity(position, {b \in SellBins(position, active) :
                        100 * Price[b] <= (100 + limit) * Price[active]})

(* The bisection of buyCapacityAtAverageImpact on whole orders: low is     *)
(* within the limit, high is not.                                          *)
Bisect(position, active, limit, total) ==
  LET search[span \in [low : 0..total, high : 0..total]] ==
        LET middle == (span.low + span.high) \div 2
        IN  IF span.high - span.low <= 1 THEN span.low
            ELSE IF WithinAverage(position, active, middle, limit)
                 THEN search[[span EXCEPT !.low = middle]]
                 ELSE search[[span EXCEPT !.high = middle]]
  IN  search[[low |-> 0, high |-> total]]

AverageCapacity(position, active, limit) ==
  LET total == Capacity(position, SellBins(position, active))
  IN  IF WithinAverage(position, active, total, limit) THEN total
      ELSE Bisect(position, active, limit, total)

-----------------------------------------------------------------------------
(* Costs *)

(* notional in, out and impact as the quote said, fee of a transaction,    *)
(* rent of the bin arrays a rebalance has to create.                       *)
CostInputs == [notional : Nat, out : Int, impact : Int, fee : Nat, rent : Nat]

SwapCost(inputs) ==
  CASE inputs.out # NoQuote -> Positive(inputs.notional - inputs.out)
    [] inputs.out = NoQuote /\ inputs.impact # NoQuote ->
         Positive((inputs.notional * inputs.impact) \div 100)
    [] OTHER -> (inputs.notional * Slippage) \div 100

EstimateCost(kind, inputs) ==
  (IF kind = "COMPOUND" THEN 0 ELSE SwapCost(inputs))
    + TxCount[kind] * inputs.fee
    + (IF kind = "REBALANCE" THEN inputs.rent ELSE 0)

(* Gate e: apr is poolFeeAprProxy in percent; the multiple of the cost is  *)
(* part of Recapture.                                                      *)
Covered(position, active, apr, inputs) ==
  /\ apr # NoQuote
  /\ (Nav(position, active) * apr * Recapture) \div 10000 >= EstimateCost("REBALANCE", inputs)

-----------------------------------------------------------------------------
(* Benchmarks *)

InitBenchmarks(active, funds, baseShare) ==
  LET base == ((funds * baseShare) \div 4) \div Price[active]
  IN  [base |-> base, quote |-> funds - base * Price[active], funds |-> funds,
       anchor |-> active, fees |-> 0]

HodlValue(benchmarks, active) == benchmarks.base * Price[active] + benchmarks.quote

FullRangeValue(benchmarks, active) ==
  (benchmarks.funds * Root[active]) \div Root[benchmarks.anchor]

CreditFullRangeFees(benchmarks, active, tvl, fees) ==
  IF tvl = 0 THEN benchmarks
  ELSE [benchmarks EXCEPT
          !.fees = @ + (Min({FullRangeValue(benchmarks, active), tvl}) * fees) \div tvl]

=============================================================================
