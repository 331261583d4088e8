------------------------------- MODULE Replay -------------------------------
(***************************************************************************)
(* Replays (replay/replay.ts; service/replay.ts): the pure engine over the *)
(* stored snapshots of one pool, once for each variant.  The runs share    *)
(* nothing but the rows they read, and are stepped together here, so that  *)
(* they can be compared row by row.  The time of a row is its number.      *)
(***************************************************************************)
EXTENDS VirtualPosition, Sequences

CONSTANTS
  Rows,      \* what a stored snapshot may hold
  Variants,  \* the variants of one replay
  Funds,     \* params.virtualNavUsd, the pool's own size
  Limits,    \* buyer impacts, in percent
  MaxRows    \* bound: rows that are replayed

(* A row: active bin, interval fees, volume/TVL, TVL, liquidity of others  *)
(* in the active bin, fee APR and cost inputs; 0 stands for no fees and    *)
(* for no TVL.                                                             *)
Row == [bin : DOMAIN Price, fees : Nat, volume : Volume, tvl : Nat, liq : Nat, apr : Int,
        costs : CostInputs]

(* 0 stands for a guard, width or exit that a variant does not set.        *)
Variant == [shape : Shape, policy : Policy, guard : Nat, delay : Nat, anchored : BOOLEAN,
            hodl : 0..4, entryCost : Nat, stop : 0..99, trail : 0..99, hold : Nat,
            target : {"BALANCED", "QUOTE"}, atStart : BOOLEAN, width : Nat, passive : BOOLEAN]

(* The variant of loadVariants: no field but its parameters is set.        *)
Default == [shape |-> "SPOT", policy |-> Balanced, guard |-> 0, delay |-> 0, anchored |-> FALSE,
            hodl |-> 2, entryCost |-> 0, stop |-> 0, trail |-> 0, hold |-> 0,
            target |-> "BALANCED", atStart |-> FALSE, width |-> 0, passive |-> FALSE]

(* What the constants have to be, with the checks runVariant starts with:  *)
(* assumed by whoever instantiates this.  Prices and weights are given as  *)
(* far as a position may reach.                                            *)
ReplayAssumption ==
  /\ \A row \in Rows : row \in Row
  /\ \A v \in Variants : v \in Variant /\ (v.width = 0 \/ v.width % 2 = 1)
  /\ Funds \in Nat /\ MaxRows \in Nat /\ Slippage \in Nat /\ Limits \subseteq Nat
  /\ TxCount \in [{"REBALANCE", "COMPOUND", "EXIT"} -> Nat]
  /\ DOMAIN Price \subseteq Int
  /\ \E low, high \in DOMAIN Price : Price \in [low..high -> Nat \ {0}]
  /\ \A b, c \in DOMAIN Price : b < c => Price[c] % Price[b] = 0 /\ Price[b] < Price[c]
  /\ \A row \in Rows, half \in {HalfWidth} \cup {Half(v.width) : v \in Variants} :
       {row.bin - half, row.bin + half} \subseteq DOMAIN Price
  /\ \A v \in Variants : \E reach \in DOMAIN Weight[v.shape] :
       /\ reach \in Nat /\ reach >= 2 * HalfWidth /\ reach >= v.width
       /\ Weight[v.shape] \in [0..reach -> Nat]

VARIABLES
  played,   \* rows replayed
  signals,  \* the regime state: the rows determine it
  runs      \* runs[v]: the locals of runVariant(v)

vars == <<played, signals, runs>>

Created == 1  \* poolCreatedAtMs, by default the time of the first row

NoBenchmarks == [funds |-> 0]

NoMarks == [hodl |-> 0, fullRange |-> 0, strategy |-> 0]

(* last is the bin of the last mark.  history: basket is what the latest   *)
(* allocation put in, gain what marking has added to the inventory.        *)
NewRun == [position |-> Unfunded, bench |-> NoBenchmarks, peak |-> 0,
           marks |-> NoMarks, events |-> <<>>, last |-> 0,
           basket |-> [base |-> 0, quote |-> 0], gain |-> 0]

Kinds == {"COMPOUND", "REBALANCE", "EXIT", "EXPLICIT_EXIT", "SUPPRESSED_REBALANCE"}

TypeOK ==
  /\ played \in 0..MaxRows
  /\ signals \in Regime
  /\ \A v \in Variants :
       /\ {runs[v].position.pending, runs[v].position.fees, runs[v].position.costs,
           runs[v].peak} \subseteq Nat
       /\ \A i \in DOMAIN runs[v].events : runs[v].events[i] \in [ts : Nat, kind : Kinds]

Init ==
  /\ played = 0
  /\ signals = InitRegime
  /\ runs = [v \in Variants |-> NewRun]

-----------------------------------------------------------------------------
(* Before the position is open *)

AnchorBenchmarks(v, benchmarks, row) ==
  IF ~v.anchored THEN benchmarks
  ELSE CreditFullRangeFees(IF benchmarks = NoBenchmarks
                           THEN InitBenchmarks(row.bin, Funds, v.hodl) ELSE benchmarks,
                           row.bin, row.tvl, row.fees)

Waits(v, position, regime, now) ==
  /\ position.status = "NONE"
  /\ (~VolReliable(regime) /\ ~v.atStart) \/ now < Created + v.delay

Marks(benchmarks, bin, strategy) ==
  [hodl |-> HodlValue(benchmarks, bin),
   fullRange |-> FullRangeValue(benchmarks, bin) + benchmarks.fees,
   strategy |-> strategy]

Wait(v, run, benchmarks, row) ==
  [run EXCEPT !.bench = benchmarks,
              !.marks = IF benchmarks = NoBenchmarks THEN @ ELSE Marks(benchmarks, row.bin, Funds)]

Opened(v, position, row, now) ==
  IF position.status # "NONE" THEN position
  ELSE Charge(OpenFunded(now, row.bin, v.width, Positive(Funds - v.entryCost), v.shape, v.policy),
              v.entryCost)

(* Mutation of Credited: whatever was credited before the row opened.      *)
CreditedAgain(v, benchmarks, row) ==
  CreditFullRangeFees(IF benchmarks = NoBenchmarks THEN InitBenchmarks(row.bin, Funds, v.hodl)
                      ELSE benchmarks, row.bin, row.tvl, row.fees)

Credited(v, benchmarks, row) ==
  IF v.anchored THEN benchmarks
  ELSE CreditFullRangeFees(IF benchmarks = NoBenchmarks THEN InitBenchmarks(row.bin, Funds, v.hodl)
                           ELSE benchmarks, row.bin, row.tvl, row.fees)

-----------------------------------------------------------------------------
(* Deciding *)

StopLoss(v, nav) == v.stop # 0 /\ 100 * nav <= Funds * (100 - v.stop)

Trailing(v, nav, peak) == v.trail # 0 /\ peak > 0 /\ 100 * nav <= peak * (100 - v.trail)

MaxHold(v, position, now) == v.hold # 0 /\ now - position.openedAt >= v.hold

ExplicitExit(v, position, nav, peak, now) ==
  /\ position.status = "ACTIVE"
  /\ StopLoss(v, nav) \/ Trailing(v, nav, peak) \/ MaxHold(v, position, now)

(* Mutation of Suppressed: the guard holds everything.                     *)
SuppressedAll(v, kind, now) == now < Created + v.guard /\ kind # "HOLD"

(* applyLaunchGuard                                                        *)
Suppressed(v, kind, now) == now < Created + v.guard /\ kind = "REBALANCE"

RawDecision(v, position, regime, row, now) ==
  IF v.passive THEN "HOLD"
  ELSE Decide(position, regime, now, row.bin, Covered(position, row.bin, row.apr, row.costs))

ApplyDecision(v, position, kind, row) ==
  LET cost == EstimateCost(kind, row.costs)
  IN  CASE kind = "COMPOUND"  -> CompoundFunded(position, row.bin, cost, v.shape, v.policy)
        [] kind = "REBALANCE" -> RebalanceFunded(position, row.bin, cost, v.shape, v.policy)
        [] kind = "EXIT"      -> ExitFunded(position, row.bin, cost, "BALANCED")
        [] kind = "EXPLICIT_EXIT" ->
             ExitFunded(position, row.bin, EstimateCost("EXIT", row.costs), v.target)
        [] OTHER -> position

Happened(events, now, kind) ==
  IF kind = "HOLD" THEN events ELSE Append(events, [ts |-> now, kind |-> kind])

Guarded(v, kind, now) == IF Suppressed(v, kind, now) THEN "SUPPRESSED_REBALANCE" ELSE kind

Chosen(v, run, regime, row, now) ==
  IF ExplicitExit(v, run.position, Nav(run.position, row.bin), run.peak, now)
  THEN "EXPLICIT_EXIT"
  ELSE Guarded(v, RawDecision(v, run.position, regime, row, now), now)

-----------------------------------------------------------------------------
(* The rest of the loop body *)

Basket(position) == [base |-> position.base, quote |-> position.quote + position.reserve]

(* Marked and accrued: opened is the position the row started with, which  *)
(* it may have opened itself.                                              *)
Marked(run, opened, accrued, bench, row) ==
  LET opens == run.position.status = "NONE"
  IN  [run EXCEPT !.position = accrued,
                  !.bench    = bench,
                  !.peak     = Max({@, Nav(accrued, row.bin)}),
                  !.last     = row.bin,
                  !.basket   = IF opens THEN Basket(opened) ELSE @,
                  !.gain     = @ + Inventory(accrued, row.bin)
                                 - Inventory(opened, IF opens THEN row.bin ELSE run.last)]

(* Applied and recorded.                                                   *)
Recorded(run, kind, applied, row, now) ==
  [run EXCEPT !.position = applied,
              !.marks    = Marks(run.bench, row.bin, Nav(applied, row.bin)),
              !.events   = Happened(@, now, kind),
              !.basket   = IF kind \in {"HOLD", "SUPPRESSED_REBALANCE"} THEN @
                           ELSE Basket(applied)]

PlayRow(v, run, benchmarks, regime, row, now) ==
  LET opened  == Opened(v, run.position, row, now)
      accrued == AccrueFunded(MarkFunded(opened, now, row.bin), row.bin, row.liq, row.fees)
      Close(marked, kind) ==
        Recorded(marked, kind, ApplyDecision(v, marked.position, kind, row), row, now)
      Proceed(marked) == Close(marked, Chosen(v, marked, regime, row, now))
  IN  Proceed(Marked(run, opened, accrued, Credited(v, benchmarks, row), row))

RunRow(v, run, regime, row, now) ==
  LET benchmarks == AnchorBenchmarks(v, run.bench, row)
  IN  IF Waits(v, run.position, regime, now) THEN Wait(v, run, benchmarks, row)
      ELSE PlayRow(v, run, benchmarks, regime, row, now)

-----------------------------------------------------------------------------

Replayed(row) ==
  /\ played < MaxRows
  /\ played' = played + 1
  /\ signals' = UpdateRegime(signals, played', row.bin, row.volume)
  /\ runs' = [v \in Variants |-> RunRow(v, runs[v], signals', row, played')]

Next == \E row \in Rows : Replayed(row)

Spec == Init /\ [][Next]_vars

-----------------------------------------------------------------------------
(* Correctness *)

IsOpen(v) == runs[v].position.status # "NONE"

ExitKinds == {"EXIT", "EXPLICIT_EXIT"}

Exits(v) == {i \in DOMAIN runs[v].events : runs[v].events[i].kind \in ExitKinds}

(* The reported NAV is the starting funds, less every cost and plus every  *)
(* fee that was counted, plus what the market added: no compound, entry,   *)
(* rebalance or exit makes value or loses it, the reserve included, and a  *)
(* position that cost more than it held is worth nothing (positionNavUsd   *)
(* through every apply* of position.ts).                                   *)
BooksBalance ==
  \A v \in Variants : IsOpen(v) =>
    runs[v].marks.strategy =
      Positive(Funds + runs[v].gain + runs[v].position.fees - runs[v].position.costs)

(* Impermanent loss is never a gain: however often the price crosses its   *)
(* bins and comes back, the inventory is worth no more than what was last  *)
(* allocated, held untouched ("This is where impermanent loss comes from", *)
(* position.ts:215-219).                                                   *)
NeverBeatsHolding ==
  \A v \in Variants : IsOpen(v) =>
    Inventory(runs[v].position, runs[v].last)
      <= runs[v].basket.base * Price[runs[v].last] + runs[v].basket.quote

(* The launch guard delays no exit (launchGuard.ts:16-21, "Compounding and *)
(* founder-directed exits remain available"): a variant exits on the same  *)
(* row with and without it, unless a NAV that the held rebalance changed   *)
(* decides.                                                                *)
GuardDelaysNoExit ==
  \A v, w \in Variants :
    v.stop = 0 /\ v.trail = 0 /\ w = [v EXCEPT !.guard = w.guard]
      => {runs[v].events[i].ts : i \in Exits(v)} = {runs[w].events[i].ts : i \in Exits(w)}

SeededAt(v) == IF v.anchored THEN Created ELSE runs[v].position.openedAt

(* Benchmarks are the pool's, not the strategy's: two runs that drew them  *)
(* from the same row agree on them for good, whether they waited, traded   *)
(* or left in between, and no interval is credited twice                   *)
(* (benchmarkCredited).                                                    *)
BenchmarksAgree ==
  \A v, w \in Variants :
    /\ v.hodl = w.hodl
    /\ runs[v].bench # NoBenchmarks /\ runs[w].bench # NoBenchmarks
    /\ SeededAt(v) = SeededAt(w)
    => runs[v].bench = runs[w].bench

(* What buyers are promised is there: an order within the depth fills,     *)
(* costs no more than its impact on average, and is within the capacity,   *)
(* which no larger order is (buyDepthWithinPriceImpact and                 *)
(* buyCapacityAtAverageImpact against simulateBuyerSwap).                  *)
DepthIsHonest ==
  \A v \in Variants, limit \in Limits :
    runs[v].position.status = "ACTIVE" =>
      LET p == runs[v].position
          bin == runs[v].last
          depth == Depth(p, bin, limit)
          most == AverageCapacity(p, bin, limit)
      IN  /\ Filled(p, bin, depth) = depth
          /\ WithinAverage(p, bin, depth, limit)
          /\ depth <= most
          /\ WithinAverage(p, bin, most, limit)
          /\ Filled(p, bin, most + 1) = most + 1 => ~WithinAverage(p, bin, most + 1, limit)

=============================================================================
