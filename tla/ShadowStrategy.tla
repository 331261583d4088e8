--------------------------- MODULE ShadowStrategy ---------------------------
(***************************************************************************)
(* The pure layer of the shadow loop: the regime signals                   *)
(* (signals/regime.ts), the virtual position (virtual/position.ts) and the *)
(* decision engine (decision/engine.ts).                                   *)
(*                                                                         *)
(* A price is the active bin it is read from, fees are counted in units,   *)
(* and the inventory of the bins is left out: no decision reads it except  *)
(* through the fees it earns.                                              *)
(***************************************************************************)
EXTENDS Integers, FiniteSets

CONSTANTS
  HalfWidth,    \* bins on each side of a planned range
  OorDwell,     \* params.oorDwellMin
  Overshoot,    \* bins past the edge at which params.edgeOvershootPct is reached
  SettleTime,   \* params.settleMin
  SettleBand,   \* bins that params.settleBandPct * 2 spans
  ExitDwell,    \* params.volTvlDwellHours
  MinFees,      \* threshold of the COMPOUND gate
  MinSamples    \* params.volMinSamples

ASSUME StrategyAssumption ==
  {HalfWidth, OorDwell, Overshoot, SettleTime, SettleBand, ExitDwell, MinFees,
   MinSamples} \subseteq Nat

Never == 0  \* a timestamp that is null; the clock starts later

Volume == {"low", "healthy", "unknown"}  \* volume/TVL against its floor

-----------------------------------------------------------------------------
(* Regime *)

Sample == [ts : Nat, bin : Int]

(* seen is the number of prices folded into the volatility estimate, as    *)
(* far as the estimate's reliability depends on it.                        *)
Regime == [window : SUBSET Sample, lowSince : Nat, seen : Nat]

InitRegime == [window |-> {}, lowSince |-> Never, seen |-> 0]

Recent(samples, now) ==
  {x \in samples : x.ts >= now - 2 * (IF SettleTime > 1 THEN SettleTime ELSE 1)}

OneMore(seen) == IF seen <= MinSamples THEN seen + 1 ELSE seen

(* The first price yields no return.                                       *)
VolReliable(regime) == regime.seen > MinSamples

(* Mutation of LowSince: missing data clears the exit clock.               *)
LowSinceKnown(since, volume, now) ==
  CASE volume = "low"    -> IF since = Never THEN now ELSE since
    [] volume # "low"    -> Never

LowSince(since, volume, now) ==
  CASE volume = "unknown" -> since
    [] volume = "low"     -> IF since = Never THEN now ELSE since
    [] volume = "healthy" -> Never

UpdateRegime(regime, now, bin, volume) ==
  [window   |-> Recent(regime.window \cup {[ts |-> now, bin |-> bin]}, now),
   lowSince |-> LowSince(regime.lowSince, volume, now),
   seen     |-> OneMore(regime.seen)]

WithinBand(samples) == \A x, y \in samples : x.bin - y.bin <= SettleBand

(* isSettled: the points from the cutoff on, of which the oldest must not  *)
(* be later than the cutoff.                                               *)
Settled(window, now) ==
  LET cutoff == now - SettleTime
      points == {x \in window : x.ts >= cutoff}
  IN  \/ SettleTime = 0
      \/ /\ Cardinality(points) >= 2
         /\ \E x \in points : x.ts <= cutoff
         /\ WithinBand(points)

-----------------------------------------------------------------------------
(* The virtual position *)

Position == [status : {"NONE", "ACTIVE", "EXITED"}, lower : Int, upper : Int,
             pending : Nat, fees : Nat, openedAt : Nat, oorSince : Nat]

NoPosition == [status |-> "NONE", lower |-> 0, upper |-> 0, pending |-> 0, fees |-> 0,
               openedAt |-> Never, oorSince |-> Never]

InRange(position, bin) == position.lower <= bin /\ bin <= position.upper

OpenPosition(now, bin) ==
  [NoPosition EXCEPT !.status = "ACTIVE", !.lower = bin - HalfWidth,
                     !.upper = bin + HalfWidth, !.openedAt = now]

(* Mutation of OorSince: the dwell clock keeps running when the price      *)
(* comes back.                                                             *)
OorSinceFirst(position, now, bin) ==
  IF position.oorSince # Never \/ InRange(position, bin) THEN position.oorSince ELSE now

OorSince(position, now, bin) ==
  CASE InRange(position, bin)  -> Never
    [] ~InRange(position, bin) -> IF position.oorSince = Never THEN now
                                  ELSE position.oorSince

MarkPosition(position, now, bin) ==
  IF position.status = "EXITED" THEN position
  ELSE [position EXCEPT !.oorSince = OorSince(position, now, bin)]

(* The share of the active bin is taken to be the whole of it.             *)
AccrueFees(position, bin, amount) ==
  IF position.status = "EXITED" \/ ~InRange(position, bin) THEN position
  ELSE [position EXCEPT !.pending = @ + amount, !.fees = @ + amount]

ApplyCompound(position) == [position EXCEPT !.pending = 0]

ApplyRebalance(position, bin) ==
  [position EXCEPT !.lower = bin - HalfWidth, !.upper = bin + HalfWidth,
                   !.pending = 0, !.oorSince = Never]

ApplyExit(position) ==
  [position EXCEPT !.status = "EXITED", !.pending = 0, !.oorSince = Never]

-----------------------------------------------------------------------------
(* The decision *)

Kind == {"HOLD", "COMPOUND", "REBALANCE", "EXIT"}

ExitGate(regime, now) == regime.lowSince # Never /\ now - regime.lowSince >= ExitDwell

(* covered: the fees expected back over 7 days cover the estimated cost.   *)
RebalanceGates(position, regime, now, bin, covered) ==
  /\ ~InRange(position, bin)
  /\ position.oorSince # Never
  /\ now - position.oorSince >= OorDwell
  /\ bin - position.upper >= Overshoot \/ position.lower - bin >= Overshoot
  /\ Settled(regime.window, now)
  /\ covered

Decide(position, regime, now, bin, covered) ==
  CASE position.status = "EXITED" -> "HOLD"
    [] position.status # "EXITED" /\ ExitGate(regime, now) -> "EXIT"
    [] position.status # "EXITED" /\ ~ExitGate(regime, now)
         /\ RebalanceGates(position, regime, now, bin, covered) -> "REBALANCE"
    [] position.status # "EXITED" /\ ~ExitGate(regime, now)
         /\ InRange(position, bin) /\ position.pending >= MinFees -> "COMPOUND"
    [] OTHER -> "HOLD"

Apply(kind, position, bin) ==
  CASE kind = "COMPOUND"  -> ApplyCompound(position)
    [] kind = "REBALANCE" -> ApplyRebalance(position, bin)
    [] kind = "EXIT"      -> ApplyExit(position)
    [] kind = "HOLD"      -> position

=============================================================================
