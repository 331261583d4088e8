---------------------------- MODULE PositionRange ----------------------------
(***************************************************************************)
(* Where a position lies (positionRange.ts) and what its accounts cost     *)
(* (strategy/launchCosts.ts).  Bins are numbered over the integers; the    *)
(* price 1 is in bin 0.                                                    *)
(***************************************************************************)
EXTENDS Integers

CONSTANTS
  ClassicWidth,  \* CLASSIC_POSITION_WIDTH: bins of a position account
  BinsPerArray,  \* bins of a bin-array account
  PoolRent, ReserveRent, PositionRent, ArrayRent  \* in SOL units

(* What the constants have to be: assumed by whoever instantiates this.    *)
RangeAssumption ==
  /\ ClassicWidth \in Nat \ {0}
  /\ BinsPerArray \in Nat \ {0}
  /\ {PoolRent, ReserveRent, PositionRent, ArrayRent} \subseteq Nat

ClassicRange(active) ==
  [lower |-> active - ClassicWidth \div 2,
   upper |-> active - ClassicWidth \div 2 + ClassicWidth - 1]

FundedRange(active, total) ==
  [lower |-> active - total \div 2, upper |-> active - total \div 2 + total - 1]

Within(inner, outer) == outer.lower <= inner.lower /\ inner.upper <= outer.upper

Holds(range, bin) == range.lower <= bin /\ bin <= range.upper

BinArrayIndex(bin) == bin \div BinsPerArray

BinArrays(range) == BinArrayIndex(range.upper) - BinArrayIndex(range.lower) + 1

(* Paid by the transaction that creates the pool, and by the one that      *)
(* opens the position                                                      *)
CreationRent == PoolRent + 2 * ReserveRent

OpeningRent(range) == PositionRent + BinArrays(range) * ArrayRent

(* knownRequiredAccountRent                                                *)
KnownRent(range) == CreationRent + OpeningRent(range)

=============================================================================
