-------------------------- MODULE ShadowLoopProofs --------------------------
(***************************************************************************)
(* Proofs about the shadow loop, for all parameters of the strategy, all   *)
(* prices and readings, and any number of ticks, failures and crashes.     *)
(***************************************************************************)
EXTENDS ReplayedLoop, FiniteSetTheorems, TLAPS

(* The steps of the loop, one disjunct each.                               *)
LEMMA LoopOutline ==
  ASSUME [Next]_vars
  PROVE  \/ Boot \/ Reconcile \/ EndLoop \/ IdleLoop \/ PollFails
         \/ \E gap \in Gap, gain \in Gain, reading \in Reading,
               volume \in Market \cup {"unknown"} : Poll(gap, gain, reading, volume)
         \/ WriteFeeCursor
         \/ \E bin \in Bin : Observe(bin)
         \/ SaveOpenBenchmarks \/ SaveOpenEvent
         \/ \E covered \in BOOLEAN : DecideAndApply(covered)
         \/ SaveSnapshot \/ SaveEvent \/ SaveMark \/ SaveBenchmarks \/ TickThrows
         \/ Crash \/ SetPoolMode
         \/ UNCHANGED vars
BY DEF Next

-----------------------------------------------------------------------------
(* Types: only the counters and the timestamps take an argument. *)

Count(counter) == IF counter = NoCount THEN 0 ELSE counter

(* The fee a tick accrues is a natural number, since a delta is only taken *)
(* when the counter has not gone backwards, and time does not either.      *)
LEMMA IntervalFeesNat ==
  ASSUME NEW reading \in Readings, NEW reported \in Nat, NEW total \in Nat,
         NEW gain \in Nat, lastFee \in Nat \cup {NoCount},
         lastTick \in Nat \cup {NoCount}, Count(lastTick) <= total
  PROVE  IntervalFees(reading, reported, total, gain) \in Nat
<1>1. ProRated(total, gain) \in Nat
  BY DEF ProRated, Count, NoCount
<1> QED BY <1>1 DEF IntervalFees, NoCount, Readings

LEMMA RegimeType ==
  ASSUME StrategyAssumption, NEW r \in Regime, NEW now \in Nat, NEW bin \in Int,
         NEW volume \in Volume
  PROVE  UpdateRegime(r, now, bin, volume) \in Regime
<1>1. LowSince(r.lowSince, volume, now) \in Nat
  BY DEF LowSince, Regime, Volume, Never
<1>2. OneMore(r.seen) \in Nat
  BY DEF OneMore, Regime
<1>3. Recent(r.window \cup {[ts |-> now, bin |-> bin]}, now) \in SUBSET Sample
  BY DEF Recent, Regime, Sample
<1> QED BY <1>1, <1>2, <1>3 DEF UpdateRegime, Regime

LEMMA AppliedType ==
  ASSUME StrategyAssumption, NEW p \in Position, NEW now \in Nat, NEW bin \in Int,
         NEW amount \in Nat, NEW kind \in Kind
  PROVE  /\ MarkPosition(p, now, bin) \in Position
         /\ AccrueFees(p, bin, amount) \in Position
         /\ Apply(kind, p, bin) \in Position
<1>1. OorSince(p, now, bin) \in Nat
  BY DEF OorSince, Position, Never
<1>2. MarkPosition(p, now, bin) \in Position
  BY <1>1 DEF MarkPosition, Position
<1>3. AccrueFees(p, bin, amount) \in Position
  <2>1. p.pending + amount \in Nat /\ p.fees + amount \in Nat
    BY DEF Position
  <2>2. [p EXCEPT !.pending = p.pending + amount, !.fees = p.fees + amount] \in Position
    BY <2>1 DEF Position
  <2> QED BY <2>2 DEF AccrueFees
<1>4. Apply(kind, p, bin) \in Position
  <2>1. HalfWidth \in Nat
    BY DEF StrategyAssumption
  <2>2. ApplyCompound(p) \in Position
    BY DEF ApplyCompound, Position
  <2>3. ApplyRebalance(p, bin) \in Position
    <3>1. bin - HalfWidth \in Int /\ bin + HalfWidth \in Int
      BY <2>1
    <3> QED BY <3>1 DEF ApplyRebalance, Position, Never
  <2>4. ApplyExit(p) \in Position
    BY DEF ApplyExit, Position, Never
  <2> QED BY <2>2, <2>3, <2>4 DEF Apply, Kind
<1> QED BY <1>2, <1>3, <1>4

LEMMA DecideKind ==
  ASSUME NEW p, NEW r, NEW now, NEW bin, NEW covered
  PROVE  Decide(p, r, now, bin, covered) \in Kind
BY DEF Decide, Kind

(* The rows of the history are finitely many, so they can be counted, and  *)
(* the last tick and the last row lie in the past.                         *)
MarksPast == Count(lastTick) <= earned /\ Count(lastRow) <= earned

Typed == TypeOK /\ IsFiniteSet(history) /\ MarksPast

LEMMA InitType == ASSUME Init PROVE Typed
<1>1. InitRegime \in Regime
  BY DEF InitRegime, Regime, Never
<1>2. NoPosition \in Position
  BY DEF NoPosition, Position, Never
<1>3. NoTick \in Tick
  BY DEF NoTick, Tick, Volume, Kind
<1>4. NoEvents \in [ts : Nat, positions : SUBSET Position]
  BY DEF NoEvents, Never
<1>5. IsFiniteSet({})
  BY FS_EmptySet
<1>6. /\ clock \in Nat \ {0}
      /\ {earned, benchCursor, loops, bench, dryFrom, lastInside} \subseteq Nat
      /\ {feeCursor, lastFee, lastTick, lastRow} \subseteq Nat \cup {NoCount}
      /\ MarksPast
      /\ mode \in {"SHADOW", "PAUSED", "STOPPED"}
  BY DEF Init, Never, MarksPast, Count
<1>7. /\ pc \in {"down", "idle", "check", "decide", "end", "reconcile"} \cup Writing
      /\ runner \in BOOLEAN
      /\ history \subseteq Sample
      /\ IsFiniteSet(history)
  BY <1>5 DEF Init
<1>8. /\ regime \in Regime
      /\ position \in Position
      /\ tick \in Tick
      /\ ledger \in [ts : Nat, positions : SUBSET Position]
  BY <1>1, <1>2, <1>3, <1>4 DEF Init
<1> QED BY <1>6, <1>7, <1>8 DEF Typed, TypeOK

(* bootstrap() restores well-typed state.                                  *)
LEMMA StartType ==
  ASSUME StrategyAssumption, Typed, StartRunner
  PROVE  /\ runner' \in BOOLEAN
         /\ regime' \in Regime
         /\ position' \in Position
         /\ bench' \in Nat
         /\ lastFee' \in Nat \cup {NoCount}
         /\ lastTick' \in Nat \cup {NoCount}
         /\ Count(lastTick') <= earned
<1>1. CASE Bootstrap
  <2>1. NoPosition \in Position
    BY DEF NoPosition, Position, Never
  <2>2. position' \in Position
    <3>1. ledger.positions \subseteq Position
      BY DEF Typed, TypeOK
    <3> QED BY <1>1, <2>1, <3>1 DEF Bootstrap, Restored
  <2>3. SeenBefore \in Nat
    BY FS_CardinalityType DEF SeenBefore, Typed, StrategyAssumption
  <2>4. regime' \in Regime
    BY <1>1, <2>3 DEF Bootstrap, Regime, Typed, TypeOK, Never
  <2> QED BY <1>1, <2>2, <2>4 DEF Bootstrap, Typed, TypeOK, MarksPast
<1>2. CASE UNCHANGED <<runner, state>>
  BY <1>2 DEF state, Typed, TypeOK, MarksPast
<1> QED BY <1>1, <1>2 DEF StartRunner

(* What a process that starts from nothing holds is well-typed too.        *)
LEMMA ForgottenType ==
  ASSUME Forgotten, earned \in Nat
  PROVE  /\ regime' \in Regime
         /\ position' \in Position
         /\ bench' \in Nat
         /\ lastFee' \in Nat \cup {NoCount}
         /\ lastTick' \in Nat \cup {NoCount}
         /\ Count(lastTick') <= earned
<1>1. InitRegime \in Regime
  BY DEF InitRegime, Regime, Never
<1>2. NoPosition \in Position
  BY DEF NoPosition, Position, Never
<1> QED BY <1>1, <1>2 DEF Forgotten, Never, Count

LEMMA TypeStep ==
  ASSUME StrategyAssumption, LoopAssumption, Typed, [Next]_vars
  PROVE  Typed'
<1> USE DEF Typed, MarksPast, Count
<1>1. CASE Boot
  <2>1. CASE StartRunner
    BY <1>1, <2>1, StartType DEF Boot, TypeOK, world, db, cursors, auxVars
  <2>2. CASE UNCHANGED <<runner, state>>
    BY <1>1, <2>2 DEF Boot, TypeOK, world, db, cursors, auxVars, state
  <2> QED BY <1>1, <2>1, <2>2 DEF Boot
<1>2. CASE Reconcile
  <2>1. CASE StartRunner
    BY <1>2, <2>1, StartType DEF Reconcile, TypeOK, world, db, cursors, auxVars
  <2>2. CASE UNCHANGED <<runner, state>>
    BY <1>2, <2>2 DEF Reconcile, TypeOK, world, db, cursors, auxVars, state
  <2>3. CASE runner' = FALSE /\ Forgotten
    BY <1>2, <2>3, ForgottenType DEF Reconcile, TypeOK, world, db, cursors, auxVars
  <2> QED BY <1>2, <2>1, <2>2, <2>3 DEF Reconcile
<1>3. CASE EndLoop
  <2>1. NoTick \in Tick
    BY DEF NoTick, Tick, Volume, Kind
  <2> QED BY <1>3, <2>1 DEF EndLoop, TypeOK, world, db, cursors, auxVars, state
<1>4. CASE IdleLoop
  BY <1>4 DEF IdleLoop, PassTime, TypeOK, LoopAssumption, db, cursors, auxVars, state
<1>5. CASE PollFails
  BY <1>5 DEF PollFails, PassTime, TypeOK, LoopAssumption, db, cursors, auxVars, state
<1>6. ASSUME NEW gap \in Gap, NEW gain \in Gain, NEW reading \in Reading,
             NEW volume \in Market \cup {"unknown"}, Poll(gap, gain, reading, volume)
      PROVE  Typed'
  <2> DEFINE reported == IF reading = "reset" THEN 0 ELSE earned'
  <2>1. clock' \in Nat \ {0} /\ earned' \in Nat
    BY <1>6 DEF Poll, PassTime, TypeOK, LoopAssumption
  <2>2. reported \in Nat
    BY <2>1
  <2>3. IntervalFees(reading, reported, earned', gain) \in Nat
    <3>1. Count(lastTick) <= earned' /\ gain \in Nat
      BY <1>6, <2>1 DEF Poll, PassTime, TypeOK, MarksPast, LoopAssumption, Count
    <3> QED BY <2>1, <2>2, <3>1, IntervalFeesNat DEF TypeOK, LoopAssumption
  <2>4. tick' \in Tick
    <3>1. volume \in Volume
      BY DEF LoopAssumption, Volume
    <3>2. tick' = [NoTick EXCEPT !.volume = volume,
                                 !.fees = IntervalFees(reading, reported, earned', gain)]
      BY <1>6 DEF Poll
    <3>3. NoTick \in Tick
      BY DEF NoTick, Tick, Volume, Kind
    <3>4. ASSUME NEW fees \in Nat
          PROVE  [NoTick EXCEPT !.volume = volume, !.fees = fees] \in Tick
      BY <3>1, <3>3 DEF Tick
    <3> HIDE DEF reported
    <3> QED BY <2>3, <3>2, <3>4
  <2>5. lastFee' \in Nat \cup {NoCount}
    BY <1>6, <2>2 DEF Poll, TypeOK
  <2>6. pc' \in {"cursor", "check"}
    BY <1>6 DEF Poll
  <2>7. MarksPast'
    <3>1. earned' >= earned
      BY <1>6 DEF Poll, PassTime, TypeOK, LoopAssumption
    <3> QED BY <1>6, <2>1, <3>1 DEF Poll, TypeOK, auxVars
  <2>8. TypeOK'
    BY <1>6, <2>1, <2>4, <2>5, <2>6 DEF Poll, TypeOK, Writing, db, cursors, auxVars
  <2> QED BY <1>6, <2>7, <2>8 DEF Poll, db
<1>7. CASE WriteFeeCursor
  BY <1>7 DEF WriteFeeCursor, TypeOK, world, state, auxVars
<1>9. ASSUME NEW bin \in Bin, Observe(bin)
      PROVE  Typed'
  <2> DEFINE next == UpdateRegime(regime, clock, bin, tick.volume)
  <2>1. bin \in Int /\ clock \in Nat /\ tick.volume \in Volume
    BY DEF LoopAssumption, TypeOK, Tick
  <2>2. next \in Regime
    BY <2>1, RegimeType DEF TypeOK
  <2>3. OpenPosition(clock, bin) \in Position
    <3>1. HalfWidth \in Nat
      BY DEF StrategyAssumption
    <3>2. bin - HalfWidth \in Int /\ bin + HalfWidth \in Int
      BY <2>1, <3>1
    <3> QED BY <2>1, <3>2 DEF OpenPosition, NoPosition, Position, Never
  <2>4. regime' = next /\ (Wait(next) \/ Open(next, bin) \/ HasPosition)
    BY <1>9 DEF Observe
  <2>5. /\ position' \in Position
        /\ bench' \in Nat
        /\ lastInside' \in Nat
        /\ pc' \in {"snapshot", "openBench", "decide"}
    <3> HIDE DEF next
    <3> QED BY <2>3, <2>4 DEF Wait, Open, HasPosition, TypeOK
  <2>6. tick' \in Tick
    <3>1. tick' = [tick EXCEPT !.bin = bin,
                               !.kind = IF pc' = "snapshot" THEN "WAIT" ELSE @]
      BY <1>9 DEF Observe
    <3> QED BY <2>1, <3>1 DEF Tick, TypeOK
  <2>7. dryFrom' \in Nat
    BY <1>9, <2>1 DEF Observe, TypeOK, Never
  <2> HIDE DEF next
  <2> QED
    BY <1>9, <2>2, <2>4, <2>5, <2>6, <2>7
    DEF Observe, TypeOK, Writing, world, db, cursors
<1>10. CASE SaveOpenBenchmarks
  BY <1>10 DEF SaveOpenBenchmarks, TypeOK, Writing, world, state, auxVars
<1>11. ASSUME Record
       PROVE  ledger' \in [ts : Nat, positions : SUBSET Position]
  BY <1>11 DEF Record, TypeOK
<1>12. CASE SaveOpenEvent
  BY <1>11, <1>12 DEF SaveOpenEvent, TypeOK, world, cursors, state, auxVars
<1>13. ASSUME NEW covered \in BOOLEAN, DecideAndApply(covered)
       PROVE  Typed'
  <2> DEFINE marked  == MarkPosition(position, clock, tick.bin)
             accrued == AccrueFees(marked, tick.bin, tick.fees)
             kind    == Decide(accrued, regime, clock, tick.bin, covered)
  <2>1. clock \in Nat /\ tick.bin \in Int /\ tick.fees \in Nat
    BY DEF TypeOK, Tick
  <2>2. marked \in Position
    BY <2>1, AppliedType DEF TypeOK, Kind
  <2>3. accrued \in Position
    <3> HIDE DEF marked
    <3> QED BY <2>1, <2>2, AppliedType DEF Kind
  <2>4. kind \in Kind
    BY DecideKind
  <2>5. Apply(kind, accrued, tick.bin) \in Position
    <3> HIDE DEF accrued, kind
    <3> QED BY <2>1, <2>3, <2>4, AppliedType
  <2>6. tick' \in Tick
    <3>1. tick' = [tick EXCEPT !.kind = kind]
      BY <1>13 DEF DecideAndApply
    <3> HIDE DEF kind
    <3> QED BY <2>4, <3>1 DEF Tick, TypeOK
  <2>7. position' = Apply(kind, accrued, tick.bin)
    BY <1>13 DEF DecideAndApply
  <2>8. bench' \in Nat /\ lastInside' \in Nat
    BY <1>13 DEF DecideAndApply, TypeOK
  <2> HIDE DEF marked, accrued, kind
  <2> QED
    BY <1>13, <2>5, <2>6, <2>7, <2>8
    DEF DecideAndApply, TypeOK, Writing, world, db, cursors
<1>14. CASE SaveSnapshot
  <2>1. [ts |-> clock, bin |-> tick.bin] \in Sample
    BY DEF TypeOK, Tick, Sample
  <2>2. IsFiniteSet(history')
    BY <1>14, FS_AddElement DEF SaveSnapshot
  <2>3. history' \subseteq Sample
    BY <1>14, <2>1 DEF SaveSnapshot, TypeOK
  <2>4. pc' \in {"end", "mark", "event"}
    BY <1>14 DEF SaveSnapshot
  <2> QED
    BY <1>14, <2>2, <2>3, <2>4
    DEF SaveSnapshot, TypeOK, Writing, world, cursors, state, auxVars
<1>15. CASE SaveEvent
  BY <1>11, <1>15 DEF SaveEvent, TypeOK, Writing, world, cursors, state, auxVars
<1>16. CASE SaveMark
  BY <1>11, <1>16 DEF SaveMark, TypeOK, Writing, world, cursors, state, auxVars
<1>17. CASE SaveBenchmarks
  BY <1>17 DEF SaveBenchmarks, TypeOK, world, state, auxVars
<1>18. CASE TickThrows
  BY <1>18 DEF TickThrows, Rejected, Unwritten, TypeOK, world, db, cursors, state, auxVars
<1>19. CASE Crash
  <2>1. NoTick \in Tick
    BY DEF NoTick, Tick, Volume, Kind
  <2> QED BY <1>19, <2>1, ForgottenType DEF Crash, TypeOK, world, db, cursors, auxVars
<1>20. CASE SetPoolMode
  BY <1>20 DEF SetPoolMode, TypeOK, db, cursors, state, auxVars
<1>21. CASE UNCHANGED vars
  BY <1>21 DEF vars, TypeOK, world, db, cursors, state, auxVars
<1> QED
  BY <1>1, <1>2, <1>3, <1>4, <1>5, <1>6, <1>7, <1>9, <1>10, <1>12, <1>13,
     <1>14, <1>15, <1>16, <1>17, <1>18, <1>19, <1>20, <1>21, LoopOutline

(* Every variable of the loop keeps its type, under any sequence of ticks, *)
(* failed writes, crashes and mode changes; and the stored history stays   *)
(* countable (ShadowLoop, TypeOK).                                         *)
THEOREM LoopTyped == Spec => []Typed
BY InitType, TypeStep, StrategyAssumption, LoopAssumption, PTL DEF Spec

THEOREM LoopTypeOK == Spec => []TypeOK
<1>1. Typed => TypeOK
  BY DEF Typed
<1> QED BY <1>1, LoopTyped, PTL

-----------------------------------------------------------------------------
(* Exits *)

(* A tick in progress belongs to a pool that has a runner, and the runner  *)
(* of a pool whose latest events all say EXITED holds an exited position.  *)
Ticking == {"cursor", "check", "openBench", "openEvent", "decide", "snapshot", "event",
            "mark", "bench"}

TickHasRunner == pc \in Ticking => runner

RunnerKnowsExit == runner /\ Exited(ledger.positions) => position.status = "EXITED"

ExitInv == Typed /\ TickHasRunner /\ RunnerKnowsExit

(* Nothing a tick computes revives an exited position.                     *)
LEMMA ExitedStays ==
  ASSUME NEW p \in Position, p.status = "EXITED", NEW r, NEW now, NEW bin, NEW covered,
         NEW amount
  PROVE  LET accrued == AccrueFees(MarkPosition(p, now, bin), bin, amount)
         IN  Apply(Decide(accrued, r, now, bin, covered), accrued, bin) = p
<1>1. MarkPosition(p, now, bin) = p
  BY DEF MarkPosition
<1>2. AccrueFees(p, bin, amount) = p
  BY DEF AccrueFees
<1>3. Decide(p, r, now, bin, covered) = "HOLD"
  BY DEF Decide
<1>4. Apply("HOLD", p, bin) = p
  BY DEF Apply
<1> QED BY <1>1, <1>2, <1>3, <1>4

(* Only Record writes the ledger, and adds the position to rows that have  *)
(* its time.                                                               *)
LEMMA RecordKeepsExit ==
  ASSUME ExitInv, runner, Record
  PROVE  /\ Exited(ledger.positions) => Exited(ledger'.positions)
         /\ Exited(ledger'.positions) => position.status = "EXITED"
<1>1. position \in ledger'.positions
  BY DEF Record
<1>2. \A p \in ledger'.positions : p = position \/ p \in ledger.positions
  BY DEF Record
<1> QED BY <1>1, <1>2 DEF Exited, ExitInv, RunnerKnowsExit

LEMMA ExitStep ==
  ASSUME StrategyAssumption, LoopAssumption, ExitInv, [Next]_vars
  PROVE  /\ TickHasRunner'
         /\ RunnerKnowsExit'
         /\ Exited(ledger.positions) => Exited(ledger'.positions)
<1> USE DEF ExitInv, TickHasRunner, Ticking
<1>1. ASSUME StartRunner, UNCHANGED ledger
      PROVE  RunnerKnowsExit'
  <2>1. CASE Bootstrap
    BY <1>1, <2>1 DEF Bootstrap, Restored, Exited, RunnerKnowsExit
  <2>2. CASE UNCHANGED <<runner, state>>
    BY <1>1, <2>2 DEF state, RunnerKnowsExit
  <2> QED BY <1>1, <2>1, <2>2 DEF StartRunner
<1>2. CASE Boot
  BY <1>1, <1>2 DEF Boot, db, state, RunnerKnowsExit
<1>3. CASE Reconcile
  BY <1>1, <1>3 DEF Reconcile, db, state, RunnerKnowsExit
<1>4. CASE EndLoop
  BY <1>4 DEF EndLoop, db, state, RunnerKnowsExit
<1>5. CASE IdleLoop
  BY <1>5 DEF IdleLoop, db, state, RunnerKnowsExit
<1>6. CASE PollFails
  BY <1>6 DEF PollFails, db, state, RunnerKnowsExit
<1>7. ASSUME NEW gap \in Gap, NEW gain \in Gain, NEW reading \in Reading,
             NEW volume \in Market \cup {"unknown"}, Poll(gap, gain, reading, volume)
      PROVE  /\ runner' /\ RunnerKnowsExit'
             /\ ledger' = ledger
  BY <1>7 DEF Poll, db, RunnerKnowsExit
<1>8. CASE WriteFeeCursor
  BY <1>8 DEF WriteFeeCursor, state, RunnerKnowsExit
<1>10. ASSUME NEW bin \in Bin, Observe(bin)
       PROVE  /\ runner' /\ RunnerKnowsExit'
              /\ ledger' = ledger
  <2>1. position' = position \/ position.status = "NONE"
    BY <1>10 DEF Observe, Wait, Open, HasPosition
  <2> QED BY <1>10, <2>1 DEF Observe, db, RunnerKnowsExit
<1>11. CASE SaveOpenBenchmarks
  BY <1>11 DEF SaveOpenBenchmarks, state, RunnerKnowsExit
<1>12. CASE SaveOpenEvent
  BY <1>12, RecordKeepsExit DEF SaveOpenEvent, state, RunnerKnowsExit
<1>13. ASSUME NEW covered \in BOOLEAN, DecideAndApply(covered)
       PROVE  /\ runner' /\ RunnerKnowsExit'
              /\ ledger' = ledger
  <2>1. position.status = "EXITED" => position' = position
    BY <1>13, ExitedStays DEF DecideAndApply, Typed, TypeOK
  <2> QED BY <1>13, <2>1 DEF DecideAndApply, db, RunnerKnowsExit
<1>14. CASE SaveSnapshot
  BY <1>14 DEF SaveSnapshot, state, RunnerKnowsExit
<1>15. CASE SaveEvent
  BY <1>15, RecordKeepsExit DEF SaveEvent, state, RunnerKnowsExit
<1>16. CASE SaveMark
  BY <1>16, RecordKeepsExit DEF SaveMark, state, RunnerKnowsExit
<1>17. CASE SaveBenchmarks
  BY <1>17 DEF SaveBenchmarks, state, RunnerKnowsExit
<1>18. CASE TickThrows
  BY <1>18 DEF TickThrows, Rejected, Unwritten, db, state, RunnerKnowsExit
<1>19. CASE Crash
  BY <1>19 DEF Crash, db, RunnerKnowsExit
<1>20. CASE SetPoolMode
  BY <1>20 DEF SetPoolMode, db, state, RunnerKnowsExit
<1>21. CASE UNCHANGED vars
  BY <1>21 DEF vars, db, state, RunnerKnowsExit
<1> QED
  BY <1>2, <1>3, <1>4, <1>5, <1>6, <1>7, <1>8, <1>10, <1>11, <1>12, <1>13,
     <1>14, <1>15, <1>16, <1>17, <1>18, <1>19, <1>20, <1>21, LoopOutline

(* An exit is final: no tick, restart, pause or failed write ever makes    *)
(* the latest events say anything but EXITED again (tick's early returns,  *)
(* bootstrap's restore), whatever the strategy's parameters are.           *)
THEOREM ExitsAreFinal == Spec => ExitIsFinal
<1>1. Init => ExitInv
  <2>1. ASSUME Init
        PROVE  TickHasRunner /\ RunnerKnowsExit
    BY <2>1 DEF Init, TickHasRunner, Ticking, RunnerKnowsExit
  <2> QED BY <2>1, InitType DEF ExitInv
<1>2. ExitInv /\ [Next]_vars => ExitInv'
  BY ExitStep, TypeStep, StrategyAssumption, LoopAssumption DEF ExitInv
<1>3. ExitInv /\ [Next]_vars
        => [Exited(ledger.positions) => Exited(ledger'.positions)]_vars
  BY ExitStep, StrategyAssumption, LoopAssumption
<1> QED BY <1>1, <1>2, <1>3, PTL DEF Spec, ExitIsFinal

-----------------------------------------------------------------------------
(* Fees *)

(* Neither counter is ahead of what the pool has earned, and the stored    *)
(* one is not ahead of the one in memory.                                  *)
CountersBehind ==
  /\ Count(feeCursor) <= earned
  /\ Count(lastFee) <= earned
  /\ runner => Count(feeCursor) <= Count(lastFee)
  /\ runner /\ feeCursor # NoCount => lastFee # NoCount

(* Every position, in memory or in the ledger, is behind the stored one.   *)
CreditBehind ==
  /\ position.fees <= Count(feeCursor)
  /\ \A p \in ledger.positions : p.fees <= Count(feeCursor)

(* The fees of the tick in progress are still to be credited.              *)
TickBehind ==
  /\ pc = "cursor" => lastFee # NoCount /\ position.fees + tick.fees <= lastFee
  /\ pc \in {"check", "openBench", "openEvent", "decide"}
       => position.fees + tick.fees <= Count(feeCursor)

FeeInv == ExitInv /\ CountersBehind /\ CreditBehind /\ TickBehind

(* A tick credits its fees, or leaves the position's as they are.          *)
LEMMA CreditOnce ==
  ASSUME StrategyAssumption, NEW p \in Position, NEW r, NEW now \in Nat, NEW bin \in Int,
         NEW covered, NEW amount \in Nat
  PROVE  LET accrued == AccrueFees(MarkPosition(p, now, bin), bin, amount)
         IN  Apply(Decide(accrued, r, now, bin, covered), accrued, bin).fees
               \in {p.fees, p.fees + amount}
<1> DEFINE marked  == MarkPosition(p, now, bin)
           accrued == AccrueFees(marked, bin, amount)
           kind    == Decide(accrued, r, now, bin, covered)
<1>1. marked \in Position /\ marked.fees = p.fees
  <2>1. marked \in Position
    BY AppliedType DEF Kind
  <2> QED BY <2>1 DEF MarkPosition, Position
<1>2. accrued \in Position /\ accrued.fees \in {p.fees, p.fees + amount}
  <2> HIDE DEF marked
  <2>1. AccrueFees(marked, bin, amount) \in Position
    BY <1>1, AppliedType DEF Kind
  <2>2. AccrueFees(marked, bin, amount).fees \in {marked.fees, marked.fees + amount}
    <3>1. [marked EXCEPT !.pending = marked.pending + amount,
                         !.fees = marked.fees + amount].fees = marked.fees + amount
      BY <1>1 DEF Position
    <3> QED BY <3>1 DEF AccrueFees
  <2> QED BY <1>1, <2>1, <2>2
<1>3. kind \in Kind
  BY DecideKind
<1>4. Apply(kind, accrued, bin).fees = accrued.fees
  <2> HIDE DEF accrued, kind
  <2>1. ApplyCompound(accrued).fees = accrued.fees
    BY <1>2 DEF ApplyCompound, Position
  <2>2. ApplyRebalance(accrued, bin).fees = accrued.fees
    BY <1>2 DEF ApplyRebalance, Position
  <2>3. ApplyExit(accrued).fees = accrued.fees
    BY <1>2 DEF ApplyExit, Position
  <2> QED BY <1>3, <2>1, <2>2, <2>3 DEF Apply, Kind
<1> QED BY <1>2, <1>4

(* The fees of a tick are what the pool earned since the counter in memory *)
(* was last read, when every answer that arrives carries the counter.      *)
LEMMA PollBehind ==
  ASSUME FeeInv, LoopAssumption, Reading \subseteq {"none", "full"},
         NEW gap \in Gap, NEW gain \in Gain, NEW reading \in Reading,
         NEW volume \in Market \cup {"unknown"}, Poll(gap, gain, reading, volume)
  PROVE  CountersBehind' /\ CreditBehind' /\ TickBehind'
<1>1. /\ runner /\ runner' /\ earned' = earned + gain
      /\ UNCHANGED <<feeCursor, ledger, position>>
  <2>1. gap \in Nat
    BY DEF LoopAssumption
  <2> QED BY <2>1 DEF Poll, PassTime, db, cursors
<1>2. /\ gain \in Nat /\ earned \in Nat /\ position.fees \in Nat
      /\ feeCursor \in Nat \cup {NoCount} /\ lastFee \in Nat \cup {NoCount}
  BY DEF LoopAssumption, FeeInv, ExitInv, Typed, TypeOK, Position
<1>3. tick'.fees = IntervalFees(reading, earned', earned', gain) /\ reading \in {"none", "full"}
  <2> DEFINE reported == IF reading = "reset" THEN 0 ELSE earned'
             fees     == IntervalFees(reading, reported, earned', gain)
  <2>1. reading \in {"none", "full"} /\ reported = earned'
    OBVIOUS
  <2>2. tick' = [NoTick EXCEPT !.volume = volume, !.fees = fees]
    BY DEF Poll
  <2>3. tick'.fees = fees
    <3>1. NoTick \in Tick
      BY DEF NoTick, Tick, Volume, Kind
    <3>2. ASSUME NEW f
          PROVE  [NoTick EXCEPT !.volume = volume, !.fees = f].fees = f
      BY <3>1 DEF Tick
    <3> HIDE DEF fees
    <3> QED BY <2>2, <3>2
  <2> QED BY <2>1, <2>3
<1>4. Count(feeCursor) <= earned /\ Count(lastFee) <= earned
  BY DEF FeeInv, CountersBehind
<1>5. Count(feeCursor) <= Count(lastFee) /\ (feeCursor # NoCount => lastFee # NoCount)
  BY <1>1 DEF FeeInv, CountersBehind
<1>6. position.fees <= Count(feeCursor)
      /\ \A p \in ledger.positions : p.fees <= Count(feeCursor)
  BY DEF FeeInv, CreditBehind
<1>7. CreditBehind'
  BY <1>1, <1>6 DEF CreditBehind, Count
<1>8. CASE reading = "none"
  <2>1. tick'.fees = 0 /\ lastFee' = lastFee /\ pc' = "check"
    BY <1>3, <1>8 DEF Poll, IntervalFees
  <2>2. CountersBehind'
    BY <1>1, <1>2, <1>4, <1>5, <2>1 DEF CountersBehind, Count
  <2>3. TickBehind'
    BY <1>1, <1>2, <1>6, <2>1 DEF TickBehind, Count
  <2> QED BY <1>7, <2>2, <2>3
<1>9. CASE reading = "full"
  <2>1. lastFee' = earned' /\ pc' = "cursor"
    BY <1>9 DEF Poll
  <2>2. CountersBehind'
    BY <1>1, <1>2, <1>4, <1>5, <2>1 DEF CountersBehind, Count, NoCount
  <2>3. position.fees + tick'.fees <= earned'
    <3>1. CASE lastFee # NoCount
      <4>1. tick'.fees = earned' - lastFee
        BY <1>1, <1>2, <1>3, <1>4, <1>9, <3>1 DEF IntervalFees, Count
      <4> QED BY <1>1, <1>2, <1>5, <1>6, <3>1, <4>1 DEF Count
    <3>2. CASE lastFee = NoCount
      <4>1. tick'.fees = ProRated(earned', gain)
        BY <1>3, <1>9, <3>2 DEF IntervalFees
      <4>2. lastTick \in Nat \cup {NoCount}
        BY DEF FeeInv, ExitInv, Typed, TypeOK
      <4>3. ProRated(earned', gain) <= earned'
        BY <1>1, <1>2, <4>2 DEF ProRated
      <4>4. position.fees = 0
        BY <1>2, <1>5, <1>6, <3>2 DEF Count
      <4>5. ProRated(earned', gain) \in Int
        BY <1>1, <1>2, <4>2 DEF ProRated
      <4> QED BY <1>1, <1>2, <4>1, <4>3, <4>4, <4>5
    <3> QED BY <3>1, <3>2
  <2>4. TickBehind'
    BY <1>1, <1>2, <2>1, <2>3 DEF TickBehind, NoCount
  <2> QED BY <1>7, <2>2, <2>4
<1> QED BY <1>3, <1>8, <1>9

LEMMA FeeStep ==
  ASSUME StrategyAssumption, LoopAssumption, Reading \subseteq {"none", "full"},
         FeeInv, [Next]_vars
  PROVE  CountersBehind' /\ CreditBehind' /\ TickBehind'
<1> USE DEF CountersBehind, CreditBehind, TickBehind
<1>1. /\ earned \in Nat /\ tick.fees \in Nat /\ tick.bin \in Int /\ clock \in Nat
      /\ feeCursor \in Nat \cup {NoCount} /\ lastFee \in Nat \cup {NoCount}
      /\ position \in Position /\ position.fees \in Nat
      /\ \A p \in ledger.positions : p.fees \in Nat
  BY DEF FeeInv, ExitInv, Typed, TypeOK, Tick, Position
<1>2. pc \in Ticking => runner
  BY DEF FeeInv, ExitInv, TickHasRunner
<1>3. CountersBehind /\ CreditBehind /\ TickBehind
  BY DEF FeeInv
<1>4. Count(NoCount) = 0 /\ NoPosition.fees = 0
  BY DEF Count, NoPosition
<1>5. ASSUME StartRunner, UNCHANGED <<earned, feeCursor, ledger>>
      PROVE  CountersBehind' /\ CreditBehind'
  <2>1. CASE Bootstrap
    <3>1. position' \in ledger.positions \cup {NoPosition} /\ lastFee' = feeCursor
      BY <2>1 DEF Bootstrap, Restored
    <3>2. position'.fees <= Count(feeCursor)
      BY <1>1, <1>3, <1>4, <3>1 DEF Count
    <3> QED BY <1>1, <1>3, <1>5, <3>1, <3>2 DEF Count
  <2>2. CASE UNCHANGED <<runner, state>>
    BY <1>3, <1>5, <2>2 DEF state, Count
  <2> QED BY <1>5, <2>1, <2>2 DEF StartRunner
<1>6. ASSUME runner' = FALSE, Forgotten, UNCHANGED <<earned, feeCursor, ledger>>
      PROVE  CountersBehind' /\ CreditBehind'
  BY <1>1, <1>3, <1>4, <1>6 DEF Forgotten, Count
<1>7. ASSUME UNCHANGED <<earned, feeCursor, ledger, runner, position, lastFee>>
      PROVE  CountersBehind' /\ CreditBehind'
  BY <1>3, <1>7 DEF Count
<1>8. ASSUME Record, UNCHANGED <<earned, feeCursor, runner, position, lastFee>>
      PROVE  CountersBehind' /\ CreditBehind'
  <2>1. \A p \in ledger'.positions : p = position \/ p \in ledger.positions
    BY <1>8 DEF Record
  <2> QED BY <1>3, <1>8, <2>1 DEF Count
<1>9. CASE Boot
  <2>1. pc' = "idle" /\ UNCHANGED <<earned, feeCursor, ledger>>
    BY <1>9 DEF Boot, world, db, cursors
  <2>2. StartRunner \/ UNCHANGED <<runner, position, lastFee>>
    BY <1>9 DEF Boot, state
  <2> QED BY <1>5, <1>7, <2>1, <2>2
<1>10. CASE Reconcile
  <2>1. pc' = "idle" /\ UNCHANGED <<earned, feeCursor, ledger>>
    BY <1>10 DEF Reconcile, world, db, cursors
  <2>2. StartRunner \/ UNCHANGED <<runner, position, lastFee>> \/ (runner' = FALSE /\ Forgotten)
    BY <1>10 DEF Reconcile, state
  <2> QED BY <1>5, <1>6, <1>7, <2>1, <2>2
<1>11. CASE EndLoop
  BY <1>7, <1>11 DEF EndLoop, world, db, cursors, state
<1>12. ASSUME \E gap \in Gap, gain \in Gain : PassTime(gap, gain), pc' = "end",
              UNCHANGED <<feeCursor, ledger, runner, position, lastFee>>
       PROVE  CountersBehind' /\ CreditBehind' /\ TickBehind'
  <2>1. earned' \in Nat /\ earned' >= earned
    BY <1>1, <1>12 DEF PassTime, LoopAssumption
  <2> QED BY <1>1, <1>3, <1>12, <2>1 DEF Count
<1>13. CASE IdleLoop
  BY <1>12, <1>13 DEF IdleLoop, db, cursors, state
<1>14. CASE PollFails
  BY <1>12, <1>14 DEF PollFails, db, cursors, state
<1>15. ASSUME NEW gap \in Gap, NEW gain \in Gain, NEW reading \in Reading,
              NEW volume \in Market \cup {"unknown"}, Poll(gap, gain, reading, volume)
       PROVE  CountersBehind' /\ CreditBehind' /\ TickBehind'
  BY <1>15, PollBehind
<1>16. CASE WriteFeeCursor
  <2>1. /\ feeCursor' = lastFee /\ pc = "cursor" /\ pc' = "check" /\ runner
        /\ UNCHANGED <<earned, ledger, runner, position, lastFee, tick>>
    BY <1>2, <1>16 DEF WriteFeeCursor, world, state, Ticking
  <2>2. Count(feeCursor) <= Count(lastFee)
    BY <1>3, <2>1
  <2>3. CreditBehind'
    BY <1>1, <1>3, <2>1, <2>2 DEF Count, NoCount
  <2> QED BY <1>1, <1>3, <2>1, <2>3 DEF Count
<1>18. ASSUME NEW bin \in Bin, Observe(bin)
       PROVE  CountersBehind' /\ CreditBehind' /\ TickBehind'
  <2>1. /\ pc = "check" /\ UNCHANGED <<earned, feeCursor, ledger, runner, lastFee>>
        /\ pc' \in {"snapshot", "openBench", "decide"}
    BY <1>18 DEF Observe, Wait, Open, HasPosition, world, db, cursors
  <2>2. tick'.fees = tick.fees
    <3>1. tick' = [tick EXCEPT !.bin = bin,
                               !.kind = IF pc' = "snapshot" THEN "WAIT" ELSE @]
      BY <1>18 DEF Observe
    <3>2. tick \in Tick
      BY DEF FeeInv, ExitInv, Typed, TypeOK
    <3>3. ASSUME NEW k
          PROVE  [tick EXCEPT !.bin = bin, !.kind = k].fees = tick.fees
      BY <3>2 DEF Tick
    <3>4. tick' = [tick EXCEPT !.bin = bin,
                               !.kind = IF pc' = "snapshot" THEN "WAIT" ELSE tick.kind]
      BY <3>1
    <3> QED BY <3>3, <3>4
  <2>3. position' = position \/ position'.fees = 0
    <3>1. OpenPosition(clock, bin).fees = 0
      BY <1>1 DEF OpenPosition, NoPosition
    <3> QED BY <1>18, <3>1 DEF Observe, Wait, Open, HasPosition
  <2> QED BY <1>1, <1>3, <2>1, <2>2, <2>3 DEF Count
<1>19. CASE SaveOpenBenchmarks
  BY <1>3, <1>7, <1>19 DEF SaveOpenBenchmarks, world, state
<1>20. CASE SaveOpenEvent
  BY <1>3, <1>8, <1>20 DEF SaveOpenEvent, world, cursors, state
<1>21. ASSUME NEW covered \in BOOLEAN, DecideAndApply(covered)
       PROVE  CountersBehind' /\ CreditBehind' /\ TickBehind'
  <2>1. /\ pc = "decide" /\ pc' = "snapshot"
        /\ UNCHANGED <<earned, feeCursor, ledger, runner, lastFee>>
    BY <1>21 DEF DecideAndApply, world, db, cursors
  <2>2. position'.fees \in {position.fees, position.fees + tick.fees}
    BY <1>1, <1>21, CreditOnce DEF DecideAndApply
  <2> QED BY <1>1, <1>3, <2>1, <2>2 DEF Count
<1>22. CASE SaveSnapshot
  BY <1>7, <1>22 DEF SaveSnapshot, world, cursors, state
<1>23. CASE SaveEvent
  BY <1>8, <1>23 DEF SaveEvent, world, cursors, state
<1>24. CASE SaveMark
  BY <1>8, <1>24 DEF SaveMark, world, cursors, state
<1>25. CASE SaveBenchmarks
  BY <1>7, <1>25 DEF SaveBenchmarks, world, state
<1>26. CASE TickThrows
  BY <1>7, <1>26 DEF TickThrows, Rejected, Unwritten, world, db, cursors, state
<1>27. CASE Crash
  BY <1>6, <1>27 DEF Crash, world, db, cursors
<1>28. CASE SetPoolMode
  BY <1>3, <1>7, <1>28 DEF SetPoolMode, db, cursors, state
<1>29. CASE UNCHANGED vars
  BY <1>3, <1>7, <1>29 DEF vars, world, db, cursors, state
<1> QED
  BY <1>9, <1>10, <1>11, <1>13, <1>14, <1>15, <1>16, <1>18, <1>19, <1>20,
     <1>21, <1>22, <1>23, <1>24, <1>25, <1>26, <1>27, <1>28, <1>29, LoopOutline

(* No fee is credited twice, as long as the pool stats API reports a       *)
(* cumulative counter that never goes back, or does not answer at all: the *)
(* positions stay behind the stored counter, which is written before their *)
(* credit (tick, bootstrap), whatever fails or dies in between.            *)
THEOREM NoFeeTwice ==
  ASSUME Reading \subseteq {"none", "full"}
  PROVE  Spec => []FeesCountedOnce
<1>1. Init => FeeInv
  <2>1. ASSUME Init
        PROVE  CountersBehind /\ CreditBehind /\ TickBehind
    BY <2>1
    DEF Init, CountersBehind, CreditBehind, TickBehind, Count, NoCount, NoPosition, NoEvents
  <2>2. ASSUME Init
        PROVE  TickHasRunner /\ RunnerKnowsExit
    BY <2>2 DEF Init, TickHasRunner, Ticking, RunnerKnowsExit
  <2> QED BY <2>1, <2>2, InitType DEF FeeInv, ExitInv
<1>2. FeeInv /\ [Next]_vars => FeeInv'
  BY FeeStep, ExitStep, TypeStep, StrategyAssumption, LoopAssumption DEF FeeInv, ExitInv
<1>3. FeeInv => FeesCountedOnce
  <2>1. ASSUME FeeInv
        PROVE  FeesCountedOnce
    <3>1. /\ earned \in Nat /\ feeCursor \in Nat \cup {NoCount} /\ position.fees \in Nat
          /\ \A p \in ledger.positions : p.fees \in Nat
      BY <2>1 DEF FeeInv, ExitInv, Typed, TypeOK, Position
    <3> QED
      BY <2>1, <3>1 DEF FeeInv, CountersBehind, CreditBehind, FeesCountedOnce, Count
  <2> QED BY <2>1
<1> QED BY <1>1, <1>2, <1>3, PTL DEF Spec

-----------------------------------------------------------------------------
(* Benchmarks *)

(* Neither a price, nor fees, nor a decision moves the start of a position. *)
LEMMA StartStays ==
  ASSUME StrategyAssumption, NEW p \in Position, NEW r, NEW now \in Nat, NEW bin \in Int,
         NEW covered, NEW amount \in Nat, p.status # "NONE"
  PROVE  LET accrued == AccrueFees(MarkPosition(p, now, bin), bin, amount)
             applied == Apply(Decide(accrued, r, now, bin, covered), accrued, bin)
         IN  applied.openedAt = p.openedAt /\ applied.status # "NONE"
<1> DEFINE marked  == MarkPosition(p, now, bin)
           accrued == AccrueFees(marked, bin, amount)
           kind    == Decide(accrued, r, now, bin, covered)
<1>1. marked \in Position /\ marked.openedAt = p.openedAt /\ marked.status = p.status
  <2>1. marked \in Position
    BY AppliedType DEF Kind
  <2> QED BY <2>1 DEF MarkPosition, Position
<1>2. accrued \in Position /\ accrued.openedAt = p.openedAt /\ accrued.status = p.status
  <2> HIDE DEF marked
  <2>1. AccrueFees(marked, bin, amount) \in Position
    BY <1>1, AppliedType DEF Kind
  <2>2. AccrueFees(marked, bin, amount).openedAt = marked.openedAt
    BY <1>1 DEF AccrueFees, Position
  <2>3. AccrueFees(marked, bin, amount).status = marked.status
    BY <1>1 DEF AccrueFees, Position
  <2> QED BY <1>1, <2>1, <2>2, <2>3
<1>3. kind \in Kind
  BY DecideKind
<1>4. /\ Apply(kind, accrued, bin).openedAt = accrued.openedAt
      /\ Apply(kind, accrued, bin).status \in {accrued.status, "EXITED"}
  <2> HIDE DEF accrued, kind
  <2>1. ApplyCompound(accrued).openedAt = accrued.openedAt
        /\ ApplyCompound(accrued).status = accrued.status
    BY <1>2 DEF ApplyCompound, Position
  <2>2. ApplyRebalance(accrued, bin).openedAt = accrued.openedAt
        /\ ApplyRebalance(accrued, bin).status = accrued.status
    BY <1>2 DEF ApplyRebalance, Position
  <2>3. ApplyExit(accrued).openedAt = accrued.openedAt
        /\ ApplyExit(accrued).status = "EXITED"
    BY <1>2 DEF ApplyExit, Position
  <2> QED BY <1>3, <2>1, <2>2, <2>3 DEF Apply, Kind
<1> QED BY <1>2, <1>4

(* The rows of the ledger started when the stored benchmarks did.          *)
LedgerStarted ==
  \A p \in ledger.positions : /\ p.status # "NONE"
                              /\ p.openedAt = benchCursor
                              /\ benchCursor # Never

(* So did a position in memory, except while it is being opened; a runner  *)
(* that holds none has nothing in the ledger either.                       *)
RunnerStarted ==
  runner => /\ position.status # "NONE" => /\ bench = position.openedAt
                                           /\ bench # Never
                                           /\ pc # "openBench" => benchCursor = bench
            /\ position.status = "NONE" => ledger.positions = {}

(* From the opening on, a tick has a position.                             *)
TickStarted ==
  /\ pc \in {"openBench", "openEvent", "decide", "event", "mark", "bench"}
       => position.status # "NONE"
  /\ pc = "snapshot" /\ tick.kind # "WAIT" => position.status # "NONE"
  /\ pc = "openBench" => ledger.positions = {}

Started == LedgerStarted /\ RunnerStarted /\ TickStarted

BaselineInv == ExitInv /\ Started

LEMMA RecordStarted ==
  ASSUME BaselineInv, Record, runner, position.status # "NONE", pc # "openBench",
         UNCHANGED <<benchCursor, position>>
  PROVE  LedgerStarted' /\ ledger'.positions # {}
<1>1. \A p \in ledger'.positions : p = position \/ p \in ledger.positions
  BY DEF Record
<1>2. position.openedAt = benchCursor /\ benchCursor # Never
  BY DEF BaselineInv, Started, RunnerStarted
<1>3. LedgerStarted'
  BY <1>1, <1>2 DEF BaselineInv, Started, LedgerStarted
<1> QED BY <1>3 DEF Record

LEMMA BaselineStep ==
  ASSUME StrategyAssumption, LoopAssumption, "db" \notin Events, BaselineInv, [Next]_vars
  PROVE  Started'
<1> USE DEF Started, LedgerStarted, RunnerStarted, TickStarted
<1>1. /\ tick \in Tick /\ tick.fees \in Nat /\ tick.bin \in Int
      /\ clock \in Nat /\ clock # Never /\ position \in Position
      /\ pc \in Ticking => runner
  BY DEF BaselineInv, ExitInv, Typed, TypeOK, Tick, Never, TickHasRunner
<1>2. LedgerStarted /\ RunnerStarted /\ TickStarted
  BY DEF BaselineInv
<1>3. NoPosition.status = "NONE"
  BY DEF NoPosition
<1>4. ASSUME StartRunner, pc' = "idle", pc # "openBench", UNCHANGED db
      PROVE  Started'
  <2>1. CASE Bootstrap
    <3>1. /\ bench' = benchCursor /\ benchCursor' = benchCursor /\ ledger' = ledger
          /\ position' \in Restored
      BY <1>4, <2>1 DEF Bootstrap, db, cursors
    <3> QED BY <1>2, <1>3, <1>4, <3>1 DEF Restored
  <2>2. CASE UNCHANGED <<runner, state>>
    BY <1>2, <1>4, <2>2 DEF db, cursors, state
  <2> QED BY <1>4, <2>1, <2>2 DEF StartRunner
<1>5. ASSUME runner' = FALSE, pc' \in {"idle", "down"}, UNCHANGED db
      PROVE  Started'
  BY <1>2, <1>5 DEF db, cursors
<1>6. ASSUME pc' \in {"idle", "end", "check", "reconcile"}, pc # "openBench",
             UNCHANGED <<runner, position, bench, benchCursor, ledger>>
      PROVE  Started'
  BY <1>2, <1>6
<1>7. CASE Boot
  <2>1. pc = "down" /\ pc' = "idle" /\ UNCHANGED db
    BY <1>7 DEF Boot
  <2>2. StartRunner \/ UNCHANGED <<runner, state>>
    BY <1>7 DEF Boot
  <2> QED BY <1>4, <1>6, <2>1, <2>2 DEF db, cursors, state
<1>8. CASE Reconcile
  <2>1. pc = "reconcile" /\ pc' = "idle" /\ UNCHANGED db
    BY <1>8 DEF Reconcile
  <2>2. StartRunner \/ UNCHANGED <<runner, state>> \/ runner' = FALSE
    BY <1>8 DEF Reconcile
  <2> QED BY <1>4, <1>5, <1>6, <2>1, <2>2 DEF db, cursors, state
<1>9. CASE EndLoop
  BY <1>6, <1>9 DEF EndLoop, db, cursors, state
<1>10. CASE IdleLoop
  BY <1>6, <1>10 DEF IdleLoop, db, cursors, state
<1>11. CASE PollFails
  BY <1>6, <1>11 DEF PollFails, db, cursors, state
<1>12. ASSUME NEW gap \in Gap, NEW gain \in Gain, NEW reading \in Reading,
              NEW volume \in Market \cup {"unknown"}, Poll(gap, gain, reading, volume)
       PROVE  Started'
  <2>1. pc = "idle" /\ pc' \in {"cursor", "check"}
        /\ UNCHANGED <<runner, position, bench, benchCursor, ledger>>
    BY <1>12 DEF Poll, db, cursors
  <2> QED BY <1>2, <2>1
<1>13. CASE WriteFeeCursor
  BY <1>6, <1>13 DEF WriteFeeCursor, state
<1>15. ASSUME NEW bin \in Bin, Observe(bin)
       PROVE  Started'
  <2> DEFINE next == UpdateRegime(regime, clock, bin, tick.volume)
  <2>1. /\ pc = "check" /\ runner /\ runner' = runner
        /\ UNCHANGED <<benchCursor, ledger>>
        /\ Wait(next) \/ Open(next, bin) \/ HasPosition
        /\ tick' = [tick EXCEPT !.bin = bin, !.kind = IF pc' = "snapshot" THEN "WAIT" ELSE @]
    BY <1>1, <1>15 DEF Observe, db, cursors, Ticking
  <2> HIDE DEF next
  <2>2. CASE Wait(next)
    <3>1. pc' = "snapshot" /\ UNCHANGED <<position, bench>> /\ position.status = "NONE"
      BY <2>2 DEF Wait
    <3>2. tick'.kind = "WAIT"
      BY <1>1, <2>1, <3>1 DEF Tick
    <3> QED BY <1>2, <2>1, <3>1, <3>2
  <2>3. CASE Open(next, bin)
    <3>1. /\ pc' = "openBench" /\ position' = OpenPosition(clock, bin) /\ bench' = clock
          /\ position.status = "NONE"
      BY <2>3 DEF Open
    <3>2. position'.status = "ACTIVE" /\ position'.openedAt = clock
      BY <3>1 DEF OpenPosition, NoPosition
    <3> QED BY <1>1, <1>2, <2>1, <3>1, <3>2
  <2>4. CASE HasPosition
    <3>1. pc' = "decide" /\ UNCHANGED <<position, bench>> /\ position.status # "NONE"
      BY <2>4 DEF HasPosition
    <3> QED BY <1>2, <2>1, <3>1
  <2> QED BY <2>1, <2>2, <2>3, <2>4
<1>16. CASE SaveOpenBenchmarks
  <2>1. /\ pc = "openBench" /\ pc' = "openEvent" /\ runner /\ benchCursor' = bench
        /\ UNCHANGED <<runner, position, bench, ledger>>
    BY <1>1, <1>16 DEF SaveOpenBenchmarks, state, Ticking
  <2> QED BY <1>2, <2>1
<1>17. ASSUME Record, pc \in {"openEvent", "event", "mark"},
              pc' \in {"decide", "mark", "bench"},
              UNCHANGED <<runner, position, bench, benchCursor>>
       PROVE  Started'
  <2>1. runner /\ position.status # "NONE"
    BY <1>1, <1>2, <1>17 DEF Ticking
  <2>2. LedgerStarted'
    BY <1>17, <2>1, RecordStarted
  <2> QED BY <1>2, <1>17, <2>1, <2>2
<1>18. CASE SaveOpenEvent
  BY <1>17, <1>18 DEF SaveOpenEvent, cursors, state
<1>19. ASSUME NEW covered \in BOOLEAN, DecideAndApply(covered)
       PROVE  Started'
  <2>1. /\ pc = "decide" /\ pc' = "snapshot" /\ runner
        /\ bench' = IF bench = Never THEN clock ELSE bench
        /\ UNCHANGED <<runner, benchCursor, ledger>>
    BY <1>1, <1>19 DEF DecideAndApply, db, cursors, Ticking
  <2>2. position'.openedAt = position.openedAt /\ position'.status # "NONE"
    BY <1>1, <1>2, <1>19, <2>1, StartStays DEF DecideAndApply
  <2> QED BY <1>2, <2>1, <2>2
<1>20. CASE SaveSnapshot
  <2>1. /\ pc = "snapshot" /\ pc' \in {"end", "mark", "event"}
        /\ pc' # "end" => tick.kind # "WAIT"
        /\ UNCHANGED <<runner, position, bench, benchCursor, ledger>>
    BY <1>20 DEF SaveSnapshot, cursors, state
  <2> QED BY <1>2, <2>1
<1>21. CASE SaveEvent
  BY <1>17, <1>21 DEF SaveEvent, cursors, state
<1>22. CASE SaveMark
  BY <1>17, <1>22 DEF SaveMark, cursors, state
<1>23. CASE SaveBenchmarks
  <2>1. /\ pc = "bench" /\ pc' = "end" /\ runner /\ benchCursor' = bench
        /\ UNCHANGED <<runner, position, bench, ledger>>
    BY <1>1, <1>23 DEF SaveBenchmarks, state, Ticking
  <2> QED BY <1>2, <2>1
<1>24. CASE TickThrows
  BY <1>6, <1>24 DEF TickThrows, Rejected, Unwritten, db, cursors, state
<1>25. CASE Crash
  BY <1>5, <1>25 DEF Crash
<1>26. CASE SetPoolMode
  BY <1>2, <1>26 DEF SetPoolMode, db, cursors, state
<1>27. CASE UNCHANGED vars
  BY <1>2, <1>27 DEF vars, db, cursors, state
<1> QED
  BY <1>7, <1>8, <1>9, <1>10, <1>11, <1>12, <1>13, <1>15, <1>16, <1>18, <1>19,
     <1>20, <1>21, <1>22, <1>23, <1>24, <1>25, <1>26, <1>27, LoopOutline

(* The three equity curves start together, wherever the process dies and   *)
(* whatever the operator does, as long as the writes of a process that     *)
(* lives succeed: the benchmarks are stored before the OPEN event and      *)
(* restored with it (tick, bootstrap).                                     *)
THEOREM BaselineIsShared ==
  ASSUME "db" \notin Events
  PROVE  Spec => []BenchmarksShareBaseline
<1>1. Init => BaselineInv
  <2>1. ASSUME Init
        PROVE  Started
    BY <2>1
    DEF Init, NoEvents, Started, LedgerStarted, RunnerStarted, TickStarted
  <2>2. ASSUME Init
        PROVE  TickHasRunner /\ RunnerKnowsExit
    BY <2>2 DEF Init, TickHasRunner, Ticking, RunnerKnowsExit
  <2> QED BY <2>1, <2>2, InitType DEF BaselineInv, ExitInv
<1>2. BaselineInv /\ [Next]_vars => BaselineInv'
  BY BaselineStep, ExitStep, TypeStep, StrategyAssumption, LoopAssumption
  DEF BaselineInv, ExitInv
<1>3. BaselineInv => BenchmarksShareBaseline
  BY DEF BaselineInv, ExitInv, TickHasRunner, Ticking, Started, RunnerStarted, TickStarted,
         BenchmarksShareBaseline
<1> QED BY <1>1, <1>2, <1>3, PTL DEF Spec

-----------------------------------------------------------------------------
(* A process that lives: exits on time, ranges left after their dwell *)

(* A position that has exited, or that is inside its range, has no dwell   *)
(* clock; a clock that runs was started after the range was last seen to   *)
(* hold the price.                                                         *)
DwellSince(p, inside) ==
  /\ p.status = "EXITED" => p.oorSince = Never
  /\ p.oorSince # Never => inside <= p.oorSince

(* What one tick makes of the position.                                    *)
Ticked(p, r, now, bin, covered, amount) ==
  LET accrued == AccrueFees(MarkPosition(p, now, bin), bin, amount)
  IN  Apply(Decide(accrued, r, now, bin, covered), accrued, bin)

LEMMA TickDwell ==
  ASSUME StrategyAssumption, NEW p \in Position, NEW r, NEW now \in Nat, NEW bin \in Int,
         NEW covered, NEW amount \in Nat, NEW inside \in Nat, inside <= now,
         DwellSince(p, inside)
  PROVE  LET applied == Ticked(p, r, now, bin, covered, amount)
         IN  /\ DwellSince(applied, IF InRange(applied, bin) THEN now ELSE inside)
             /\ applied.lower # p.lower => now - inside >= OorDwell
             /\ ExitGate(r, now) => applied.status = "EXITED"
<1> DEFINE marked  == MarkPosition(p, now, bin)
           accrued == AccrueFees(marked, bin, amount)
           kind    == Decide(accrued, r, now, bin, covered)
           applied == Ticked(p, r, now, bin, covered, amount)
           Claim   == /\ DwellSince(applied, IF InRange(applied, bin) THEN now ELSE inside)
                      /\ applied.lower # p.lower => now - inside >= OorDwell
                      /\ ExitGate(r, now) => applied.status = "EXITED"
<1>1. applied = Apply(kind, accrued, bin)
  BY DEF Ticked
<1>2. ASSUME p.status = "EXITED"
      PROVE  Claim
  <2>1. applied = p
    BY <1>2, ExitedStays DEF Ticked
  <2> QED BY <1>2, <2>1 DEF DwellSince
<1>3. ASSUME p.status # "EXITED"
      PROVE  Claim
  <2>1. /\ marked \in Position /\ marked.status = p.status
        /\ marked.lower = p.lower /\ marked.upper = p.upper
        /\ marked.oorSince = OorSince(p, now, bin)
    <3>1. marked \in Position
      BY AppliedType DEF Kind
    <3> QED BY <1>3, <3>1 DEF MarkPosition, Position
  <2>2. /\ accrued \in Position /\ accrued.status = p.status
        /\ accrued.lower = p.lower /\ accrued.upper = p.upper
        /\ accrued.oorSince = OorSince(p, now, bin)
    <3> HIDE DEF marked
    <3>1. AccrueFees(marked, bin, amount) \in Position
      BY <2>1, AppliedType DEF Kind
    <3>2. /\ AccrueFees(marked, bin, amount).status = marked.status
          /\ AccrueFees(marked, bin, amount).lower = marked.lower
      BY <2>1 DEF AccrueFees, Position
    <3>3. /\ AccrueFees(marked, bin, amount).upper = marked.upper
          /\ AccrueFees(marked, bin, amount).oorSince = marked.oorSince
      BY <2>1 DEF AccrueFees, Position
    <3> QED BY <2>1, <3>1, <3>2, <3>3
  <2>3. /\ InRange(p, bin) <=> InRange(accrued, bin)
        /\ InRange(p, bin) => accrued.oorSince = Never
        /\ accrued.oorSince # Never => inside <= accrued.oorSince
        /\ accrued.oorSince \in Nat
    <3>1. OorSince(p, now, bin) \in Nat
      BY DEF OorSince, Position, Never
    <3>2. OorSince(p, now, bin) # Never => inside <= OorSince(p, now, bin)
      BY DEF OorSince, DwellSince
    <3>3. InRange(p, bin) => OorSince(p, now, bin) = Never
      BY DEF OorSince
    <3> HIDE DEF accrued
    <3> QED BY <2>2, <3>1, <3>2, <3>3 DEF InRange
  <2> HIDE DEF marked, accrued, applied
  <2>4. CASE kind = "EXIT"
    <3>1. applied = ApplyExit(accrued)
      BY <1>1, <2>4 DEF Apply
    <3>2. /\ applied.status = "EXITED" /\ applied.oorSince = Never
          /\ applied.lower = accrued.lower
      BY <2>2, <3>1 DEF ApplyExit, Position
    <3> QED BY <2>2, <3>2 DEF DwellSince
  <2>5. CASE kind = "REBALANCE"
    <3>1. applied = ApplyRebalance(accrued, bin)
      BY <1>1, <2>5 DEF Apply
    <3>2. applied.status = accrued.status /\ applied.oorSince = Never
      BY <2>2, <3>1 DEF ApplyRebalance, Position
    <3>3. ~ExitGate(r, now) /\ RebalanceGates(accrued, r, now, bin, covered)
      BY <2>5 DEF Decide
    <3>4. now - inside >= OorDwell
      <4>1. accrued.oorSince # Never /\ now - accrued.oorSince >= OorDwell
        BY <3>3 DEF RebalanceGates
      <4> QED BY <2>3, <4>1 DEF StrategyAssumption
    <3> QED BY <1>3, <2>2, <3>2, <3>3, <3>4 DEF DwellSince
  <2>6. CASE kind = "COMPOUND"
    <3>1. applied = ApplyCompound(accrued)
      BY <1>1, <2>6 DEF Apply
    <3>2. /\ applied.status = accrued.status /\ applied.oorSince = accrued.oorSince
          /\ applied.lower = accrued.lower
      BY <2>2, <3>1 DEF ApplyCompound, Position
    <3>3. InRange(accrued, bin) /\ ~ExitGate(r, now)
      BY <2>6 DEF Decide
    <3> QED BY <1>3, <2>2, <2>3, <3>2, <3>3 DEF DwellSince
  <2>7. CASE kind = "HOLD"
    <3>1. applied = accrued
      BY <1>1, <2>7 DEF Apply
    <3>2. ~ExitGate(r, now)
      BY <1>3, <2>2, <2>7 DEF Decide
    <3> QED BY <1>3, <2>2, <2>3, <3>1, <3>2 DEF DwellSince
  <2>8. kind \in Kind
    BY DecideKind
  <2> QED BY <2>4, <2>5, <2>6, <2>7, <2>8 DEF Kind
<1>4. Claim
  BY <1>2, <1>3
<1> QED BY <1>4

(* Without a runner nothing has been seen yet, since a process that lives  *)
(* and is left alone keeps the runner it has started.                      *)
NothingYet ==
  ~runner => /\ dryFrom = Never
             /\ ledger.positions = {}
             /\ position = NoPosition
             /\ regime = InitRegime

ClocksAgree ==
  /\ dryFrom = regime.lowSince
  /\ DwellSince(position, lastInside)
  /\ lastInside <= clock

ExitsDecided == Decided /\ ExitGate(regime, clock) => position.status = "EXITED"

LiveInv ==
  /\ ExitInv
  /\ mode = "SHADOW"
  /\ pc = "down" => ~runner
  /\ NothingYet /\ ClocksAgree /\ ExitsDecided

LEMMA LiveStep ==
  ASSUME StrategyAssumption, LoopAssumption, "crash" \notin Events, "operator" \notin Events,
         LiveInv, [Next]_vars
  PROVE  /\ mode' = "SHADOW"
         /\ pc' = "down" => ~runner'
         /\ NothingYet' /\ ClocksAgree' /\ ExitsDecided'
         /\ pc = "decide" /\ position'.lower # position.lower => clock - lastInside >= OorDwell
<1> DEFINE Goal ==
      /\ mode' = "SHADOW"
      /\ pc' = "down" => ~runner'
      /\ NothingYet' /\ ClocksAgree' /\ ExitsDecided'
      /\ pc = "decide" /\ position'.lower # position.lower => clock - lastInside >= OorDwell
<1> USE DEF NothingYet, ClocksAgree, ExitsDecided, Decided
<1>1. /\ tick \in Tick /\ tick.fees \in Nat /\ tick.bin \in Int
      /\ clock \in Nat /\ clock # Never /\ position \in Position
      /\ lastInside \in Nat /\ OorDwell \in Nat
      /\ pc \in Ticking => runner
  BY DEF LiveInv, ExitInv, Typed, TypeOK, Tick, Never, TickHasRunner, StrategyAssumption
<1>2. /\ mode = "SHADOW"
      /\ pc = "down" => ~runner
      /\ NothingYet /\ ClocksAgree /\ ExitsDecided
  BY DEF LiveInv
<1>3. NoPosition.oorSince = Never /\ NoPosition.status # "EXITED"
  BY DEF NoPosition
<1>4. ASSUME StartRunner, ~runner, pc' = "idle", pc # "decide",
             UNCHANGED <<mode, clock, ledger, dryFrom, lastInside>>
      PROVE  Goal
  <2>1. CASE Bootstrap
    <3>1. position' = NoPosition /\ runner'
      BY <1>2, <1>4, <2>1 DEF Bootstrap, Restored
    <3>2. regime'.lowSince = Never
      BY <2>1 DEF Bootstrap
    <3> QED BY <1>2, <1>3, <1>4, <3>1, <3>2 DEF DwellSince
  <2>2. CASE UNCHANGED <<runner, state>>
    BY <1>2, <1>4, <2>2 DEF state
  <2> QED BY <1>4, <2>1, <2>2 DEF StartRunner
<1>5. ASSUME UNCHANGED <<mode, runner, regime, position, ledger, dryFrom, lastInside>>,
             pc' # "snapshot", pc' # "down", pc # "decide" \/ position' = position,
             clock' \in Nat, clock <= clock'
      PROVE  Goal
  BY <1>1, <1>2, <1>5
<1>6. CASE Boot
  <2>1. StartRunner \/ UNCHANGED <<runner, state>>
    BY <1>6 DEF Boot
  <2>2. /\ pc = "down" /\ pc' = "idle"
        /\ UNCHANGED <<mode, clock, ledger, dryFrom, lastInside>>
    BY <1>6 DEF Boot, world, db, auxVars
  <2> QED BY <1>1, <1>2, <1>4, <1>5, <2>1, <2>2 DEF state
<1>7. CASE Reconcile
  <2>1. (~runner /\ StartRunner) \/ UNCHANGED <<runner, state>>
    BY <1>2, <1>7 DEF Reconcile
  <2>2. /\ pc = "reconcile" /\ pc' = "idle"
        /\ UNCHANGED <<mode, clock, ledger, dryFrom, lastInside>>
    BY <1>7 DEF Reconcile, world, db, auxVars
  <2> QED BY <1>1, <1>4, <1>5, <2>1, <2>2 DEF state
<1>8. CASE EndLoop
  BY <1>1, <1>5, <1>8 DEF EndLoop, world, db, state, auxVars
<1>9. ASSUME NEW gap \in Gap, NEW gain \in Gain, PassTime(gap, gain)
      PROVE  clock' \in Nat /\ clock <= clock'
  <2>1. gap \in Nat /\ clock' = clock + gap
    BY <1>9 DEF PassTime, LoopAssumption
  <2> QED BY <1>1, <2>1
<1>10. CASE IdleLoop
  BY <1>5, <1>9, <1>10 DEF IdleLoop, db, state, auxVars
<1>11. CASE PollFails
  BY <1>5, <1>9, <1>11 DEF PollFails, db, state, auxVars
<1>12. ASSUME NEW gap \in Gap, NEW gain \in Gain, NEW reading \in Reading,
              NEW volume \in Market \cup {"unknown"}, Poll(gap, gain, reading, volume)
       PROVE  Goal
  <2>1. PassTime(gap, gain) /\ pc' \in {"cursor", "check"}
        /\ UNCHANGED <<mode, runner, regime, position, ledger, dryFrom, lastInside>>
    BY <1>12 DEF Poll, db, auxVars
  <2> QED BY <1>5, <1>9, <2>1
<1>13. CASE WriteFeeCursor
  BY <1>1, <1>5, <1>13 DEF WriteFeeCursor, world, state, auxVars
<1>15. ASSUME NEW bin \in Bin, Observe(bin)
       PROVE  Goal
  <2> DEFINE next == UpdateRegime(regime, clock, bin, tick.volume)
  <2>1. /\ pc = "check" /\ runner /\ runner' = runner
        /\ UNCHANGED <<mode, clock>>
        /\ regime' = next
        /\ Wait(next) \/ Open(next, bin) \/ HasPosition
        /\ tick' = [tick EXCEPT !.bin = bin, !.kind = IF pc' = "snapshot" THEN "WAIT" ELSE @]
        /\ dryFrom' = CASE tick.volume = "healthy" -> Never
                        [] tick.volume = "low" /\ dryFrom = Never -> clock
                        [] OTHER -> dryFrom
    BY <1>1, <1>15 DEF Observe, world, Ticking
  <2>2. dryFrom' = regime'.lowSince
    <3>1. next.lowSince = LowSince(regime.lowSince, tick.volume, clock)
      BY DEF UpdateRegime
    <3>2. tick.volume \in Volume
      BY <1>1 DEF Tick
    <3> HIDE DEF next
    <3> QED BY <1>2, <2>1, <3>1, <3>2 DEF LowSince, Volume
  <2>3. /\ DwellSince(position', lastInside') /\ lastInside' <= clock
        /\ pc' # "down" /\ pc' = "snapshot" => tick'.kind = "WAIT"
    <3> HIDE DEF next
    <3>1. CASE Wait(next) \/ HasPosition
      <4>1. UNCHANGED <<position, lastInside>> /\ pc' \in {"snapshot", "decide"}
        BY <3>1 DEF Wait, HasPosition
      <4> QED BY <1>1, <1>2, <2>1, <4>1 DEF Tick
    <3>2. CASE Open(next, bin)
      <4>1. position' = OpenPosition(clock, bin) /\ lastInside' = clock /\ pc' = "openBench"
        BY <3>2 DEF Open
      <4>2. position'.oorSince = Never /\ position'.status = "ACTIVE"
        BY <4>1 DEF OpenPosition, NoPosition
      <4> QED BY <1>1, <4>1, <4>2 DEF DwellSince
    <3> QED BY <2>1, <3>1, <3>2
  <2>4. pc' # "down"
    BY <2>1 DEF Wait, Open, HasPosition
  <2> QED BY <1>2, <2>1, <2>2, <2>3, <2>4
<1>16. CASE SaveOpenBenchmarks
  BY <1>1, <1>5, <1>16 DEF SaveOpenBenchmarks, world, state, auxVars
<1>17. ASSUME UNCHANGED <<mode, clock, runner, regime, position, dryFrom, lastInside>>,
              runner, pc' # "snapshot", pc' # "down"
       PROVE  Goal
  BY <1>2, <1>17
<1>18. CASE SaveOpenEvent
  BY <1>1, <1>17, <1>18 DEF SaveOpenEvent, world, state, auxVars, Ticking
<1>19. ASSUME NEW covered \in BOOLEAN, DecideAndApply(covered)
       PROVE  Goal
  <2>1. /\ pc = "decide" /\ pc' = "snapshot" /\ runner /\ runner' = runner
        /\ position' = Ticked(position, regime, clock, tick.bin, covered, tick.fees)
        /\ lastInside' = IF InRange(position', tick.bin) THEN clock ELSE lastInside
        /\ UNCHANGED <<mode, clock, regime, ledger, dryFrom>>
    BY <1>1, <1>19 DEF DecideAndApply, Ticked, world, db, Ticking
  <2>2. /\ DwellSince(position', lastInside')
        /\ position'.lower # position.lower => clock - lastInside >= OorDwell
        /\ ExitGate(regime, clock) => position'.status = "EXITED"
    BY <1>1, <1>2, <2>1, TickDwell
  <2>3. ExitGate(regime, clock)' => ExitGate(regime, clock)
    BY <2>1 DEF ExitGate
  <2> QED BY <1>1, <1>2, <2>1, <2>2, <2>3
<1>20. CASE SaveSnapshot
  <2>1. pc' \in {"end", "mark", "event"} /\ runner
    BY <1>1, <1>20 DEF SaveSnapshot, Ticking
  <2> QED BY <1>17, <1>20, <2>1 DEF SaveSnapshot, world, state
<1>21. CASE SaveEvent
  BY <1>1, <1>17, <1>21 DEF SaveEvent, world, state, auxVars, Ticking
<1>22. CASE SaveMark
  BY <1>1, <1>17, <1>22 DEF SaveMark, world, state, auxVars, Ticking
<1>23. CASE SaveBenchmarks
  BY <1>1, <1>17, <1>23 DEF SaveBenchmarks, world, state, auxVars, Ticking
<1>24. CASE TickThrows
  BY <1>1, <1>5, <1>24 DEF TickThrows, Rejected, Unwritten, world, db, state, auxVars
<1>25. CASE Crash
  BY <1>25 DEF Crash
<1>26. CASE SetPoolMode
  BY <1>26 DEF SetPoolMode
<1>27. CASE UNCHANGED vars
  BY <1>2, <1>27 DEF vars, world, db, state, auxVars, ExitGate
<1> QED
  BY <1>6, <1>7, <1>8, <1>10, <1>11, <1>12, <1>13, <1>15, <1>16, <1>18, <1>19,
     <1>20, <1>21, <1>22, <1>23, <1>24, <1>25, <1>26, <1>27, LoopOutline

LEMMA LiveInvariant ==
  ASSUME "crash" \notin Events, "operator" \notin Events
  PROVE  /\ Init => LiveInv
         /\ LiveInv /\ [Next]_vars => LiveInv'
<1>1. ASSUME Init
      PROVE  LiveInv
  <2>1. TickHasRunner /\ RunnerKnowsExit
    BY <1>1 DEF Init, TickHasRunner, Ticking, RunnerKnowsExit
  <2>2. NothingYet /\ ExitsDecided
    BY <1>1 DEF Init, NothingYet, ExitsDecided, Decided, NoEvents
  <2>3. ClocksAgree
    BY <1>1 DEF Init, ClocksAgree, DwellSince, NoPosition, InitRegime, Never
  <2> QED BY <1>1, <2>1, <2>2, <2>3, InitType DEF Init, LiveInv, ExitInv
<1>2. ASSUME LiveInv, [Next]_vars
      PROVE  LiveInv'
  <2>1. ExitInv'
    BY <1>2, TypeStep, ExitStep, StrategyAssumption, LoopAssumption DEF LiveInv, ExitInv
  <2> QED BY <1>2, <2>1, LiveStep, StrategyAssumption, LoopAssumption DEF LiveInv
<1> QED BY <1>1, <1>2

(* A pool that has gone dry is left when the exit dwell is over, although  *)
(* any tick may fail at any of its awaits, as long as the process lives    *)
(* and nobody pauses the pool: the exit clock of the regime is not reset   *)
(* by missing data, and the tick that finds it expired exits (regime.ts,   *)
(* engine.ts).                                                             *)
THEOREM DryPoolIsLeft ==
  ASSUME "crash" \notin Events, "operator" \notin Events
  PROVE  Spec => []ExitsOnTime
<1>1. LiveInv => ExitsOnTime
  BY DEF LiveInv, ClocksAgree, ExitsDecided, ExitsOnTime, ExitGate
<1> QED BY <1>1, LiveInvariant, PTL DEF Spec

(* A range is left only after the price was outside it for the whole       *)
(* dwell, under the same failures: the dwell clock starts when the price   *)
(* is first seen outside and stops when it comes back (markPosition).      *)
THEOREM DwellIsServed ==
  ASSUME "crash" \notin Events, "operator" \notin Events
  PROVE  Spec => DwellIsContinuous
<1>1. LiveInv /\ [Next]_vars
        => [pc = "decide" /\ position'.lower # position.lower
              => clock - lastInside >= OorDwell]_vars
  BY LiveStep, StrategyAssumption, LoopAssumption
<1> QED BY <1>1, LiveInvariant, PTL DEF Spec, DwellIsContinuous

-----------------------------------------------------------------------------
(* Why a replay of the stored snapshots stands where the loop stands       *)
(* (ReplayedLoop).                                                         *)

Live == [regime |-> regime, position |-> position]

(* The loop has acted on a snapshot it has not stored yet.                 *)
Acting == {"openBench", "openEvent", "decide", "snapshot"}

(* The position a tick starts with: it may open it itself.                 *)
HeldBy(p) == IF p.status = "NONE" THEN OpenPosition(clock, tick.bin) ELSE p

(* Until its row is stored, the tick is as far ahead of the replay as the  *)
(* row will take it.                                                       *)
Ahead ==
  /\ regime = UpdateRegime(rerun.regime, clock, tick.bin, tick.volume)
  /\ rerun.position.status = "NONE" => VolReliable(regime)
  /\ position = HeldBy(rerun.position)

InStep ==
  /\ pc \notin Acting => rerun = Live
  /\ pc \in {"openBench", "openEvent", "decide"} => Ahead
  /\ pc = "snapshot" => ReplayRow = Live

ReplayInv ==
  /\ Typed
  /\ pc = "down" => ~runner
  /\ history = {} => rerun = NoRerun
  /\ runner /\ ~missed => InStep

(* Whether the recapture covered the costs shows in the decision.          *)
LEMMA DecidedAgain ==
  ASSUME NEW p, NEW r, NEW now, NEW bin, NEW covered \in BOOLEAN
  PROVE  LET kind == Decide(p, r, now, bin, covered)
         IN  Decide(p, r, now, bin, kind = "REBALANCE") = kind
BY DEF Decide, RebalanceGates

(* Before anything was stored a runner starts as a replay does.            *)
LEMMA StartsEmpty ==
  ASSUME Bootstrap, history = {}, ledger.positions = {}
  PROVE  Live' = NoRerun
<1>1. {x \in history : x.ts >= clock - 2 * SettleTime} = {}
  OBVIOUS
<1>2. SeenBefore = 0
  BY FS_EmptySet, StrategyAssumption DEF SeenBefore
<1> QED BY <1>1, <1>2 DEF Bootstrap, Restored, Live, NoRerun, InitRegime

LEMMA ReplayStep ==
  ASSUME ReplayInv, [NextReplayed]_replayVars
  PROVE  ReplayInv'
<1> USE DEF ReplayInv, Acting
<1>a. [Next]_vars
  BY DEF NextReplayed, ReplaySnapshot, AbandonTick, RunFromHistory, Unreplayed, Next, replayVars
<1>b. Typed'
  BY <1>a, TypeStep, StrategyAssumption, LoopAssumption
<1>c. tick \in Tick
  BY DEF Typed, TypeOK
<1>1. CASE ReplaySnapshot
  <2>1. /\ pc = "snapshot" /\ rerun' = ReplayRow /\ pc' \notin Acting /\ pc' # "down"
        /\ UNCHANGED <<runner, regime, position, missed>> /\ history' # {}
    BY <1>1 DEF ReplaySnapshot, SaveSnapshot, state
  <2> QED BY <1>b, <2>1 DEF InStep, Live
<1>2. CASE AbandonTick
  <2>1. /\ pc' = "end" /\ UNCHANGED <<runner, regime, position, rerun, history>>
        /\ missed' = (missed \/ pc \in {"openBench", "openEvent", "snapshot"})
        /\ pc \in {"check"} \cup Writing
    BY <1>2 DEF AbandonTick, TickThrows, Rejected, Unwritten, state, db
  <2> QED BY <1>b, <2>1 DEF InStep, Live, Writing
<1>3. CASE RunFromHistory
  <2>1. /\ rerun' = rerun /\ history' = history /\ pc' = "idle" /\ pc \in {"down", "reconcile"}
        /\ missed' = (missed \/ (~runner /\ runner' /\ (history # {} \/ ledger.positions # {})))
        /\ runner' => UNCHANGED <<runner, regime, position>> \/ (Bootstrap /\ ~runner)
        /\ tick' = tick
    BY <1>3 DEF RunFromHistory, Boot, Reconcile, StartRunner, db, state
  <2> SUFFICES ASSUME runner', ~missed' PROVE rerun = Live'
    BY <1>b, <2>1 DEF InStep
  <2>2. CASE UNCHANGED <<runner, regime, position>>
    BY <2>1, <2>2 DEF InStep, Live
  <2>3. CASE Bootstrap /\ ~runner
    BY <2>1, <2>3, StartsEmpty
  <2> QED BY <2>1, <2>2, <2>3
<1>4. CASE Unreplayed
  <2>1. UNCHANGED <<rerun, missed>>
    BY <1>4 DEF Unreplayed
  <2>2. ASSUME UNCHANGED <<history, runner, regime, position>>, pc \notin Acting,
               pc' \notin Acting, pc' # "down"
        PROVE  ReplayInv'
    BY <1>b, <2>1, <2>2 DEF InStep, Live
  <2>3. CASE EndLoop \/ IdleLoop \/ PollFails \/ WriteFeeCursor \/ SaveEvent \/ SaveMark
             \/ SaveBenchmarks
    <3>1. /\ UNCHANGED <<history, runner, regime, position>>
          /\ pc \notin Acting /\ pc' \notin Acting /\ pc' # "down"
      BY <2>3 DEF EndLoop, IdleLoop, PollFails, WriteFeeCursor, SaveEvent, SaveMark,
                  SaveBenchmarks, db, cursors, state
    <3> QED BY <2>2, <3>1
  <2>4. ASSUME NEW gap \in Gap, NEW gain \in Gain, NEW reading \in Reading,
               NEW volume \in Market \cup {"unknown"}, Poll(gap, gain, reading, volume)
        PROVE  ReplayInv'
    <3>1. /\ UNCHANGED <<history, runner, regime, position>>
          /\ pc \notin Acting /\ pc' \notin Acting /\ pc' # "down"
      BY <2>4 DEF Poll, db
    <3> QED BY <2>2, <3>1
  <2>5. ASSUME NEW bin \in Bin, Observe(bin)
        PROVE  ReplayInv'
    <3> DEFINE next == UpdateRegime(regime, clock, bin, tick.volume)
    <3>1. /\ pc = "check" /\ regime' = next
          /\ UNCHANGED <<clock, history, runner>>
          /\ Wait(next) \/ Open(next, bin) \/ HasPosition
          /\ tick' = [tick EXCEPT !.bin = bin, !.kind = IF pc' = "snapshot" THEN "WAIT" ELSE @]
      BY <2>5 DEF Observe, db, world
    <3>2. tick'.bin = bin /\ tick'.volume = tick.volume
      BY <1>c, <3>1 DEF Tick
    <3>4. pc' # "down"
      BY <3>1 DEF Wait, Open, HasPosition
    <3> HIDE DEF next
    <3> SUFFICES ASSUME runner, ~missed PROVE InStep'
      BY <1>b, <2>1, <3>1, <3>4
    <3>5. rerun = Live
      BY <3>1 DEF InStep
    <3>6. rerun.regime = regime /\ rerun.position = position /\ rerun' = rerun
      BY <3>5, <2>1 DEF Live
    <3>7. next = UpdateRegime(rerun.regime, clock, bin, tick.volume)
      BY <3>6 DEF next
    <3>8. next = UpdateRegime(rerun'.regime, clock', tick'.bin, tick'.volume)
      BY <3>1, <3>2, <3>6, <3>7
    <3>9. CASE Wait(next)
      <4>1. /\ pc' = "snapshot" /\ position' = position
            /\ position.status = "NONE" /\ ~VolReliable(next)
        BY <3>9 DEF Wait
      <4>2. ReplayRow' = [regime |-> next, position |-> rerun'.position]
        BY <3>6, <3>8, <4>1 DEF ReplayRow
      <4>3. Live' = [regime |-> next, position |-> rerun'.position]
        BY <3>1, <3>6, <4>1 DEF Live
      <4> QED BY <4>1, <4>2, <4>3 DEF InStep
    <3>10. CASE Open(next, bin)
      <4>1. /\ pc' = "openBench" /\ position' = OpenPosition(clock, bin)
            /\ position.status = "NONE" /\ VolReliable(next)
        BY <3>10 DEF Open
      <4>2. Ahead'
        BY <3>1, <3>2, <3>6, <3>8, <4>1 DEF Ahead, HeldBy
      <4> QED BY <4>1, <4>2 DEF InStep
    <3>11. CASE HasPosition
      <4>1. /\ pc' = "decide" /\ position' = position /\ position.status # "NONE"
        BY <3>11 DEF HasPosition
      <4>2. Ahead'
        BY <3>1, <3>2, <3>6, <3>8, <4>1 DEF Ahead, HeldBy
      <4> QED BY <4>1, <4>2 DEF InStep
    <3> QED BY <3>1, <3>9, <3>10, <3>11
  <2>6. CASE SaveOpenBenchmarks \/ SaveOpenEvent
    <3>1. /\ UNCHANGED <<history, runner, regime, position, clock, tick>>
          /\ pc \in {"openBench", "openEvent"} /\ pc' \in {"openEvent", "decide"}
      BY <2>6 DEF SaveOpenBenchmarks, SaveOpenEvent, state, cursors, world
    <3> QED BY <1>b, <2>1, <3>1 DEF InStep, Ahead, HeldBy
  <2>7. ASSUME NEW covered \in BOOLEAN, DecideAndApply(covered)
        PROVE  ReplayInv'
    <3> DEFINE accrued == AccrueFees(MarkPosition(position, clock, tick.bin), tick.bin,
                                     tick.fees)
               kind    == Decide(accrued, regime, clock, tick.bin, covered)
    <3>1. /\ pc = "decide" /\ pc' = "snapshot" /\ tick' = [tick EXCEPT !.kind = kind]
          /\ position' = Apply(kind, accrued, tick.bin)
          /\ UNCHANGED <<clock, history, runner, regime>>
      BY <2>7 DEF DecideAndApply, db, world
    <3>2. kind \in Kind
      BY DecideKind
    <3>3. tick'.kind = kind /\ UNCHANGED <<tick.bin, tick.volume, tick.fees>>
      BY <1>c, <3>1, <3>2 DEF Tick
    <3>4. Decide(accrued, regime, clock, tick.bin, kind = "REBALANCE") = kind
      BY DecidedAgain
    <3> HIDE DEF kind
    <3> SUFFICES ASSUME runner, ~missed PROVE ReplayRow' = Live'
      BY <1>b, <2>1, <3>1, <3>3 DEF InStep
    <3>5. Ahead /\ rerun' = rerun
      BY <1>b, <2>1, <3>1 DEF InStep
    <3>6. regime' = UpdateRegime(rerun'.regime, clock', tick'.bin, tick'.volume)
      BY <3>1, <3>3, <3>5 DEF Ahead
    <3>7. ~(rerun'.position.status = "NONE" /\ ~VolReliable(regime'))
      BY <3>1, <3>5 DEF Ahead
    <3>8. position = IF rerun'.position.status = "NONE"
                     THEN OpenPosition(clock', tick'.bin) ELSE rerun'.position
      BY <3>1, <3>3, <3>5 DEF Ahead, HeldBy
    <3>9. accrued = AccrueFees(MarkPosition(position, clock', tick'.bin), tick'.bin, tick'.fees)
      BY <3>1, <3>3
    <3> HIDE DEF accrued
    <3>10. kind = Decide(accrued, regime', clock', tick'.bin, tick'.kind = "REBALANCE")
      BY <3>1, <3>3, <3>4
    <3>11. position' = Apply(kind, accrued, tick'.bin)
      BY <3>1, <3>3
    <3> QED BY <3>6, <3>7, <3>8, <3>9, <3>10, <3>11 DEF ReplayRow, Live
  <2>8. CASE Crash \/ SetPoolMode
    <3>1. \/ ~runner' /\ UNCHANGED history
          \/ UNCHANGED <<history, runner, regime, position, clock, tick, pc>>
      BY <2>8 DEF Crash, SetPoolMode, db, state
    <3> QED BY <1>b, <2>1, <3>1 DEF InStep, Ahead, HeldBy, Live, ReplayRow
  <2> QED BY <1>4, <2>3, <2>4, <2>5, <2>6, <2>7, <2>8 DEF Unreplayed
<1>5. CASE UNCHANGED replayVars
  BY <1>5, <1>b DEF replayVars, vars, db, state, world, InStep, Ahead, HeldBy, Live, ReplayRow
<1> QED BY <1>1, <1>2, <1>3, <1>4, <1>5 DEF NextReplayed

(* Between two ticks the replay stands where the loop stands, whatever     *)
(* polls were lost, snapshots rejected and writes failed after a row was   *)
(* stored (tick against runVariant).                                       *)
THEOREM ReplayFollowsLoop == SpecReplayed => []ReplayAgrees
<1>1. InitReplayed => ReplayInv
  BY InitType DEF InitReplayed, Init, ReplayInv, InStep, Acting
<1>2. ReplayInv /\ [NextReplayed]_replayVars => ReplayInv'
  BY ReplayStep
<1>3. ReplayInv => ReplayAgrees
  BY DEF ReplayInv, InStep, Acting, ReplayAgrees, Live
<1> QED BY <1>1, <1>2, <1>3, PTL DEF SpecReplayed

=============================================================================
