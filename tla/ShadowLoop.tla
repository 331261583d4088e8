----------------------------- MODULE ShadowLoop -----------------------------
(***************************************************************************)
(* The shadow loop (src/index.ts) of one managed pool: polling, deciding,  *)
(* and writing to the ledger (ledger/persist.ts), whose writes are         *)
(* separate awaits outside any database transaction.  Each of them may     *)
(* fail, which abandons the tick and keeps what is in memory, and the      *)
(* process may die between any two of them, which does the opposite.       *)
(***************************************************************************)
EXTENDS ShadowStrategy

CONSTANTS
  Bin,             \* bins the price moves over
  Gap,             \* time between two loops
  Gain,            \* fees the pool earns between two loops
  Reading,         \* what the pool stats API may answer
  Market,          \* volume/TVL readings it may carry
  Events,          \* what may go wrong, or change, in this instance
  ReconcileEvery,  \* loops between two calls of reconcileRunners
  MaxTime          \* bound: the clock stops here

(* full: with the cumulative fees; partial: without them; reset: with a    *)
(* counter that has gone back to zero; none: no answer.                    *)
Readings == {"none", "full", "partial", "reset"}

ASSUME LoopAssumption ==
  /\ Bin \subseteq Int
  /\ Gap \subseteq Nat \ {0}
  /\ Gain \subseteq Nat
  /\ Reading \subseteq Readings
  /\ Market \subseteq Volume
  /\ Events \subseteq {"rpc", "db", "crash", "operator"}
  /\ ReconcileEvery \in Nat \ {0}
  /\ MaxTime \in Nat

VARIABLES
  clock,        \* time of the current loop
  earned,       \* fees the pool has earned in its lifetime
  mode,         \* ManagedPool.mode
  feeCursor,    \* KeyValue pool:cumulativeTradeFeeUsd
  benchCursor,  \* KeyValue benchmark:state, as the time it was seeded
  history,      \* Snapshot rows
  ledger,       \* the latest VirtualPositionEvent rows: all those of one time
  pc,           \* where the process stands
  loops,        \* sinceReconcile
  runner,       \* the pool has a runner
  regime,       \* runner.state.regime
  position,     \* runner.state.position
  bench,        \* runner.state.benchmarks, as the time they were seeded
  lastFee,      \* runner.state.lastCumulativeFeeUsd
  lastTick,     \* runner.state.lastTickTs, as the value of earned at that time
  tick,         \* locals of the tick in progress
  dryFrom,      \* (history) first low reading since the last healthy one
  lastInside,   \* (history) last time the price was seen inside the range
  lastRow       \* (history) value of earned at the latest row of history

world   == <<clock, earned, mode>>
cursors == <<feeCursor, benchCursor>>
db      == <<cursors, history, ledger>>
state   == <<regime, position, bench, lastFee, lastTick>>
auxVars == <<dryFrom, lastInside, lastRow>>
vars == <<world, db, pc, loops, runner, state, tick, auxVars>>

NoCount == -1  \* a fee counter that is null

(* An EXITED position stays in the ledger with all the others; only the    *)
(* rows of the latest time matter, since bootstrap reads no other.         *)
NoEvents == [ts |-> Never, positions |-> {}]

(* fees is poolFeesIntervalUsd; WAIT marks a tick without a position.      *)
Tick == [volume : Volume, fees : Nat, bin : Int, kind : Kind \cup {"WAIT", "NONE"}]

NoTick == [volume |-> "unknown", fees |-> 0, bin |-> 0, kind |-> "NONE"]

Writing == {"cursor", "openBench", "openEvent", "snapshot", "event", "mark", "bench"}

TypeOK ==
  /\ clock \in Nat \ {0}
  /\ earned \in Nat
  /\ mode \in {"SHADOW", "PAUSED", "STOPPED"}
  /\ feeCursor \in Nat \cup {NoCount}
  /\ benchCursor \in Nat
  /\ history \subseteq Sample
  /\ ledger \in [ts : Nat, positions : SUBSET Position]
  /\ pc \in {"down", "idle", "check", "decide", "end", "reconcile"} \cup Writing
  /\ loops \in Nat
  /\ runner \in BOOLEAN
  /\ regime \in Regime
  /\ position \in Position
  /\ bench \in Nat
  /\ lastFee \in Nat \cup {NoCount}
  /\ lastTick \in Nat \cup {NoCount}
  /\ tick \in Tick
  /\ dryFrom \in Nat
  /\ lastInside \in Nat
  /\ lastRow \in Nat \cup {NoCount}

Forgotten ==
  /\ regime' = InitRegime
  /\ position' = NoPosition
  /\ bench' = Never
  /\ lastFee' = NoCount
  /\ lastTick' = NoCount

Init ==
  /\ clock = 1
  /\ earned = 0
  /\ mode = "SHADOW"
  /\ feeCursor = NoCount
  /\ benchCursor = Never
  /\ history = {}
  /\ ledger = NoEvents
  /\ pc = "down"
  /\ loops = 0
  /\ runner = FALSE
  /\ regime = InitRegime
  /\ position = NoPosition
  /\ bench = Never
  /\ lastFee = NoCount
  /\ lastTick = NoCount
  /\ tick = NoTick
  /\ dryFrom = Never
  /\ lastInside = Never
  /\ lastRow = NoCount

-----------------------------------------------------------------------------
(* Runners: start, reconcile *)

(* Mutation of Restored: an exited position is not usable detail.          *)
RestoredActive ==
  LET usable == {p \in ledger.positions : p.status = "ACTIVE"}
  IN  IF usable = {} THEN {NoPosition} ELSE usable

(* The position of the last event; several of one time are equally last.   *)
Restored == IF ledger.positions = {} THEN {NoPosition} ELSE ledger.positions

SeenBefore ==
  LET rows == Cardinality(history)
  IN  IF rows <= MinSamples THEN rows ELSE MinSamples + 1

(* bootstrap(): the volatility and the settle window are rebuilt from the  *)
(* stored snapshots, the exit clock is not.                                *)
Bootstrap ==
  /\ runner' = TRUE
  /\ position' \in Restored
  /\ bench' = benchCursor
  /\ lastFee' = feeCursor
  /\ lastTick' = lastRow
  /\ regime' = [window   |-> {x \in history : x.ts >= clock - 2 * SettleTime},
                lowSince |-> Never,
                seen     |-> SeenBefore]

StartRunner ==
  \/ Bootstrap
  \/ "rpc" \in Events /\ UNCHANGED <<runner, state>>

Boot ==
  /\ pc = "down"
  /\ IF mode = "SHADOW" THEN StartRunner ELSE UNCHANGED <<runner, state>>
  /\ pc' = "idle"
  /\ UNCHANGED <<world, db, loops, tick, auxVars>>

(* A runner that is kept keeps its memory; one that left SHADOW loses it.  *)
Reconcile ==
  /\ pc = "reconcile"
  /\ \/ mode = "SHADOW" /\ ~runner /\ StartRunner
     \/ mode = "SHADOW" /\ runner /\ UNCHANGED <<runner, state>>
     \/ mode # "SHADOW" /\ runner' = FALSE /\ Forgotten
  /\ pc' = "idle"
  /\ UNCHANGED <<world, db, loops, tick, auxVars>>

EndLoop ==
  /\ pc = "end"
  /\ IF loops + 1 >= ReconcileEvery
     THEN loops' = 0 /\ pc' = "reconcile"
     ELSE loops' = loops + 1 /\ pc' = "idle"
  /\ tick' = NoTick
  /\ UNCHANGED <<world, db, runner, state, auxVars>>

-----------------------------------------------------------------------------
(* tick(): poll *)

(* The 24h figure pro-rated over the time since the last accepted snapshot *)
(* (over one loop if there is none) is taken to be what the pool earned    *)
(* in that time.                                                           *)
ProRated(total, gain) == IF lastTick = NoCount THEN gain ELSE total - lastTick

(* intervalFeesUsd                                                         *)
IntervalFees(reading, reported, total, gain) ==
  CASE reading = "none" -> 0
    [] reading \in {"full", "reset"} /\ lastFee # NoCount /\ reported >= lastFee ->
         reported - lastFee
    [] OTHER -> ProRated(total, gain)

PassTime(gap, gain) ==
  /\ clock + gap <= MaxTime
  /\ clock' = clock + gap
  /\ earned' = earned + gain

IdleLoop ==
  /\ pc = "idle"
  /\ ~runner
  /\ \E gap \in Gap, gain \in Gain : PassTime(gap, gain)
  /\ pc' = "end"
  /\ UNCHANGED <<mode, db, loops, runner, state, tick, auxVars>>

PollFails ==
  /\ pc = "idle"
  /\ runner
  /\ "rpc" \in Events
  /\ \E gap \in Gap, gain \in Gain : PassTime(gap, gain)
  /\ pc' = "end"
  /\ UNCHANGED <<mode, db, loops, runner, state, tick, auxVars>>

Poll(gap, gain, reading, volume) ==
  LET reported == IF reading = "reset" THEN 0 ELSE earned'
      counted  == reading \in {"full", "reset"}
  IN  /\ pc = "idle"
      /\ runner
      /\ PassTime(gap, gain)
      /\ reading = "none" => volume = "unknown"
      /\ tick' = [NoTick EXCEPT !.volume = volume,
                                !.fees = IntervalFees(reading, reported, earned', gain)]
      /\ lastFee' = IF counted THEN reported ELSE lastFee
      /\ pc' = IF counted THEN "cursor" ELSE "check"
      /\ UNCHANGED <<mode, db, loops, runner, regime, position, bench, lastTick, auxVars>>

(* Mutation of WriteFeeCursor: the upsert updates nothing.                 *)
CreateFeeCursor ==
  /\ pc = "cursor"
  /\ feeCursor' = IF feeCursor = NoCount THEN lastFee ELSE feeCursor
  /\ pc' = "check"
  /\ UNCHANGED <<world, benchCursor, history, ledger, loops, runner, state, tick, auxVars>>

WriteFeeCursor ==
  /\ pc = "cursor"
  /\ feeCursor' = lastFee
  /\ pc' = "check"
  /\ UNCHANGED <<world, benchCursor, history, ledger, loops, runner, state, tick, auxVars>>

-----------------------------------------------------------------------------
(* tick(): signals and opening *)

(* Mutation of Wait: the snapshot of a waiting tick is not stored.         *)
WaitUnsaved(next) ==
  /\ position.status = "NONE" /\ ~VolReliable(next)
  /\ pc' = "end"
  /\ UNCHANGED <<position, bench, lastInside>>

(* Nothing is opened while the volatility is not yet measurable.           *)
Wait(next) ==
  /\ position.status = "NONE" /\ ~VolReliable(next)
  /\ pc' = "snapshot"
  /\ UNCHANGED <<position, bench, lastInside>>

Open(next, bin) ==
  /\ position.status = "NONE" /\ VolReliable(next)
  /\ position' = OpenPosition(clock, bin)
  /\ bench' = clock
  /\ lastInside' = clock
  /\ pc' = "openBench"

HasPosition ==
  /\ position.status # "NONE"
  /\ pc' = "decide"
  /\ UNCHANGED <<position, bench, lastInside>>

Observe(bin) ==
  LET next == UpdateRegime(regime, clock, bin, tick.volume)
  IN  /\ pc = "check"
      /\ lastTick' = earned
      /\ regime' = next
      /\ Wait(next) \/ Open(next, bin) \/ HasPosition
      /\ tick' = [tick EXCEPT !.bin = bin, !.kind = IF pc' = "snapshot" THEN "WAIT" ELSE @]
      /\ dryFrom' = CASE tick.volume = "healthy" -> Never
                      [] tick.volume = "low" /\ dryFrom = Never -> clock
                      [] OTHER -> dryFrom
      /\ UNCHANGED <<world, db, loops, runner, lastFee, lastRow>>

(* Mutation of SaveOpenBenchmarks: left to the end of the tick.            *)
DeferOpenBenchmarks ==
  /\ pc = "openBench"
  /\ pc' = "openEvent"
  /\ UNCHANGED <<world, db, loops, runner, state, tick, auxVars>>

SaveOpenBenchmarks ==
  /\ pc = "openBench"
  /\ benchCursor' = bench
  /\ pc' = "openEvent"
  /\ UNCHANGED <<world, feeCursor, history, ledger, loops, runner, state, tick, auxVars>>

(* saveVirtualEvent                                                        *)
Record ==
  ledger' = [ts        |-> clock,
             positions |-> {position} \cup
                             IF ledger.ts = clock THEN ledger.positions ELSE {}]

SaveOpenEvent ==
  /\ pc = "openEvent"
  /\ Record
  /\ pc' = "decide"
  /\ UNCHANGED <<world, cursors, history, loops, runner, state, tick, auxVars>>

-----------------------------------------------------------------------------
(* tick(): mark, accrue, decide, apply, persist *)

(* The estimated costs are awaited between accruing and deciding, but      *)
(* nothing else runs in the process meanwhile.                             *)
DecideAndApply(covered) ==
  LET marked  == MarkPosition(position, clock, tick.bin)
      accrued == AccrueFees(marked, tick.bin, tick.fees)
      kind    == Decide(accrued, regime, clock, tick.bin, covered)
      applied == Apply(kind, accrued, tick.bin)
  IN  /\ pc = "decide"
      /\ position' = applied
      /\ bench' = IF bench = Never THEN clock ELSE bench
      /\ tick' = [tick EXCEPT !.kind = kind]
      /\ lastInside' = IF InRange(applied, tick.bin) THEN clock ELSE lastInside
      /\ pc' = "snapshot"
      /\ UNCHANGED <<world, db, loops, runner, regime, lastFee, lastTick, dryFrom, lastRow>>

(* The decision row that follows the snapshot is read by no later tick.    *)
SaveSnapshot ==
  /\ pc = "snapshot"
  /\ history' = history \cup {[ts |-> clock, bin |-> tick.bin]}
  /\ lastRow' = earned
  /\ pc' = CASE tick.kind = "WAIT" -> "end"
             [] tick.kind = "HOLD" -> "mark"
             [] OTHER -> "event"
  /\ UNCHANGED <<world, cursors, ledger, loops, runner, state, tick, dryFrom, lastInside>>

SaveEvent ==
  /\ pc = "event"
  /\ Record
  /\ pc' = "mark"
  /\ UNCHANGED <<world, cursors, history, loops, runner, state, tick, auxVars>>

SaveMark ==
  /\ pc = "mark"
  /\ Record
  /\ pc' = "bench"
  /\ UNCHANGED <<world, cursors, history, loops, runner, state, tick, auxVars>>

(* saveBenchmarkMark and the cursor after it                               *)
SaveBenchmarks ==
  /\ pc = "bench"
  /\ benchCursor' = bench
  /\ pc' = "end"
  /\ UNCHANGED <<world, feeCursor, history, ledger, loops, runner, state, tick, auxVars>>

(* assertUsableSnapshot throws.                                            *)
Rejected == pc = "check" /\ "rpc" \in Events

Unwritten == pc \in Writing /\ "db" \in Events

(* Whatever tick() throws after the poll: main goes on with the next pool. *)
TickThrows ==
  /\ Rejected \/ Unwritten
  /\ pc' = "end"
  /\ UNCHANGED <<world, db, loops, runner, state, tick, auxVars>>

-----------------------------------------------------------------------------
(* The process and the operator (external) *)

(* A kill, anywhere (SIGTERM lets the loop finish first), or a query of    *)
(* reconcileRunners that fails: no try block surrounds it.                 *)
Crash ==
  /\ pc # "down"
  /\ "crash" \in Events
  /\ pc' = "down"
  /\ loops' = 0
  /\ runner' = FALSE
  /\ Forgotten
  /\ tick' = NoTick
  /\ UNCHANGED <<world, db, auxVars>>

(* Mutation of SetPoolMode: another mode is let in.                        *)
SetPoolModeLive ==
  /\ "operator" \in Events
  /\ mode \in {"SHADOW", "PAUSED"}
  /\ mode' \in {"PAUSED", "STOPPED", "LIVE"}
  /\ UNCHANGED <<clock, earned, db, pc, loops, runner, state, tick, auxVars>>

SetPoolMode ==
  /\ "operator" \in Events
  /\ \/ mode = "SHADOW" /\ mode' \in {"PAUSED", "STOPPED"}
     \/ mode = "PAUSED" /\ mode' \in {"SHADOW", "STOPPED"}
  /\ UNCHANGED <<clock, earned, db, pc, loops, runner, state, tick, auxVars>>

-----------------------------------------------------------------------------

Next ==
  \/ Boot \/ Reconcile \/ EndLoop \/ IdleLoop \/ PollFails
  \/ \E gap \in Gap, gain \in Gain, reading \in Reading, volume \in Market \cup {"unknown"} :
       Poll(gap, gain, reading, volume)
  \/ WriteFeeCursor
  \/ \E bin \in Bin : Observe(bin)
  \/ SaveOpenBenchmarks \/ SaveOpenEvent
  \/ \E covered \in BOOLEAN : DecideAndApply(covered)
  \/ SaveSnapshot \/ SaveEvent \/ SaveMark \/ SaveBenchmarks \/ TickThrows
  \/ Crash \/ SetPoolMode

Spec == Init /\ [][Next]_vars

(* Correctness *)

(* No fee the pool earned is credited to the position twice, in memory or  *)
(* in the ledger: a tick that fails or dies after its poll may lose fees,  *)
(* but the cursor is always at least as far as the position (tick's order  *)
(* of writes and bootstrap's reads).                                       *)
FeesCountedOnce ==
  /\ position.fees <= earned
  /\ \A p \in ledger.positions : p.fees <= earned

Exited(positions) == positions # {} /\ \A p \in positions : p.status = "EXITED"

(* An exit is final: once the latest events all say EXITED, no restart,    *)
(* pause or failed write brings the position back.  The opening tick is    *)
(* apart: its OPEN and EXIT events have one timestamp, and bootstrap may   *)
(* restore either.                                                         *)
ExitIsFinal == [][Exited(ledger.positions) => Exited(ledger'.positions)]_vars

(* The three equity curves start together: whatever was lost in a crash,   *)
(* a benchmark mark is drawn from the time the marked position was opened. *)
BenchmarksShareBaseline == pc = "bench" => bench = position.openedAt

Decided == pc = "snapshot" /\ tick.kind # "WAIT"

(* A pool whose volume/TVL readings have been low, or missing, since a low *)
(* one ExitDwell ago is not held any longer, whatever ticks failed in      *)
(* between, as long as the process lives.                                  *)
ExitsOnTime ==
  Decided /\ dryFrom # Never /\ clock - dryFrom >= ExitDwell
    => position.status = "EXITED"

(* A range is only left behind when the price has been outside it at every *)
(* accepted snapshot for OorDwell ("continuously out of range"), although  *)
(* the dwell clock travels through the position and failed ticks leave it  *)
(* in memory only.                                                         *)
DwellIsContinuous ==
  [][pc = "decide" /\ position'.lower # position.lower
       => clock - lastInside >= OorDwell]_vars

(* A quiet price settles: when the window holds observations over at least *)
(* SettleTime and all of them are within the band (regime.ts:32-37, "price *)
(* has stayed inside a settleBandPct band for at least settleMin minutes", *)
(* "the window must actually span settleMin minutes of observations").     *)
QuietWindowIsSettled ==
  pc = "decide" /\ WithinBand(regime.window)
    /\ (\E x \in regime.window : x.ts <= clock - SettleTime)
    /\ Cardinality({x \in regime.window : x.ts >= clock - SettleTime}) >= 2
    => Settled(regime.window, clock)

=============================================================================
