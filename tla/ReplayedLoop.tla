---------------------------- MODULE ReplayedLoop ----------------------------
(***************************************************************************)
(* A replay (replay/replay.ts) beside the loop that recorded its input:    *)
(* every Snapshot row is run, as it is stored, through the same signals,   *)
(* position and engine.                                                    *)
(***************************************************************************)
EXTENDS ShadowLoop

VARIABLES
  rerun,   \* state and position of the replay of the rows stored so far
  missed   \* (history) the loop acted on a snapshot it did not store

replayVars == <<vars, rerun, missed>>

NoRerun == [regime |-> InitRegime, position |-> NoPosition]

InitReplayed ==
  /\ Init
  /\ rerun = NoRerun
  /\ missed = FALSE

(* One row of runVariant: the row carries the time, the bin, the reading   *)
(* and the fees; whether the recapture covers the costs is computed from   *)
(* the row as the loop computed it.                                        *)
ReplayRow ==
  LET next    == UpdateRegime(rerun.regime, clock, tick.bin, tick.volume)
      waits   == rerun.position.status = "NONE" /\ ~VolReliable(next)
      held    == IF rerun.position.status = "NONE"
                 THEN OpenPosition(clock, tick.bin) ELSE rerun.position
      accrued == AccrueFees(MarkPosition(held, clock, tick.bin), tick.bin, tick.fees)
      kind    == Decide(accrued, next, clock, tick.bin, tick.kind = "REBALANCE")
  IN  [regime   |-> next,
       position |-> IF waits THEN rerun.position ELSE Apply(kind, accrued, tick.bin)]

ReplaySnapshot ==
  /\ SaveSnapshot
  /\ rerun' = ReplayRow
  /\ UNCHANGED missed

(* A write that fails after the signals and before the row is stored       *)
(* leaves the snapshot in memory only.                                     *)
AbandonTick ==
  /\ TickThrows
  /\ missed' = (missed \/ pc \in {"openBench", "openEvent", "snapshot"})
  /\ UNCHANGED rerun

(* A restart does not bring everything back; it may also find the event of *)
(* an opening whose snapshot was not stored.                               *)
RunFromHistory ==
  /\ Boot \/ Reconcile
  /\ missed' = (missed \/ (~runner /\ runner' /\ (history # {} \/ ledger.positions # {})))
  /\ UNCHANGED rerun

Unreplayed ==
  /\ \/ EndLoop \/ IdleLoop \/ PollFails
     \/ \E gap \in Gap, gain \in Gain, reading \in Reading, volume \in Market \cup {"unknown"} :
          Poll(gap, gain, reading, volume)
     \/ WriteFeeCursor
     \/ \E bin \in Bin : Observe(bin)
     \/ SaveOpenBenchmarks \/ SaveOpenEvent
     \/ \E covered \in BOOLEAN : DecideAndApply(covered)
     \/ SaveEvent \/ SaveMark \/ SaveBenchmarks \/ Crash \/ SetPoolMode
  /\ UNCHANGED <<rerun, missed>>

NextReplayed == ReplaySnapshot \/ AbandonTick \/ RunFromHistory \/ Unreplayed

SpecReplayed == InitReplayed /\ [][NextReplayed]_replayVars

(* "The same snapshot with the same params produces exactly what the live  *)
(* loop produced" (replay.ts:4-7): between two ticks the replay of the     *)
(* rows stored so far stands where the loop stands, whatever polls were    *)
(* lost, snapshots rejected and writes failed after a row was stored.      *)
ReplayAgrees ==
  pc = "idle" /\ runner /\ ~missed
    => rerun = [regime |-> regime, position |-> position]
=============================================================================
