----------------------- MODULE ExecutionPipelineProofs -----------------------
(***************************************************************************)
(* Theorems about the execution pipeline, for every number of executors,   *)
(* projects, requests and retries and every combination of Events.         *)
(***************************************************************************)
EXTENDS ExecutionPipeline, FiniteSetTheorems, SequenceTheorems, WellFoundedInduction, TLAPS

(* A call that is not idle has a request, and an idle executor has none.   *)
CallHasRequest ==
  \A e \in Executor : pc[e] # "idle" => req[e] \in Request

(* A transaction is waited for only at "sent" and "confirmed".             *)
FlightAgrees ==
  \A e \in Executor :
    /\ flight[e] = "flying" => pc[e] = "sent"
    /\ pc[e] \in {"caps", "simulate", "signed", "sent", "confirmed"} => plan[e] # <<>>

(* An executor that is done knows a settled status.                        *)
DoneIsSettled ==
  \A e \in Executor : pc[e] = "done" => status[e] \in {"STUCK", "RECONCILED"}

(* Only an executor that found no RECONCILED row works on a request, and   *)
(* one that found it leaves it RECONCILED.                                 *)
NoWorkOnReconciled ==
  \A e \in Executor :
    /\ pc[e] \in Working => intent[req[e]] # "RECONCILED"
    /\ pc[e] = "done" /\ intent[req[e]] = "RECONCILED" => status[e] = "RECONCILED"

-----------------------------------------------------------------------------
(* Facts about the operators *)

(* Whatever is built for a request is a non-empty sequence of phases.      *)
LEMMA BuildTyping ==
  ASSUME NEW r \in Request, NEW completed
  PROVE  Build(r, completed) \in Seq(Phase) /\ Build(r, completed) # <<>>
  <1>1. \A phase \in Phase : <<phase>> \in Seq(Phase) \ {<<>>}
    OBVIOUS
  <1>2. {"founder-sweep", "create-pool", "add-liquidity", "claim-rewards",
         "remove-liquidity", "initialize-position"} \subseteq Phase
    BY DEF Phase
  <1>3. \A phase \in Phase, rest \in Seq(Phase) : <<phase>> \o rest \in Seq(Phase) \ {<<>>}
    OBVIOUS
  <1>4. Adding \in Seq(Phase) /\ Opening(completed) \in Seq(Phase) \ {<<>>}
    BY <1>1, <1>2, <1>3, Zenon DEF Opening, Adding
  <1>5. Removing \o Opening(completed) \in Seq(Phase) \ {<<>>}
    BY <1>2, <1>3, <1>4, Zenon DEF Removing
  <1>6. Build(r, completed) \in {<<phase>> : phase \in Phase} \cup
          {Opening(completed), Removing \o Opening(completed)}
    BY <1>2, Zenon DEF Build, Adding, Removing, Sweeping
  <1>7. QED
    BY <1>1, <1>4, <1>5, <1>6

LEMMA PlanTyping ==
  ASSUME NEW r \in Request, NEW verdict
  PROVE  PlanFor(r, verdict) \in Seq(Phase) /\ PlanFor(r, verdict) # <<>>
  BY BuildTyping DEF PlanFor, Recipe

(* A transaction leaves the chain well formed.                             *)
LEMMA EffectTyping ==
  ASSUME NEW c \in ChainState, NEW r \in Request, NEW phase \in Phase
  PROVE  TxEffect(c, r, phase) \in ChainState
  BY DEF TxEffect, ChainState, Phase

(* What is left of a non-empty plan after its head.                        *)
LEMMA TailTyping ==
  ASSUME NEW S, NEW s \in Seq(S), s # <<>>
  PROVE  Tail(s) \in Seq(S) /\ (Len(s) # 1 => Tail(s) # <<>>)
  <1>1. Len(s) \in Nat \ {0}
    OBVIOUS
  <1>2. Tail(s) \in Seq(S) /\ Len(Tail(s)) = Len(s) - 1
    BY <1>1
  <1>3. Len(<<>>) = 0
    OBVIOUS
  <1>4. Len(Tail(s)) # 0 => Tail(s) # <<>>
    BY <1>3, Zenon
  <1>5. QED
    BY <1>1, <1>2, <1>4

(* The helpers of the actions keep the types of what they change.          *)
LEMMA CreateOutcomeTyping ==
  ASSUME outcome \in [Executor -> Outcomes], NEW e \in Executor,
         NEW s \in OutcomeStatus, CreateOutcome(e, s)
  PROVE  outcome' \in [Executor -> Outcomes]
  BY DEF CreateOutcome, Outcomes

LEMMA UpdateOutcomeTyping ==
  ASSUME outcome \in [Executor -> Outcomes], NEW e \in Executor,
         NEW s \in OutcomeStatus, UpdateOutcome(e, s)
  PROVE  outcome' \in [Executor -> Outcomes]
  BY DEF UpdateOutcome, Outcomes

LEMMA TakesEffectTyping ==
  ASSUME chain \in ChainState, landed \in [Request -> [Phase -> 0..2]],
         NEW r \in Request, NEW phase \in Phase, TakesEffect(r, phase)
  PROVE  /\ chain' \in ChainState
         /\ landed' \in [Request -> [Phase -> 0..2]]
  <1>1. chain' \in ChainState
    BY EffectTyping DEF TakesEffect
  <1>2. landed' \in [Request -> [Phase -> 0..2]]
    BY DEF TakesEffect
  <1>3. QED
    BY <1>1, <1>2

-----------------------------------------------------------------------------
(* Type correctness.  TypeOK is not inductive: orphans are built from the  *)
(* request and the plan of an executor, so both must be there when an      *)
(* executor sends.                                                         *)

WellFormed == TypeOK /\ CallHasRequest /\ FlightAgrees

LEMMA NoOutcomesTyping == NoOutcomes \in Outcomes
  BY DEF NoOutcomes, Outcomes

LEMMA WellFormedInit == Init => WellFormed
  <1> SUFFICES ASSUME Init
               PROVE  WellFormed
    OBVIOUS
  <1>1. <<>> \in Seq(Phase)
    OBVIOUS
  <1>2. TypeOK
    <2>1. InitialChain \in ChainState
      BY PipelineAssumption
    <2>2. landed \in [Request -> [Phase -> 0..2]]
      BY DEF Init
    <2>3. /\ killSwitch \in BOOLEAN /\ chain \in ChainState
          /\ lock \in [Project -> Executor \cup {NoExecutor}]
          /\ outcomes \in [Request -> Outcomes] /\ outcome \in [Executor -> Outcomes]
          /\ plan \in [Executor -> Seq(Phase)]
      BY <1>1, <2>1, NoOutcomesTyping DEF Init
    <2>4. /\ intent \in [Request -> IntentStatus] /\ status \in [Executor -> IntentStatus]
          /\ pc \in [Executor -> OutsideLock \cup InLock]
          /\ req \in [Executor -> Request \cup {NoRequest}]
          /\ flight \in [Executor -> {"none", "flying", "landed"}]
          /\ window \subseteq Request /\ orphan \subseteq Request \X Phase
      BY DEF Init, IntentStatus, OutsideLock
    <2>5. QED
      BY <2>2, <2>3, <2>4 DEF TypeOK
  <1>3. CallHasRequest /\ FlightAgrees
    BY DEF Init, CallHasRequest, FlightAgrees
  <1>4. QED
    BY <1>2, <1>3 DEF WellFormed

(* Leaving resets the executor and frees a lock.                           *)
LEMMA LeaveTyping ==
  ASSUME WellFormed, NEW e \in Executor, Leave(e)
  PROVE  /\ lock' \in [Project -> Executor \cup {NoExecutor}]
         /\ pc' \in [Executor -> OutsideLock \cup InLock]
         /\ req' \in [Executor -> Request \cup {NoRequest}]
         /\ plan' \in [Executor -> Seq(Phase)]
         /\ flight' \in [Executor -> {"none", "flying", "landed"}]
         /\ status' \in [Executor -> IntentStatus]
         /\ outcome' \in [Executor -> Outcomes]
         /\ CallHasRequest' /\ FlightAgrees'
  <1> USE DEF WellFormed, TypeOK, Leave, Goto
  <1>1. <<>> \in Seq(Phase)
    OBVIOUS
  <1>2. plan' \in [Executor -> Seq(Phase)]
    BY <1>1
  <1>3. outcome' \in [Executor -> Outcomes]
    BY NoOutcomesTyping
  <1>4. pc' \in [Executor -> OutsideLock \cup InLock]
    BY DEF OutsideLock
  <1>5. status' \in [Executor -> IntentStatus]
    BY DEF IntentStatus
  <1>6. CallHasRequest'
    BY DEF CallHasRequest
  <1>7. FlightAgrees'
    BY DEF FlightAgrees
  <1>8. QED
    BY <1>2, <1>3, <1>4, <1>5, <1>6, <1>7

(* An orphan is a phase of a request.                                      *)
LEMMA AbandonTyping ==
  ASSUME WellFormed, NEW e \in Executor, pc[e] # "idle", AbandonFlight(e)
  PROVE  orphan' \subseteq Request \X Phase
  <1>1. req[e] \in Request
    BY DEF WellFormed, CallHasRequest
  <1>2. CASE Unaccounted(e)
    <2>1. Head(plan[e]) \in Phase
      BY <1>2 DEF WellFormed, TypeOK, FlightAgrees, Unaccounted, At
    <2>2. QED
      BY <1>1, <2>1 DEF WellFormed, TypeOK, AbandonFlight
  <1>3. CASE ~Unaccounted(e)
    BY <1>3 DEF WellFormed, TypeOK, AbandonFlight
  <1>4. QED
    BY <1>2, <1>3

LEMMA WellFormedStep == WellFormed /\ [Next]_vars => WellFormed'
  <1> SUFFICES ASSUME WellFormed, [Next]_vars
               PROVE  WellFormed'
    OBVIOUS
  <1> USE DEF WellFormed, TypeOK, CallHasRequest, FlightAgrees, At, Goto, SetStatus,
              dbVars, rowVars, chainVars, OutsideLock, InLock, IntentStatus
  <1>1. ASSUME NEW e \in Executor, NEW r \in Request, Execute(e, r)
        PROVE  WellFormed'
    BY <1>1 DEF Execute
  <1>2. ASSUME NEW e \in Executor, AcquireLock(e)
        PROVE  WellFormed'
    BY <1>2 DEF AcquireLock
  <1>3. ASSUME NEW e \in Executor, LockContention(e)
        PROVE  WellFormed'
    BY <1>3 DEF LockContention
  <1>4. ASSUME NEW e \in Executor, Refuse(e)
        PROVE  WellFormed'
    BY <1>4 DEF Refuse
  <1>5. ASSUME NEW e \in Executor, RejectByPolicy(e)
        PROVE  WellFormed'
    BY <1>5 DEF RejectByPolicy
  <1>6. ASSUME NEW e \in Executor, AlreadyReconciled(e)
        PROVE  WellFormed'
    BY <1>6 DEF AlreadyReconciled
  <1>7. ASSUME NEW e \in Executor, FindIntent(e)
        PROVE  WellFormed'
    BY <1>7 DEF FindIntent
  <1>8. ASSUME NEW e \in Executor, CreateIntent(e)
        PROVE  WellFormed'
    BY <1>8, BuildTyping
    DEF CreateIntent, Recipe
  <1>9. ASSUME NEW e \in Executor, Recover(e)
        PROVE  WellFormed'
    <2>1. /\ pc[e] = "recover"
          /\ UNCHANGED <<killSwitch, lock, dbVars, req, flight, outcome, chainVars>>
      BY <1>9 DEF Recover
    <2>2. \/ /\ \E s \in {"RECONCILED", "STUCK"} : SetStatus(e, s)
             /\ Goto(e, "done")
             /\ UNCHANGED plan
          \/ /\ \E verdict : plan' = [plan EXCEPT ![e] = PlanFor(req[e], verdict)]
             /\ Goto(e, "caps")
             /\ UNCHANGED status
      BY <1>9, Zenon DEF Recover
    <2>3. CASE /\ \E s \in {"RECONCILED", "STUCK"} : SetStatus(e, s)
               /\ Goto(e, "done")
               /\ UNCHANGED plan
      BY <2>1, <2>3
    <2>4. CASE /\ \E verdict : plan' = [plan EXCEPT ![e] = PlanFor(req[e], verdict)]
               /\ Goto(e, "caps")
               /\ UNCHANGED status
      <3>1. PICK verdict : plan' = [plan EXCEPT ![e] = PlanFor(req[e], verdict)]
        BY <2>4
      <3>2. PlanFor(req[e], verdict) \in Seq(Phase) \ {<<>>}
        BY <2>1, PlanTyping
      <3>3. QED
        BY <2>1, <2>4, <3>1, <3>2
    <2>5. QED
      BY <2>2, <2>3, <2>4
  <1>10. ASSUME NEW e \in Executor, CheckCaps(e)
        PROVE  WellFormed'
    BY <1>10 DEF CheckCaps
  <1>11. ASSUME NEW e \in Executor, SimulationFails(e)
        PROVE  WellFormed'
    BY <1>11 DEF SimulationFails
  <1>12. ASSUME NEW e \in Executor, SimulateAndSign(e)
        PROVE  WellFormed'
    BY <1>12 DEF SimulateAndSign
  <1>13. ASSUME NEW e \in Executor, Send(e)
        PROVE  WellFormed'
    BY <1>13, CreateOutcomeTyping
    DEF Send, OutcomeStatus
  <1>14. ASSUME NEW e \in Executor, SendFails(e)
        PROVE  WellFormed'
    BY <1>14, CreateOutcomeTyping, AbandonTyping
    DEF SendFails, OutcomeStatus
  <1>15. ASSUME NEW e \in Executor, Confirmed(e)
        PROVE  WellFormed'
    BY <1>15, UpdateOutcomeTyping
    DEF Confirmed, OutcomeStatus
  <1>16. ASSUME NEW e \in Executor, Finalized(e)
        PROVE  WellFormed'
    <2>1. outcome' \in [Executor -> Outcomes]
      BY <1>16, UpdateOutcomeTyping DEF Finalized, OutcomeStatus
    <2>2. /\ SetStatus(e, "FINALIZED")
          /\ flight' = [flight EXCEPT ![e] = "none"]
          /\ UNCHANGED <<killSwitch, lock, dbVars, req, chainVars>>
      BY <1>16 DEF Finalized
    <2>3. plan[e] \in Seq(Phase) /\ plan[e] # <<>> /\ pc[e] = "confirmed"
      BY <1>16 DEF Finalized
    <2>4. PICK rest \in Seq(Phase) :
            rest = Tail(plan[e]) /\ (Len(plan[e]) # 1 => rest # <<>>)
      <3> HIDE DEF WellFormed
      <3>1. QED
        BY <2>3, TailTyping
    <2>5. plan' = [plan EXCEPT ![e] = rest]
      BY <1>16, <2>4 DEF Finalized
    <2>6. CASE Len(plan[e]) = 1
      <3>1. Goto(e, "verify")
        BY <1>16, <2>6 DEF Finalized
      <3>2. QED
        BY <2>1, <2>2, <2>3, <2>5, <3>1
    <2>7. CASE Len(plan[e]) # 1
      <3>1. Goto(e, "simulate")
        BY <1>16, <2>7 DEF Finalized
      <3>2. QED
        BY <2>1, <2>2, <2>3, <2>4, <2>5, <2>7, <3>1
    <2>8. QED
      BY <2>6, <2>7
  <1>17. ASSUME NEW e \in Executor, ConfirmationFails(e)
        PROVE  WellFormed'
    BY <1>17, UpdateOutcomeTyping, AbandonTyping
    DEF ConfirmationFails, OutcomeStatus
  <1>18. ASSUME NEW e \in Executor, Verify(e)
        PROVE  WellFormed'
    BY <1>18 DEF Verify
  <1>19. ASSUME NEW e \in Executor, ReconcileApplied(e)
        PROVE  WellFormed'
    BY <1>19, UpdateOutcomeTyping
    DEF ReconcileApplied, OutcomeStatus
  <1>20. ASSUME NEW e \in Executor, ReconcileNotApplied(e)
        PROVE  WellFormed'
    <2>1. /\ pc[e] = "unknown"
          /\ UNCHANGED <<killSwitch, lock, dbVars, req, flight, chainVars>>
      BY <1>20 DEF ReconcileNotApplied
    <2>2. PICK s \in OutcomeStatus : UpdateOutcome(e, s)
      BY <1>20 DEF ReconcileNotApplied, OutcomeStatus
    <2>3. outcome' \in [Executor -> Outcomes]
      BY <2>2, UpdateOutcomeTyping
    <2>4. \/ /\ \E verdict : plan' = [plan EXCEPT ![e] = PlanFor(req[e], verdict)]
             /\ Goto(e, "simulate")
             /\ UNCHANGED status
          \/ SetStatus(e, "STUCK") /\ Goto(e, "done") /\ UNCHANGED plan
      BY <1>20, Zenon DEF ReconcileNotApplied
    <2>5. CASE /\ \E verdict : plan' = [plan EXCEPT ![e] = PlanFor(req[e], verdict)]
               /\ Goto(e, "simulate")
               /\ UNCHANGED status
      <3>1. PICK verdict : plan' = [plan EXCEPT ![e] = PlanFor(req[e], verdict)]
        BY <2>5
      <3>2. PlanFor(req[e], verdict) \in Seq(Phase) \ {<<>>}
        BY <2>1, PlanTyping
      <3>3. QED
        BY <2>1, <2>3, <2>5, <3>1, <3>2
    <2>6. CASE SetStatus(e, "STUCK") /\ Goto(e, "done") /\ UNCHANGED plan
      BY <2>1, <2>3, <2>6
    <2>7. QED
      BY <2>4, <2>5, <2>6
  <1>21. ASSUME NEW e \in Executor, Commit(e)
        PROVE  WellFormed'
    BY <1>21, LeaveTyping DEF Commit
  <1>22. ASSUME NEW e \in Executor, Reject(e)
        PROVE  WellFormed'
    BY <1>22, LeaveTyping DEF Reject
  <1>23. ASSUME NEW e \in Executor, Land(e)
        PROVE  WellFormed'
    <2>1. req[e] \in Request /\ Head(plan[e]) \in Phase
      BY <1>23 DEF Land
    <2>2. chain' \in ChainState /\ landed' \in [Request -> [Phase -> 0..2]]
      BY <1>23, <2>1, TakesEffectTyping DEF Land
    <2>3. QED
      BY <1>23, <2>2 DEF Land
  <1>24. ASSUME NEW e \in Executor, Crash(e)
        PROVE  WellFormed'
    BY <1>24, AbandonTyping, LeaveTyping DEF Crash
  <1>25. ASSUME NEW tx \in orphan, LandLate(tx)
        PROVE  WellFormed'
    BY <1>25, TakesEffectTyping DEF LandLate
  <1>26. ASSUME NEW tx \in orphan, Expire(tx)
        PROVE  WellFormed'
    BY <1>26 DEF Expire
  <1>27. ASSUME NEW r \in Request, AgeOut(r)
        PROVE  WellFormed'
    BY <1>27 DEF AgeOut
  <1>28. CASE ToggleKillSwitch
    BY <1>28 DEF ToggleKillSwitch
  <1>29. CASE UNCHANGED vars
    BY <1>29 DEF vars
  <1>30. QED
    BY <1>1, <1>2, <1>3, <1>4, <1>5, <1>6, <1>7, <1>8, <1>9, <1>10, <1>11, <1>12, <1>13,
       <1>14, <1>15, <1>16, <1>17, <1>18, <1>19, <1>20, <1>21, <1>22, <1>23, <1>24, <1>25,
       <1>26, <1>27, <1>28, <1>29
    DEF Next, Step, Environment

(* Every variable keeps its type, whatever the constants.                  *)
THEOREM TypeCorrect == Spec => []TypeOK
  <1>1. WellFormed => TypeOK
    BY DEF WellFormed
  <1>2. QED
    BY WellFormedInit, WellFormedStep, <1>1, PTL DEF Spec

-----------------------------------------------------------------------------
(* The outline of a step: all the safety proofs need to know of it.        *)

OthersStay(e) ==
  \A f \in Executor : f # e => pc'[f] = pc[f] /\ req'[f] = req[f] /\ status'[f] = status[f]

OutsideTheLock(e) ==
  /\ pc[e] \notin InLock /\ pc'[e] \notin InLock
  /\ OthersStay(e)
  /\ UNCHANGED <<lock, intent>>

InsideTheLock(e) ==
  /\ pc[e] \in InLock /\ pc'[e] \in InLock
  /\ OthersStay(e)
  /\ UNCHANGED <<lock, intent, req>>
  /\ pc'[e] \in Working =>
       \/ pc[e] \in Working
       \/ PositionPolicy(req[e]) /\ intent[req[e]] # "RECONCILED"
  /\ pc'[e] = "done" =>
       /\ status'[e] \in {"STUCK", "RECONCILED"}
       /\ pc[e] \in Working \/ status'[e] = "RECONCILED"

Abandons(e) ==
  /\ pc[e] \in InLock
  /\ Leave(e)
  /\ UNCHANGED intent

Elsewhere == UNCHANGED <<lock, intent, pc, req, status>>

(* The steps that concern neither the calls nor the rows.                  *)
Invisible ==
  \/ ToggleKillSwitch
  \/ \E r \in Request : AgeOut(r)
  \/ \E e \in Executor : Land(e)
  \/ \E tx \in orphan : LandLate(tx) \/ Expire(tx)
  \/ UNCHANGED vars

LEMMA StepOutline ==
  ASSUME WellFormed, [Next]_vars
  PROVE  \/ \E e \in Executor :
              \/ OutsideTheLock(e) \/ InsideTheLock(e) \/ Abandons(e)
              \/ AcquireLock(e) \/ Commit(e)
         \/ Elsewhere
  <1>1. /\ pc \in [Executor -> OutsideLock \cup InLock]
        /\ req \in [Executor -> Request \cup {NoRequest}]
        /\ status \in [Executor -> IntentStatus]
    BY DEF WellFormed, TypeOK
  <1>2. ASSUME NEW e \in Executor, NEW r \in Request, Execute(e, r)
        PROVE  OutsideTheLock(e)
    BY <1>1, <1>2 DEF Execute, OutsideTheLock, OthersStay, At, Goto, InLock, dbVars, rowVars
  <1>3. ASSUME NEW e \in Executor, LockContention(e) \/ Refuse(e)
        PROVE  OutsideTheLock(e)
    BY <1>1, <1>3 DEF LockContention, Refuse, OutsideTheLock, OthersStay, At, Goto, InLock,
                      dbVars, rowVars
  <1>4. ASSUME NEW e \in Executor, RejectByPolicy(e)
        PROVE  InsideTheLock(e)
    BY <1>1, <1>4
    DEF RejectByPolicy, InsideTheLock, OthersStay, At, Goto, SetStatus, InLock, Working, dbVars, rowVars
  <1>5. ASSUME NEW e \in Executor, AlreadyReconciled(e)
        PROVE  InsideTheLock(e)
    BY <1>1, <1>5
    DEF AlreadyReconciled, InsideTheLock, OthersStay, At, Goto, SetStatus, InLock, Working, dbVars, rowVars
  <1>6. ASSUME NEW e \in Executor, FindIntent(e)
        PROVE  InsideTheLock(e)
    BY <1>1, <1>6
    DEF FindIntent, InsideTheLock, OthersStay, At, Goto, SetStatus, InLock, Working, dbVars, rowVars
  <1>7. ASSUME NEW e \in Executor, CreateIntent(e)
        PROVE  InsideTheLock(e)
    BY <1>1, <1>7
    DEF CreateIntent, InsideTheLock, OthersStay, At, Goto, SetStatus, InLock, Working, dbVars, rowVars
  <1>8. ASSUME NEW e \in Executor, Recover(e)
        PROVE  InsideTheLock(e)
    BY <1>1, <1>8
    DEF Recover, InsideTheLock, OthersStay, At, Goto, SetStatus, InLock, Working, dbVars, rowVars
  <1>9. ASSUME NEW e \in Executor, CheckCaps(e)
        PROVE  InsideTheLock(e)
    BY <1>1, <1>9
    DEF CheckCaps, InsideTheLock, OthersStay, At, Goto, SetStatus, InLock, Working, dbVars, rowVars
  <1>10. ASSUME NEW e \in Executor, SimulationFails(e)
        PROVE  InsideTheLock(e)
    BY <1>1, <1>10
    DEF SimulationFails, InsideTheLock, OthersStay, At, Goto, SetStatus, InLock, Working, dbVars, rowVars
  <1>11. ASSUME NEW e \in Executor, SimulateAndSign(e)
        PROVE  InsideTheLock(e)
    BY <1>1, <1>11
    DEF SimulateAndSign, InsideTheLock, OthersStay, At, Goto, SetStatus, InLock, Working, dbVars, rowVars
  <1>12. ASSUME NEW e \in Executor, Send(e)
        PROVE  InsideTheLock(e)
    BY <1>1, <1>12
    DEF Send, InsideTheLock, OthersStay, At, Goto, SetStatus, InLock, Working, dbVars, rowVars
  <1>13. ASSUME NEW e \in Executor, SendFails(e)
        PROVE  InsideTheLock(e)
    BY <1>1, <1>13
    DEF SendFails, InsideTheLock, OthersStay, At, Goto, SetStatus, InLock, Working, dbVars, rowVars
  <1>14. ASSUME NEW e \in Executor, Confirmed(e)
        PROVE  InsideTheLock(e)
    BY <1>1, <1>14
    DEF Confirmed, InsideTheLock, OthersStay, At, Goto, SetStatus, InLock, Working, dbVars, rowVars
  <1>15. ASSUME NEW e \in Executor, Finalized(e)
        PROVE  InsideTheLock(e)
    BY <1>1, <1>15
    DEF Finalized, InsideTheLock, OthersStay, At, Goto, SetStatus, InLock, Working, dbVars, rowVars
  <1>16. ASSUME NEW e \in Executor, ConfirmationFails(e)
        PROVE  InsideTheLock(e)
    BY <1>1, <1>16
    DEF ConfirmationFails, InsideTheLock, OthersStay, At, Goto, SetStatus, InLock, Working, dbVars, rowVars
  <1>17. ASSUME NEW e \in Executor, Verify(e)
        PROVE  InsideTheLock(e)
    BY <1>1, <1>17
    DEF Verify, InsideTheLock, OthersStay, At, Goto, SetStatus, InLock, Working, dbVars, rowVars
  <1>18. ASSUME NEW e \in Executor, ReconcileApplied(e)
        PROVE  InsideTheLock(e)
    BY <1>1, <1>18
    DEF ReconcileApplied, InsideTheLock, OthersStay, At, Goto, SetStatus, InLock, Working, dbVars, rowVars
  <1>19. ASSUME NEW e \in Executor, ReconcileNotApplied(e)
        PROVE  InsideTheLock(e)
    BY <1>1, <1>19
    DEF ReconcileNotApplied, InsideTheLock, OthersStay, At, Goto, SetStatus, InLock, Working, dbVars, rowVars
  <1>20. ASSUME NEW e \in Executor, Reject(e) \/ Crash(e)
        PROVE  Abandons(e)
    BY <1>20 DEF Reject, Crash, Abandons, At, InLock, dbVars
  <1>21. Invisible => Elsewhere
    BY DEF Invisible, ToggleKillSwitch, AgeOut, Land, LandLate, Expire, Elsewhere, vars,
           dbVars, rowVars
  <1>22. ASSUME NEW e \in Executor, Step(e)
         PROVE  \/ OutsideTheLock(e) \/ InsideTheLock(e) \/ Abandons(e)
                \/ AcquireLock(e) \/ Commit(e)
    BY <1>22, <1>3, <1>4, <1>5, <1>6, <1>7, <1>8, <1>9, <1>10, <1>11, <1>12, <1>13, <1>14,
       <1>15, <1>16, <1>17, <1>18, <1>19, <1>20, Zenon
    DEF Step
  <1>23. Environment => Invisible \/ \E e \in Executor : Crash(e)
    BY Zenon DEF Environment, Invisible
  <1>24. UNCHANGED vars => Invisible
    BY Zenon DEF Invisible
  <1>25. CASE Environment \/ UNCHANGED vars
    BY <1>20, <1>21, <1>23, <1>24, <1>25, Zenon
  <1>26. QED
    BY <1>2, <1>22, <1>25, Zenon DEF Next

-----------------------------------------------------------------------------
(* Mutual exclusion: the lock table agrees with the program counters.      *)

LEMMA LockAgreesStep == WellFormed /\ LockAgrees /\ [Next]_vars => LockAgrees'
  <1> SUFFICES ASSUME WellFormed, LockAgrees, [Next]_vars
               PROVE  LockAgrees'
    OBVIOUS
  <1>1. /\ pc \in [Executor -> OutsideLock \cup InLock]
        /\ req \in [Executor -> Request \cup {NoRequest}]
        /\ lock \in [Project -> Executor \cup {NoExecutor}]
        /\ \A e \in Executor : pc[e] # "idle" => ProjectOf(e) \in Project
    BY DescAssumption DEF WellFormed, TypeOK, CallHasRequest, ProjectOf, RequestDesc
  <1>2. NoExecutor \notin Executor
    BY PipelineAssumption
  <1>3. ASSUME NEW e \in Executor, OutsideTheLock(e)
        PROVE  LockAgrees'
    BY <1>1, <1>2, <1>3 DEF OutsideTheLock, OthersStay, LockAgrees, ProjectOf
  <1>4. ASSUME NEW e \in Executor, InsideTheLock(e)
        PROVE  LockAgrees'
    BY <1>1, <1>2, <1>4 DEF InsideTheLock, OthersStay, LockAgrees, ProjectOf
  <1>5. ASSUME NEW e \in Executor, AcquireLock(e)
        PROVE  LockAgrees'
    BY <1>1, <1>2, <1>5 DEF AcquireLock, At, Goto, InLock, LockAgrees, ProjectOf
  <1>6. ASSUME NEW e \in Executor, pc[e] \in InLock, Leave(e)
        PROVE  LockAgrees'
    BY <1>1, <1>2, <1>6 DEF Leave, Goto, InLock, LockAgrees, ProjectOf
  <1>7. CASE Elsewhere
    BY <1>7 DEF Elsewhere, LockAgrees, ProjectOf
  <1>8. QED
    BY <1>3, <1>4, <1>5, <1>6, <1>7, StepOutline DEF Abandons, Commit, At, InLock

(* Whatever its callers, crashes and contention do, no two executors are   *)
(* inside executeLocked for the same project.                              *)
THEOREM MutualExclusion == Spec => []OneExecutorPerProject
  <1>1. Init => LockAgrees
    BY DEF Init, LockAgrees, InLock
  <1>2. LockAgrees => OneExecutorPerProject
    BY DEF LockAgrees, OneExecutorPerProject
  <1>3. QED
    BY <1>1, <1>2, WellFormedInit, WellFormedStep, LockAgreesStep, PTL DEF Spec

-----------------------------------------------------------------------------
(* Durable rows.  A row is written only by Commit, whose executor holds    *)
(* the lock of the row's project, so nobody else is working on it.         *)

RowInv == WellFormed /\ LockAgrees /\ SettledRows /\ DoneIsSettled /\ NoWorkOnReconciled

(* Two executors inside the lock have requests of different projects.      *)
LEMMA Alone ==
  ASSUME LockAgrees, NEW e \in Executor, NEW f \in Executor, e # f,
         pc[e] \in InLock, pc[f] \in InLock
  PROVE  ProjectOf(e) # ProjectOf(f) /\ req[e] # req[f]
  BY DEF LockAgrees, ProjectOf

LEMMA RowInvInit == Init => RowInv
  <1>1. Init => LockAgrees /\ SettledRows /\ DoneIsSettled /\ NoWorkOnReconciled
    BY DEF Init, LockAgrees, SettledRows, DoneIsSettled, NoWorkOnReconciled, InLock, Working
  <1>2. QED
    BY <1>1, WellFormedInit DEF RowInv

(* What a commit leaves behind.                                            *)
LEMMA CommitEffect ==
  ASSUME WellFormed, LockAgrees, NEW e \in Executor, Commit(e)
  PROVE  /\ pc[e] = "done" /\ pc'[e] = "idle"
         /\ intent' = [intent EXCEPT ![req[e]] = status[e]]
         /\ OthersStay(e)
         /\ \A f \in Executor : f # e /\ pc[f] \in InLock =>
              /\ ProjectOf(f) # ProjectOf(e)
              /\ intent'[req[f]] = intent[req[f]]
  <1>1. /\ pc[e] = "done" /\ pc'[e] = "idle" /\ OthersStay(e)
        /\ intent' = [intent EXCEPT ![req[e]] = status[e]]
    BY DEF Commit, Leave, Goto, At, OthersStay, WellFormed, TypeOK
  <1>2. ASSUME NEW f \in Executor, f # e, pc[f] \in InLock
        PROVE  ProjectOf(f) # ProjectOf(e) /\ req[f] # req[e]
    BY <1>1, <1>2, Alone DEF InLock
  <1>3. \A f \in Executor : pc[f] \in InLock => req[f] \in Request
    BY DEF WellFormed, CallHasRequest, InLock
  <1>4. QED
    BY <1>1, <1>2, <1>3 DEF WellFormed, TypeOK

LEMMA RowInvStep == RowInv /\ [Next]_vars => RowInv'
  <1> SUFFICES ASSUME RowInv, [Next]_vars
               PROVE  SettledRows' /\ DoneIsSettled' /\ NoWorkOnReconciled'
    BY WellFormedStep, LockAgreesStep DEF RowInv
  <1>1. /\ pc \in [Executor -> OutsideLock \cup InLock]
        /\ intent \in [Request -> IntentStatus]
        /\ \A e \in Executor : pc[e] # "idle" => req[e] \in Request
    BY DEF RowInv, WellFormed, TypeOK, CallHasRequest
  <1>2. WellFormed /\ LockAgrees
    BY DEF RowInv
  <1>3. ASSUME NEW e \in Executor, OutsideTheLock(e)
        PROVE  SettledRows' /\ DoneIsSettled' /\ NoWorkOnReconciled'
    BY <1>3 DEF RowInv, OutsideTheLock, OthersStay, SettledRows, DoneIsSettled,
                NoWorkOnReconciled, InLock, Working
  <1>4. ASSUME NEW e \in Executor, InsideTheLock(e)
        PROVE  SettledRows' /\ DoneIsSettled' /\ NoWorkOnReconciled'
    BY <1>4 DEF RowInv, InsideTheLock, OthersStay, SettledRows, DoneIsSettled,
                NoWorkOnReconciled, InLock, Working
  <1>5. ASSUME NEW e \in Executor, AcquireLock(e)
        PROVE  SettledRows' /\ DoneIsSettled' /\ NoWorkOnReconciled'
    BY <1>1, <1>5 DEF RowInv, AcquireLock, Goto, dbVars, rowVars, SettledRows, DoneIsSettled,
                      NoWorkOnReconciled, Working
  <1>6. ASSUME NEW e \in Executor, Abandons(e)
        PROVE  SettledRows' /\ DoneIsSettled' /\ NoWorkOnReconciled'
    BY <1>1, <1>6 DEF RowInv, Abandons, Leave, Goto, SettledRows, DoneIsSettled,
                      NoWorkOnReconciled, Working, InLock
  <1>7. ASSUME NEW e \in Executor, Commit(e)
        PROVE  SettledRows' /\ DoneIsSettled' /\ NoWorkOnReconciled'
    <2>1. /\ pc[e] = "done" /\ pc'[e] = "idle" /\ OthersStay(e)
          /\ intent' = [intent EXCEPT ![req[e]] = status[e]]
          /\ \A f \in Executor : f # e /\ pc[f] \in InLock => intent'[req[f]] = intent[req[f]]
      BY <1>2, <1>7, CommitEffect
    <2>2. status[e] \in {"STUCK", "RECONCILED"}
      BY <2>1 DEF RowInv, DoneIsSettled
    <2>3. SettledRows'
      BY <1>1, <2>1, <2>2 DEF RowInv, SettledRows
    <2>4. DoneIsSettled'
      BY <2>1 DEF RowInv, DoneIsSettled, OthersStay
    <2>5. NoWorkOnReconciled'
      BY <2>1 DEF RowInv, NoWorkOnReconciled, OthersStay, Working, InLock
    <2>6. QED
      BY <2>3, <2>4, <2>5
  <1>8. CASE Elsewhere
    BY <1>8 DEF RowInv, Elsewhere, SettledRows, DoneIsSettled, NoWorkOnReconciled
  <1>9. QED
    BY <1>2, <1>3, <1>4, <1>5, <1>6, <1>7, <1>8, StepOutline, Zenon

(* No intermediate status is ever durable.                                 *)
THEOREM RowsAreSettled == Spec => []SettledRows
  <1>1. RowInv => SettledRows
    BY DEF RowInv
  <1>2. QED
    BY <1>1, RowInvInit, RowInvStep, PTL DEF Spec

(* No executor ever unsettles or repeats what another one reconciled.      *)
THEOREM ReconciledStays == Spec => ReconciledForever
  <1>1. RowInv /\ [Next]_vars =>
          [\A r \in Request : intent[r] = "RECONCILED" => intent'[r] = "RECONCILED"]_vars
    <2> SUFFICES ASSUME RowInv, [Next]_vars, NEW r \in Request, intent[r] = "RECONCILED"
                 PROVE  intent'[r] = "RECONCILED"
      OBVIOUS
    <2>1. WellFormed /\ LockAgrees /\ intent \in [Request -> IntentStatus]
      BY DEF RowInv, WellFormed, TypeOK
    <2>2. ASSUME NEW e \in Executor, Commit(e)
          PROVE  intent'[r] = "RECONCILED"
      <3>1. pc[e] = "done" /\ intent' = [intent EXCEPT ![req[e]] = status[e]]
        BY <2>1, <2>2, CommitEffect
      <3>2. r = req[e] => status[e] = "RECONCILED"
        BY <3>1 DEF RowInv, NoWorkOnReconciled
      <3>3. QED
        BY <2>1, <3>1, <3>2
    <2>3. UNCHANGED intent \/ \E e \in Executor : Commit(e)
      BY <2>1, StepOutline
      DEF OutsideTheLock, InsideTheLock, Abandons, Elsewhere, AcquireLock, dbVars
    <2>4. QED
      BY <2>2, <2>3
  <1>2. QED
    BY <1>1, RowInvInit, RowInvStep, PTL DEF Spec, ReconciledForever

-----------------------------------------------------------------------------
(* The position policy is checked once, at the start of executeLocked, and *)
(* still holds when the transactions are sent.                             *)

LEMMA PolicyStep == RowInv /\ ManagedByPolicy /\ [Next]_vars => ManagedByPolicy'
  <1> SUFFICES ASSUME RowInv, ManagedByPolicy, [Next]_vars,
                      NEW f \in Executor, pc'[f] \in Working
               PROVE  PositionPolicy(req[f])'
    BY DEF ManagedByPolicy
  <1>1. WellFormed /\ LockAgrees
    BY DEF RowInv
  <1>2. ASSUME UNCHANGED intent, req'[f] = req[f], PositionPolicy(req[f])
        PROVE  PositionPolicy(req[f])'
    BY <1>2 DEF PositionPolicy, RecordedPermanent
  <1>3. ASSUME NEW e \in Executor, OutsideTheLock(e)
        PROVE  PositionPolicy(req[f])'
    BY <1>2, <1>3 DEF OutsideTheLock, OthersStay, ManagedByPolicy, Working
  <1>4. ASSUME NEW e \in Executor, InsideTheLock(e)
        PROVE  PositionPolicy(req[f])'
    BY <1>2, <1>4 DEF InsideTheLock, OthersStay, ManagedByPolicy
  <1>5. ASSUME NEW e \in Executor, AcquireLock(e) \/ Abandons(e)
        PROVE  PositionPolicy(req[f])'
    <2>1. UNCHANGED intent /\ (f # e => pc'[f] = pc[f] /\ req'[f] = req[f])
      BY <1>1, <1>5 DEF AcquireLock, Abandons, Leave, Goto, dbVars, WellFormed, TypeOK
    <2>2. f # e
      BY <1>1, <1>5 DEF AcquireLock, Abandons, Leave, Goto, Working, InLock, WellFormed, TypeOK
    <2>3. QED
      BY <1>2, <2>1, <2>2 DEF ManagedByPolicy
  <1>6. ASSUME NEW e \in Executor, Commit(e)
        PROVE  PositionPolicy(req[f])'
    <2>1. /\ pc'[e] = "idle" /\ OthersStay(e)
          /\ intent' = [intent EXCEPT ![req[e]] = status[e]]
          /\ f # e /\ pc[f] \in InLock => ProjectOf(f) # ProjectOf(e)
      BY <1>1, <1>6, CommitEffect
    <2>2. f # e /\ pc[f] \in Working /\ req'[f] = req[f] /\ ProjectOf(f) # ProjectOf(e)
      BY <2>1 DEF OthersStay, Working, InLock
    <2>3. \A q \in Request : Desc[q].project = ProjectOf(f) => intent'[q] = intent[q]
      BY <1>1, <2>1, <2>2 DEF ProjectOf, WellFormed, TypeOK
    <2>4. PositionPolicy(req[f])
      BY <2>2 DEF ManagedByPolicy
    <2>5. QED
      BY <2>2, <2>3, <2>4 DEF PositionPolicy, RecordedPermanent, ProjectOf
  <1>7. CASE Elsewhere
    BY <1>2, <1>7 DEF Elsewhere, ManagedByPolicy
  <1>8. QED
    BY <1>1, <1>3, <1>4, <1>5, <1>6, <1>7, StepOutline, Zenon

(* A position recorded as permanent while a call manages it stays out of   *)
(* its reach: the policy holds whenever transactions are prepared or sent. *)
THEOREM PolicyIsKept == Spec => []ManagedByPolicy
  <1>1. Init => ManagedByPolicy
    BY DEF Init, ManagedByPolicy, Working, InLock
  <1>2. QED
    BY <1>1, RowInvInit, RowInvStep, PolicyStep, PTL DEF Spec

-----------------------------------------------------------------------------
(* Refinement: under the mapping lock -> holder, intent -> ledger, every   *)
(* step of the pipeline is a step of the intent ledger or invisible in it. *)

LEMMA LedgerStep == RowInv /\ [Next]_vars => [Ledger!Next]_<<lock, intent>>
  <1> SUFFICES ASSUME RowInv, [Next]_vars
               PROVE  Ledger!Next \/ UNCHANGED <<lock, intent>>
    OBVIOUS
  <1>1. /\ WellFormed /\ LockAgrees
        /\ \A e \in Executor : pc[e] # "idle" => req[e] \in Request /\ ProjectOf(e) \in Project
    BY DescAssumption DEF RowInv, WellFormed, CallHasRequest, ProjectOf, RequestDesc
  <1>2. \A e \in Executor : pc[e] \in InLock => lock[ProjectOf(e)] = e /\ e # NoExecutor
    BY <1>1, PipelineAssumption DEF LockAgrees
  <1>3. ASSUME NEW e \in Executor, AcquireLock(e)
        PROVE  Ledger!Next
    <2>1. ProjectOf(e) \in Project
      BY <1>1, <1>3 DEF AcquireLock, At
    <2>2. Ledger!Take(e, ProjectOf(e))
      BY <1>3 DEF AcquireLock, Ledger!Take, dbVars
    <2>3. QED
      BY <2>1, <2>2 DEF Ledger!Next
  <1>4. ASSUME NEW e \in Executor, Abandons(e)
        PROVE  Ledger!Next
    <2>1. ProjectOf(e) \in Project
      BY <1>1, <1>4 DEF Abandons, InLock
    <2>2. Ledger!Drop(ProjectOf(e))
      BY <1>2, <1>4 DEF Abandons, Leave, Ledger!Drop
    <2>3. QED
      BY <2>1, <2>2 DEF Ledger!Next
  <1>5. ASSUME NEW e \in Executor, Commit(e)
        PROVE  Ledger!Next
    <2>1. pc[e] = "done" /\ req[e] \in Request
      BY <1>1, <1>5 DEF Commit, At
    <2>2. /\ lock[Desc[req[e]].project] # NoExecutor
          /\ lock' = [lock EXCEPT ![Desc[req[e]].project] = NoExecutor]
          /\ intent' = [intent EXCEPT ![req[e]] = status[e]]
      BY <1>2, <1>5, <2>1 DEF Commit, Leave, InLock, ProjectOf
    <2>3. status[e] \in {"STUCK", "RECONCILED"} /\ (intent[req[e]] = "RECONCILED" => status[e] = "RECONCILED")
      BY <2>1 DEF RowInv, DoneIsSettled, NoWorkOnReconciled
    <2>4. Ledger!Settle(req[e])
      BY <2>1, <2>2, <2>3 DEF Ledger!Settle, Ledger!Settled
    <2>5. QED
      BY <2>1, <2>4 DEF Ledger!Next
  <1>6. QED
    BY <1>1, <1>3, <1>4, <1>5, StepOutline DEF OutsideTheLock, InsideTheLock, Elsewhere

(* The pipeline implements the intent ledger.                              *)
THEOREM LedgerRefinement == Spec => RefinesLedger
  <1>1. Init => Ledger!Init
    BY DEF Init, Ledger!Init
  <1>2. QED
    BY <1>1, RowInvInit, RowInvStep, LedgerStep, PTL DEF Spec, RefinesLedger, Ledger!Spec

-----------------------------------------------------------------------------
(* Bounded sends.  A call may send as many transactions as its plan still  *)
(* holds, and a new plan is only made below the limit of attempts.         *)

Base(r) ==
  IF outcomes[r].attempts > MaxReconcileAttempts - 1 THEN outcomes[r].attempts
  ELSE MaxReconcileAttempts - 1

(* attempts made and transactions todo at a label, against the attempts    *)
(* the call may start its last recipe with and the length of a recipe      *)
InBudget(label, attempts, todo, base, sends) ==
  /\ label \in OutsideLock \cup {"locked"} => attempts = 0
  /\ label = "recover" => attempts <= base
  /\ label \in {"caps", "simulate", "signed"} => attempts + todo <= base + sends
  /\ label \in {"sent", "confirmed"} => attempts + todo <= base + sends + 1
  /\ label \in {"unknown", "verify"} => attempts <= base + sends

BudgetOf(e) ==
  InBudget(pc[e], outcome[e].attempts, Len(plan[e]), Base(req[e]), Len(Recipe(req[e])))

BudgetKept == \A e \in Executor : BudgetOf(e)

(* Without the completed phases a plan is never longer.                    *)
LEMMA PlanLength ==
  ASSUME NEW r \in Request, NEW verdict
  PROVE  /\ Len(PlanFor(r, verdict)) \in Nat
         /\ Len(Recipe(r)) \in Nat
         /\ Len(PlanFor(r, verdict)) <= Len(Recipe(r))
<1> DEFINE done == {"initialize-position"}
<1>1. Recipe(r) \in Seq(Phase) /\ PlanFor(r, verdict) \in Seq(Phase)
  BY BuildTyping, PlanTyping DEF Recipe
<1>2. Opening({}) = <<"initialize-position">> \o Adding /\ Opening(done) = Adding
  <2>1. "initialize-position" \in done /\ "initialize-position" \notin {}
    OBVIOUS
  <2> QED BY <2>1, Zenon DEF Opening
<1>3. /\ Adding \in Seq(Phase) /\ <<"initialize-position">> \in Seq(Phase)
      /\ Removing \in Seq(Phase) /\ Opening({}) \in Seq(Phase)
  <2>1. \A phase \in Phase : <<phase>> \in Seq(Phase)
    OBVIOUS
  <2>2. {"initialize-position", "add-liquidity", "remove-liquidity"} \subseteq Phase
    BY DEF Phase
  <2>3. \A s, t \in Seq(Phase) : s \o t \in Seq(Phase)
    OBVIOUS
  <2> QED BY <1>2, <2>1, <2>2, <2>3, Zenon DEF Adding, Removing
<1>4. Len(Opening(done)) <= Len(Opening({}))
  <2>1. Len(<<"initialize-position">> \o Adding) = Len(<<"initialize-position">>) + Len(Adding)
    BY <1>3
  <2> QED BY <1>2, <1>3, <2>1
<1>5. Len(Removing \o Opening(done)) <= Len(Removing \o Opening({}))
  <2>1. ASSUME NEW s \in Seq(Phase), NEW t \in Seq(Phase)
        PROVE  Len(s \o t) = Len(s) + Len(t)
    OBVIOUS
  <2>2. Len(Removing) \in Nat /\ Len(Opening({})) \in Nat /\ Len(Opening(done)) \in Nat
    BY <1>2, <1>3
  <2> QED BY <1>2, <1>3, <1>4, <2>1, <2>2
<1>6. \/ Build(r, done) = Build(r, {})
      \/ Build(r, done) = Opening(done) /\ Build(r, {}) = Opening({})
      \/ Build(r, done) = Removing \o Opening(done) /\ Build(r, {}) = Removing \o Opening({})
  <2>1. CASE ~Desc[r].sweep /\ Desc[r].action = "OPEN_POSITION"
    BY <2>1 DEF Build
  <2>2. CASE ~Desc[r].sweep /\ Desc[r].action = "REBALANCE"
    BY <2>2 DEF Build
  <2>3. CASE Desc[r].sweep \/ Desc[r].action \notin {"OPEN_POSITION", "REBALANCE"}
    BY <2>3 DEF Build
  <2> QED BY <2>1, <2>2, <2>3
<1>7. Len(Build(r, done)) <= Len(Build(r, {}))
  BY <1>1, <1>4, <1>5, <1>6 DEF Recipe
<1> HIDE DEF done
<1> QED BY <1>1, <1>7 DEF PlanFor, Recipe, done

(* What the numbers of a call are.                                         *)
LEMMA BudgetTypes ==
  ASSUME WellFormed, NEW e \in Executor
  PROVE  /\ outcome[e].attempts \in Nat /\ plan[e] \in Seq(Phase)
         /\ pc[e] # "idle" =>
              /\ req[e] \in Request
              /\ Base(req[e]) \in Nat /\ Base(req[e]) >= MaxReconcileAttempts - 1
              /\ outcomes[req[e]].attempts <= Base(req[e])
              /\ outcomes[req[e]].attempts \in Nat
              /\ Len(Recipe(req[e])) \in Nat
<1>1. outcome[e] \in Outcomes /\ plan[e] \in Seq(Phase)
  BY DEF WellFormed, TypeOK
<1>2. ASSUME pc[e] # "idle"
      PROVE  req[e] \in Request /\ outcomes[req[e]] \in Outcomes
  BY <1>2 DEF WellFormed, TypeOK, CallHasRequest
<1>3. MaxReconcileAttempts \in Nat \ {0}
  BY PipelineAssumption
<1> QED
  BY <1>1, <1>2, <1>3, PlanLength DEF Outcomes, Base

OthersKeep(e) ==
  \A f \in Executor : f # e =>
    pc'[f] = pc[f] /\ req'[f] = req[f] /\ plan'[f] = plan[f] /\ outcome'[f] = outcome[f]

(* A step of a call that writes no rows                                    *)
Spends(e) == OthersKeep(e) /\ UNCHANGED outcomes /\ BudgetOf(e)'

SameBudget == UNCHANGED <<pc, req, plan, outcome, outcomes>>

LEMMA LeaveBudget ==
  ASSUME WellFormed, NEW e \in Executor, Leave(e)
  PROVE  OthersKeep(e) /\ BudgetOf(e)'
<1>1. pc'[e] = "idle" /\ outcome'[e] = NoOutcomes
  BY DEF Leave, Goto, WellFormed, TypeOK
<1>2. BudgetOf(e)'
  BY <1>1 DEF BudgetOf, InBudget, NoOutcomes
<1> QED BY <1>2 DEF Leave, Goto, OthersKeep, WellFormed, TypeOK

LEMMA SpendStep ==
  ASSUME WellFormed, NEW e \in Executor, BudgetOf(e), Step(e), ~Commit(e)
  PROVE  Spends(e)
<1> USE DEF At, Goto, SetStatus, dbVars, rowVars, chainVars, OthersKeep, Spends
<1>1. /\ pc \in [Executor -> OutsideLock \cup InLock]
      /\ req \in [Executor -> Request \cup {NoRequest}]
      /\ plan \in [Executor -> Seq(Phase)]
      /\ outcome \in [Executor -> Outcomes]
  BY DEF WellFormed, TypeOK
<1>2. /\ outcome[e].attempts \in Nat /\ plan[e] \in Seq(Phase)
      /\ pc[e] # "idle" =>
           /\ req[e] \in Request
           /\ Base(req[e]) \in Nat /\ Base(req[e]) >= MaxReconcileAttempts - 1
           /\ outcomes[req[e]].attempts <= Base(req[e])
           /\ outcomes[req[e]].attempts \in Nat
           /\ Len(Recipe(req[e])) \in Nat
  BY BudgetTypes
<1>3. MaxReconcileAttempts \in Nat \ {0}
  BY PipelineAssumption
<1>4. UNCHANGED outcomes => \A r : Base(r)' = Base(r)
  BY DEF Base
<1>5. UNCHANGED outcomes /\ req'[e] = req[e] => Base(req[e])' = Base(req[e])
  BY <1>4 DEF Base
<1>6. ASSUME AcquireLock(e) \/ LockContention(e) \/ Refuse(e)
      PROVE  Spends(e)
  <2>1. pc[e] \in OutsideLock /\ pc'[e] \in OutsideLock \cup {"locked"}
        /\ UNCHANGED <<plan, outcome, outcomes>>
        /\ OthersKeep(e)
    BY <1>1, <1>6 DEF AcquireLock, LockContention, Refuse, OutsideLock
  <2> QED BY <2>1 DEF BudgetOf, InBudget, OutsideLock
<1>7. ASSUME RejectByPolicy(e) \/ AlreadyReconciled(e) \/ SimulationFails(e) \/ SendFails(e)
      PROVE  Spends(e)
  <2>1. pc'[e] \in {"throwing", "done"} /\ UNCHANGED outcomes /\ OthersKeep(e)
    BY <1>1, <1>7 DEF RejectByPolicy, AlreadyReconciled, SimulationFails, SendFails, CreateOutcome
  <2> QED BY <2>1 DEF BudgetOf, InBudget, OutsideLock
<1>8. ASSUME FindIntent(e)
      PROVE  Spends(e)
  <2>1. /\ pc[e] = "locked" /\ pc'[e] = "recover" /\ outcome'[e] = outcomes[req[e]]
        /\ UNCHANGED <<req, outcomes>> /\ OthersKeep(e)
    BY <1>1, <1>8 DEF FindIntent
  <2> QED BY <1>2, <1>5, <2>1 DEF BudgetOf, InBudget, OutsideLock
<1>9. ASSUME CreateIntent(e)
      PROVE  Spends(e)
  <2>1. /\ pc[e] = "locked" /\ pc'[e] = "caps" /\ plan'[e] = Recipe(req[e])
        /\ UNCHANGED <<req, outcome, outcomes>> /\ OthersKeep(e)
    BY <1>1, <1>9 DEF CreateIntent
  <2>2. outcome[e].attempts = 0
    BY <2>1 DEF BudgetOf, InBudget
  <2> QED BY <1>2, <1>5, <2>1, <2>2 DEF BudgetOf, InBudget, OutsideLock
<1>10. ASSUME Recover(e)
       PROVE  Spends(e)
  <2>1. /\ pc[e] = "recover" /\ UNCHANGED <<req, outcome, outcomes>>
        /\ OthersKeep(e)
        /\ \/ pc'[e] = "done"
           \/ pc'[e] = "caps" /\ \E verdict : plan'[e] = PlanFor(req[e], verdict)
    BY <1>1, <1>10 DEF Recover
  <2>2. pc'[e] = "caps" => Len(plan'[e]) \in Nat /\ Len(plan'[e]) <= Len(Recipe(req[e]))
    BY <1>2, <2>1, PlanLength
  <2> QED BY <1>2, <1>5, <2>1, <2>2 DEF BudgetOf, InBudget, OutsideLock
<1>11. ASSUME CheckCaps(e) \/ SimulateAndSign(e)
       PROVE  Spends(e)
  <2>1. /\ pc[e] \in {"caps", "simulate"} /\ pc'[e] \in {"simulate", "signed", "throwing"}
        /\ UNCHANGED <<req, plan, outcome, outcomes>> /\ OthersKeep(e)
    BY <1>1, <1>11 DEF CheckCaps, SimulateAndSign
  <2> QED BY <1>5, <2>1 DEF BudgetOf, InBudget, OutsideLock
<1>12. ASSUME Send(e)
       PROVE  Spends(e)
  <2>1. /\ pc[e] = "signed" /\ pc'[e] = "sent" /\ outcome'[e].attempts = outcome[e].attempts + 1
        /\ UNCHANGED <<req, plan, outcomes>> /\ OthersKeep(e)
    BY <1>1, <1>12 DEF Send, CreateOutcome
  <2>2. Len(plan[e]) \in Nat
    BY <1>2
  <2> QED BY <1>2, <1>5, <2>1, <2>2 DEF BudgetOf, InBudget, OutsideLock
<1>13. ASSUME Confirmed(e)
       PROVE  Spends(e)
  <2>1. /\ pc[e] = "sent" /\ pc'[e] = "confirmed" /\ outcome'[e].attempts = outcome[e].attempts
        /\ UNCHANGED <<req, plan, outcomes>> /\ OthersKeep(e)
    BY <1>1, <1>13 DEF Confirmed, UpdateOutcome, Outcomes
  <2> QED BY <1>5, <2>1 DEF BudgetOf, InBudget, OutsideLock
<1>14. ASSUME Finalized(e)
       PROVE  Spends(e)
  <2>1. /\ pc[e] = "confirmed" /\ outcome'[e].attempts = outcome[e].attempts
        /\ plan'[e] = Tail(plan[e])
        /\ pc'[e] = IF Len(plan[e]) = 1 THEN "verify" ELSE "simulate"
        /\ UNCHANGED <<req, outcomes>> /\ OthersKeep(e)
    BY <1>1, <1>14 DEF Finalized, UpdateOutcome, Outcomes
  <2>2. plan[e] # <<>>
    BY <2>1 DEF WellFormed, FlightAgrees
  <2>3. Len(plan[e]) \in Nat \ {0} /\ Len(Tail(plan[e])) = Len(plan[e]) - 1
    BY <1>2, <2>2
  <2> QED BY <1>2, <1>5, <2>1, <2>3 DEF BudgetOf, InBudget, OutsideLock
<1>15. ASSUME ConfirmationFails(e)
       PROVE  Spends(e)
  <2>1. /\ pc[e] \in {"sent", "confirmed"} /\ pc'[e] = "unknown"
        /\ outcome'[e].attempts = outcome[e].attempts
        /\ UNCHANGED <<req, plan, outcomes>> /\ OthersKeep(e)
    BY <1>1, <1>15 DEF ConfirmationFails, UpdateOutcome, Outcomes
  <2>2. plan[e] # <<>>
    BY <2>1 DEF WellFormed, FlightAgrees
  <2>3. Len(plan[e]) \in Nat \ {0}
    BY <1>2, <2>2
  <2> QED BY <1>2, <1>5, <2>1, <2>3 DEF BudgetOf, InBudget, OutsideLock
<1>16. ASSUME Verify(e) \/ ReconcileApplied(e)
       PROVE  Spends(e)
  <2>1. pc'[e] = "done" /\ UNCHANGED outcomes /\ OthersKeep(e)
    BY <1>1, <1>16 DEF Verify, ReconcileApplied, UpdateOutcome
  <2> QED BY <2>1 DEF BudgetOf, InBudget, OutsideLock
<1>17. ASSUME ReconcileNotApplied(e)
       PROVE  Spends(e)
  <2>1. PICK verdict \in Read(req[e]) \ {"APPLIED"} :
          /\ UpdateOutcome(e, IF verdict = "NOT_APPLIED" THEN "NOT_APPLIED" ELSE "UNKNOWN")
          /\ \/ /\ MayRetry(e, verdict)
                /\ plan' = [plan EXCEPT ![e] = PlanFor(req[e], verdict)]
                /\ Goto(e, "simulate")
             \/ Goto(e, "done") /\ UNCHANGED plan
    BY <1>17 DEF ReconcileNotApplied
  <2>2. pc[e] = "unknown" /\ UNCHANGED <<req, outcomes>>
    BY <1>17 DEF ReconcileNotApplied
  <2>3. OthersKeep(e) /\ outcome'[e].attempts = outcome[e].attempts
    BY <1>1, <2>1, <2>2 DEF UpdateOutcome, Outcomes
  <2>4. CASE pc'[e] = "done"
    BY <2>2, <2>3, <2>4 DEF BudgetOf, InBudget, OutsideLock
  <2>5. CASE pc'[e] # "done"
    <3>1. /\ MayRetry(e, verdict) /\ pc'[e] = "simulate"
          /\ plan'[e] = PlanFor(req[e], verdict)
      BY <1>1, <2>1, <2>5
    <3>2. outcome[e].attempts <= MaxReconcileAttempts - 1
      BY <1>2, <1>3, <3>1 DEF MayRetry
    <3>3. Len(plan'[e]) \in Nat /\ Len(plan'[e]) <= Len(Recipe(req[e]))
      BY <1>2, <2>2, <3>1, PlanLength
    <3> QED BY <1>2, <1>3, <1>5, <2>2, <2>3, <3>1, <3>2, <3>3 DEF BudgetOf, InBudget, OutsideLock
  <2> QED BY <2>4, <2>5
<1>18. ASSUME Reject(e)
       PROVE  Spends(e)
  BY <1>18, LeaveBudget DEF Reject
<1> QED
  BY <1>6, <1>7, <1>8, <1>9, <1>10, <1>11, <1>12, <1>13, <1>14, <1>15, <1>16, <1>17,
     <1>18, Zenon DEF Step

LEMMA BudgetStep ==
  RowInv /\ BudgetKept /\ [Next]_vars => BudgetKept'
<1> SUFFICES ASSUME RowInv, BudgetKept, [Next]_vars
             PROVE  BudgetKept'
  OBVIOUS
<1>1. WellFormed /\ LockAgrees
  BY DEF RowInv
<1>2. ASSUME NEW f \in Executor, pc'[f] = pc[f], req'[f] = req[f], plan'[f] = plan[f],
             outcome'[f] = outcome[f], pc[f] \in InLock => outcomes'[req[f]] = outcomes[req[f]]
      PROVE  BudgetOf(f)'
  <2>1. BudgetOf(f)
    BY DEF BudgetKept
  <2>2. CASE pc[f] \in InLock
    <3>1. Base(req[f])' = Base(req[f])
      BY <1>2, <2>2 DEF Base
    <3> QED BY <1>2, <2>1, <3>1 DEF BudgetOf
  <2>3. CASE pc[f] \in OutsideLock
    BY <1>2, <2>1, <2>3 DEF BudgetOf, InBudget, OutsideLock
  <2> QED BY <1>1, <2>2, <2>3 DEF WellFormed, TypeOK
<1>3. ASSUME NEW e \in Executor, Spends(e)
      PROVE  BudgetKept'
  BY <1>2, <1>3 DEF Spends, OthersKeep, BudgetKept
<1>4. ASSUME NEW e \in Executor, Commit(e)
      PROVE  BudgetKept'
  <2>1. OthersKeep(e) /\ BudgetOf(e)'
    BY <1>1, <1>4, LeaveBudget DEF Commit
  <2>2. pc[e] \in InLock /\ outcomes' = [outcomes EXCEPT ![req[e]] = outcome[e]]
    BY <1>4 DEF Commit, At, InLock
  <2>3. ASSUME NEW f \in Executor, f # e, pc[f] \in InLock
        PROVE  outcomes'[req[f]] = outcomes[req[f]]
    <3>1. req[e] # req[f] /\ req[f] \in Request
      BY <1>1, <2>2, <2>3, Alone DEF WellFormed, CallHasRequest, InLock
    <3> QED BY <1>1, <2>2, <3>1 DEF WellFormed, TypeOK
  <2> QED BY <1>2, <2>1, <2>3 DEF OthersKeep, BudgetKept
<1>5. ASSUME NEW e \in Executor, NEW r \in Request, Execute(e, r)
      PROVE  BudgetKept'
  <2>1. /\ pc[e] = "idle" /\ pc'[e] \in OutsideLock
        /\ UNCHANGED <<plan, outcome, outcomes>> /\ OthersKeep(e)
    BY <1>1, <1>5 DEF Execute, At, Goto, OutsideLock, OthersKeep, dbVars, rowVars, WellFormed, TypeOK
  <2>2. BudgetOf(e)'
    BY <2>1 DEF BudgetKept, BudgetOf, InBudget, OutsideLock
  <2> QED BY <1>3, <2>1, <2>2 DEF Spends
<1>6. ASSUME NEW e \in Executor, Crash(e)
      PROVE  BudgetKept'
  BY <1>1, <1>3, <1>6, LeaveBudget DEF Crash, Spends, dbVars
<1>7. CASE Invisible
  <2>1. SameBudget
    BY <1>7 DEF Invisible, ToggleKillSwitch, AgeOut, Land, LandLate, Expire, SameBudget,
                vars, dbVars, rowVars
  <2> QED BY <1>2, <2>1 DEF SameBudget, BudgetKept
<1>8. ASSUME NEW e \in Executor, Step(e)
      PROVE  BudgetKept'
  <2>1. BudgetOf(e)
    BY DEF BudgetKept
  <2> QED BY <1>1, <1>3, <1>4, <1>8, <2>1, SpendStep
<1> QED
  BY <1>5, <1>6, <1>7, <1>8, Zenon DEF Next, Environment, Invisible

(* Retries of one call are bounded over all transactions of its intent,    *)
(* whatever the reads, failures and limits (reconcileUnknown's comparison  *)
(* of attempts, runBuilt's loop).                                          *)
THEOREM SendsAreBounded == Spec => []BoundedSends
<1>1. Init => BudgetKept
  BY DEF Init, BudgetKept, BudgetOf, InBudget, OutsideLock, NoOutcomes
<1>2. ASSUME WellFormed, BudgetKept
      PROVE  BoundedSends
  <2>1. SUFFICES ASSUME NEW e \in Executor, pc[e] \in Working
                 PROVE  outcome[e].attempts <= Base(req[e]) + Len(Recipe(req[e]))
    BY DEF BoundedSends, Base
  <2>2. BudgetOf(e)
    BY <1>2 DEF BudgetKept
  <2>3. /\ outcome[e].attempts \in Nat /\ plan[e] \in Seq(Phase)
        /\ Base(req[e]) \in Nat /\ Len(Recipe(req[e])) \in Nat
    BY <1>2, <2>1, BudgetTypes DEF Working, InLock
  <2>4. pc[e] \in {"sent", "confirmed"} => plan[e] # <<>>
    BY <1>2 DEF WellFormed, FlightAgrees
  <2>5. Len(plan[e]) \in Nat /\ (pc[e] \in {"sent", "confirmed"} => Len(plan[e]) >= 1)
    BY <2>3, <2>4
  <2> QED BY <2>1, <2>2, <2>3, <2>5 DEF BudgetOf, InBudget, Working, InLock
<1>3. RowInv => WellFormed
  BY DEF RowInv
<1> QED
  BY <1>1, <1>2, <1>3, RowInvInit, RowInvStep, BudgetStep, PTL DEF Spec

-----------------------------------------------------------------------------
(* RECONCILED means opened.  The chain shows the position of an opening as *)
(* funded only after one of its own transactions took effect, and a status *)
(* becomes RECONCILED only when the chain showed that, or had shown it.    *)

OpensAlone(r) == Desc[r].action = "OPEN_POSITION" /\ SoleFunder(r)

Opened(r) == landed[r]["add-liquidity"] > 0

FundedByOpening ==
  \A r \in Request :
    LET a == Target(r, "add-liquidity")
    IN  OpensAlone(r) /\ a \in Address /\ chain.position[a] = "funded" => Opened(r)

DoneMeansOpened ==
  \A e \in Executor :
    pc[e] = "done" /\ status[e] = "RECONCILED" /\ OpensAlone(req[e]) => Opened(req[e])

OpeningInv == FundedByOpening /\ DoneMeansOpened /\ ReconciledMeansOpened

(* Only adding liquidity funds a position.                                 *)
LEMMA FundingEffect ==
  ASSUME WellFormed, NEW q \in Request, NEW phase \in Phase, TakesEffect(q, phase),
         NEW a \in Address, chain'.position[a] = "funded"
  PROVE  \/ chain.position[a] = "funded"
         \/ phase = "add-liquidity" /\ a = Target(q, phase)
<1>1. chain \in ChainState /\ chain' = TxEffect(chain, q, phase)
  BY DEF WellFormed, TypeOK, TakesEffect
<1> QED BY <1>1 DEF TxEffect, ChainState, Phase

(* A transaction that takes effect is counted, and nothing is uncounted.   *)
LEMMA LandedEffect ==
  ASSUME WellFormed, NEW q \in Request, NEW phase \in Phase, TakesEffect(q, phase)
  PROVE  /\ landed'[q][phase] > 0
         /\ \A r \in Request : Opened(r) => Opened(r)'
<1>1. /\ landed \in [Request -> [Phase -> 0..2]]
      /\ landed' = [landed EXCEPT ![q][phase] = IF @ < 2 THEN @ + 1 ELSE 2]
  BY DEF WellFormed, TypeOK, TakesEffect
<1>2. "add-liquidity" \in Phase
  BY DEF Phase
<1>3. landed[q][phase] \in 0..2
  BY <1>1
<1>4. landed'[q][phase] = IF landed[q][phase] < 2 THEN landed[q][phase] + 1 ELSE 2
  BY <1>1
<1>5. \A r \in Request :
        \/ landed'[r]["add-liquidity"] = landed[r]["add-liquidity"]
        \/ r = q /\ phase = "add-liquidity"
  BY <1>1, <1>2
<1> QED BY <1>3, <1>4, <1>5 DEF Opened

LEMMA EffectKeepsOpening ==
  ASSUME WellFormed, OpeningInv, NEW q \in Request, NEW phase \in Phase,
         TakesEffect(q, phase), UNCHANGED <<pc, req, status, intent>>
  PROVE  OpeningInv'
<1>1. \A r \in Request : Opened(r) => Opened(r)'
  BY LandedEffect
<1>2. FundedByOpening'
  <2> SUFFICES ASSUME NEW r \in Request, OpensAlone(r), Target(r, "add-liquidity") \in Address,
                      chain'.position[Target(r, "add-liquidity")] = "funded"
               PROVE  Opened(r)'
    BY DEF FundedByOpening, OpensAlone, SoleFunder
  <2>1. CASE chain.position[Target(r, "add-liquidity")] = "funded"
    BY <1>1, <2>1 DEF OpeningInv, FundedByOpening
  <2>2. CASE chain.position[Target(r, "add-liquidity")] # "funded"
    <3>1. phase = "add-liquidity" /\ Target(r, "add-liquidity") = Target(q, "add-liquidity")
      BY <2>2, FundingEffect
    <3>2. q = r
      BY <3>1 DEF OpensAlone, SoleFunder
    <3> QED BY <3>1, <3>2, LandedEffect DEF Opened
  <2> QED BY <2>1, <2>2
<1>3. DoneMeansOpened'
  <2>1. \A e \in Executor : pc[e] = "done" => req[e] \in Request
    BY DEF WellFormed, CallHasRequest
  <2> QED BY <1>1, <2>1 DEF OpeningInv, DoneMeansOpened, OpensAlone, SoleFunder, Opened
<1>4. ReconciledMeansOpened'
  BY <1>1 DEF OpeningInv, ReconciledMeansOpened, OpensAlone, SoleFunder, Opened
<1> QED BY <1>2, <1>3, <1>4 DEF OpeningInv

(* A call that ends with RECONCILED found the row or saw the chain.        *)
LEMMA DoneStep ==
  ASSUME WellFormed, NEW e \in Executor, Step(e), pc'[e] = "done"
  PROVE  /\ req[e] \in Request /\ UNCHANGED <<req, intent, chain, landed>> /\ OthersStay(e)
         /\ status'[e] = "RECONCILED" =>
              intent[req[e]] = "RECONCILED" \/ ChainVerdict(chain, req[e]) = "APPLIED"
<1> DEFINE Goal ==
      /\ pc[e] # "idle" /\ UNCHANGED <<req, intent, chain, landed>> /\ OthersStay(e)
      /\ status'[e] = "RECONCILED" =>
           intent[req[e]] = "RECONCILED" \/ ChainVerdict(chain, req[e]) = "APPLIED"
<1> USE DEF At, Goto, SetStatus, dbVars, chainVars, OthersStay
<1>1. /\ pc \in [Executor -> OutsideLock \cup InLock]
      /\ status \in [Executor -> IntentStatus]
      /\ pc[e] # "idle" => req[e] \in Request
  BY DEF WellFormed, TypeOK, CallHasRequest
<1>2. ASSUME "APPLIED" \in Read(req[e])
      PROVE  ChainVerdict(chain, req[e]) = "APPLIED"
  BY <1>2 DEF Read
<1>3. CASE AlreadyReconciled(e)
  BY <1>1, <1>3 DEF AlreadyReconciled
<1>4. CASE Recover(e)
  BY <1>1, <1>2, <1>4 DEF Recover
<1>5. CASE Verify(e)
  BY <1>1, <1>2, <1>5 DEF Verify
<1>6. CASE ReconcileApplied(e)
  BY <1>1, <1>2, <1>6 DEF ReconcileApplied
<1>7. CASE ReconcileNotApplied(e)
  BY <1>1, <1>7 DEF ReconcileNotApplied
<1>8. CASE AcquireLock(e) \/ LockContention(e) \/ Refuse(e) \/ RejectByPolicy(e)
           \/ FindIntent(e) \/ CreateIntent(e) \/ CheckCaps(e)
  BY <1>1, <1>8 DEF AcquireLock, LockContention, Refuse, RejectByPolicy, FindIntent,
                    CreateIntent, CheckCaps
<1>9. CASE SimulationFails(e) \/ SimulateAndSign(e) \/ Send(e) \/ SendFails(e)
           \/ Confirmed(e) \/ Finalized(e) \/ ConfirmationFails(e)
  BY <1>1, <1>9 DEF SimulationFails, SimulateAndSign, Send, SendFails, Confirmed, Finalized,
                    ConfirmationFails
<1>10. CASE Commit(e) \/ Reject(e)
  BY <1>1, <1>10 DEF Commit, Reject, Leave
<1> QED
  BY <1>1, <1>3, <1>4, <1>5, <1>6, <1>7, <1>8, <1>9, <1>10, Zenon DEF Step

(* What the chain shows of an opening that is not a sweep.                 *)
LEMMA AppliedMeansFunded ==
  ASSUME WellFormed, NEW r \in Request, ~Desc[r].sweep, Desc[r].action = "OPEN_POSITION",
         ChainVerdict(chain, r) = "APPLIED"
  PROVE  Target(r, "add-liquidity") \in Address
         /\ chain.position[Target(r, "add-liquidity")] = "funded"
<1>1. VerdictOf(PositionSeen(chain, r), r) = "APPLIED"
  BY DEF ChainVerdict
<1>2. PositionSeen(chain, r) = "funded"
  BY <1>1 DEF VerdictOf
<1> QED BY <1>2 DEF PositionSeen

(* A call changes the chain by way of the network, rows by committing, and *)
(* no other call.                                                          *)
LEMMA StepIsOwn ==
  ASSUME WellFormed, NEW e \in Executor, Step(e)
  PROVE  /\ UNCHANGED <<chain, landed>>
         /\ ~Commit(e) => UNCHANGED intent
         /\ OthersStay(e)
<1> USE DEF At, Goto, SetStatus, dbVars, rowVars, chainVars, OthersStay
<1>1. pc \in [Executor -> OutsideLock \cup InLock] /\ req \in [Executor -> Request \cup {NoRequest}]
      /\ status \in [Executor -> IntentStatus]
  BY DEF WellFormed, TypeOK
<1>2. CASE AcquireLock(e) \/ LockContention(e) \/ Refuse(e) \/ RejectByPolicy(e)
           \/ AlreadyReconciled(e) \/ FindIntent(e) \/ CreateIntent(e)
  BY <1>1, <1>2 DEF AcquireLock, LockContention, Refuse, RejectByPolicy, AlreadyReconciled,
                    FindIntent, CreateIntent
<1>3. CASE Recover(e) \/ CheckCaps(e) \/ SimulationFails(e) \/ SimulateAndSign(e) \/ Send(e)
           \/ SendFails(e) \/ Confirmed(e)
  BY <1>1, <1>3 DEF Recover, CheckCaps, SimulationFails, SimulateAndSign, Send, SendFails,
                    Confirmed
<1>4. CASE Finalized(e) \/ ConfirmationFails(e) \/ Verify(e) \/ ReconcileApplied(e)
           \/ ReconcileNotApplied(e)
  BY <1>1, <1>4 DEF Finalized, ConfirmationFails, Verify, ReconcileApplied, ReconcileNotApplied
<1>5. CASE Commit(e) \/ Reject(e)
  BY <1>1, <1>5 DEF Commit, Reject, Leave
<1> QED BY <1>2, <1>3, <1>4, <1>5, Zenon DEF Step

SweepsWithdraw == \A r \in Request : Desc[r].sweep => Desc[r].action = "WITHDRAW"

UnfundedAtFirst ==
  \A a \in Address : (\E r \in Request : OpensAlone(r) /\ Target(r, "add-liquidity") = a)
    => InitialChain.position[a] # "funded"

LEMMA OpeningStep ==
  SweepsWithdraw /\ RowInv /\ OpeningInv /\ [Next]_vars => OpeningInv'
<1> SUFFICES ASSUME SweepsWithdraw, RowInv, OpeningInv, [Next]_vars
             PROVE  OpeningInv'
  OBVIOUS
<1>1. /\ WellFormed /\ LockAgrees
      /\ pc \in [Executor -> OutsideLock \cup InLock]
      /\ intent \in [Request -> IntentStatus]
      /\ \A e \in Executor : pc[e] # "idle" => req[e] \in Request
  BY DEF RowInv, WellFormed, TypeOK, CallHasRequest
<1>2. ASSUME UNCHANGED <<chain, landed>>,
             \A r \in Request : intent'[r] = "RECONCILED" /\ OpensAlone(r) => Opened(r),
             \A e \in Executor : pc'[e] = "done" /\ status'[e] = "RECONCILED"
                                 /\ OpensAlone(req'[e]) => Opened(req'[e])
      PROVE  OpeningInv'
  BY <1>2 DEF OpeningInv, FundedByOpening, DoneMeansOpened, ReconciledMeansOpened, OpensAlone,
              SoleFunder, Opened
<1>3. \A r \in Request : intent[r] = "RECONCILED" /\ OpensAlone(r) => Opened(r)
  BY DEF OpeningInv, ReconciledMeansOpened, OpensAlone, Opened
<1>4. ASSUME NEW e \in Executor, Step(e), pc'[e] = "done"
      PROVE  OpeningInv'
  <2>1. /\ req[e] \in Request /\ UNCHANGED <<req, intent, chain, landed>> /\ OthersStay(e)
        /\ status'[e] = "RECONCILED" =>
             intent[req[e]] = "RECONCILED" \/ ChainVerdict(chain, req[e]) = "APPLIED"
    BY <1>1, <1>4, DoneStep
  <2>2. ASSUME ChainVerdict(chain, req[e]) = "APPLIED", OpensAlone(req[e])
        PROVE  Opened(req[e])
    <3>1. ~Desc[req[e]].sweep
      BY <2>1, <2>2 DEF SweepsWithdraw, OpensAlone
    <3>2. /\ Target(req[e], "add-liquidity") \in Address
          /\ chain.position[Target(req[e], "add-liquidity")] = "funded"
      BY <1>1, <2>1, <2>2, <3>1, AppliedMeansFunded DEF OpensAlone
    <3> QED BY <2>1, <2>2, <3>2 DEF OpeningInv, FundedByOpening
  <2>3. \A f \in Executor : pc'[f] = "done" /\ status'[f] = "RECONCILED"
                            /\ OpensAlone(req'[f]) => Opened(req'[f])
    BY <1>3, <2>1, <2>2 DEF OpeningInv, DoneMeansOpened, OthersStay
  <2> QED BY <1>2, <1>3, <2>1, <2>3
<1>5. ASSUME UNCHANGED <<chain, landed>>, UNCHANGED intent, NEW e \in Executor, pc'[e] # "done",
             OthersStay(e)
      PROVE  OpeningInv'
  BY <1>2, <1>3, <1>5 DEF OpeningInv, DoneMeansOpened, OthersStay
<1>6. ASSUME NEW e \in Executor, Commit(e)
      PROVE  OpeningInv'
  <2>1. /\ pc[e] = "done" /\ pc'[e] = "idle" /\ OthersStay(e) /\ req[e] \in Request
        /\ intent' = [intent EXCEPT ![req[e]] = status[e]]
    BY <1>1, <1>6, CommitEffect
  <2>2. UNCHANGED <<chain, landed>>
    BY <1>6 DEF Commit, chainVars
  <2>3. \A r \in Request : intent'[r] = "RECONCILED" /\ OpensAlone(r) => Opened(r)
    BY <1>1, <1>3, <2>1 DEF OpeningInv, DoneMeansOpened
  <2> QED BY <1>2, <2>1, <2>2, <2>3 DEF OpeningInv, DoneMeansOpened, OthersStay
<1>7. ASSUME NEW e \in Executor, Step(e), pc'[e] # "done", ~Commit(e)
      PROVE  OpeningInv'
  <2>1. UNCHANGED <<chain, landed>> /\ UNCHANGED intent /\ OthersStay(e)
    BY <1>1, <1>7, StepIsOwn
  <2> QED BY <1>5, <1>7, <2>1
<1>8. ASSUME NEW e \in Executor, NEW r \in Request, Execute(e, r)
      PROVE  OpeningInv'
  <2>1. pc'[e] # "done" /\ OthersStay(e) /\ UNCHANGED <<intent, chain, landed>>
    BY <1>1, <1>8 DEF Execute, At, Goto, OthersStay, dbVars, rowVars, chainVars, WellFormed, TypeOK
  <2> QED BY <1>5, <2>1
<1>9. ASSUME NEW e \in Executor, Crash(e)
      PROVE  OpeningInv'
  <2>1. pc'[e] # "done" /\ OthersStay(e) /\ UNCHANGED <<intent, chain, landed>>
    BY <1>1, <1>9 DEF Crash, Leave, Goto, OthersStay, dbVars, WellFormed, TypeOK
  <2> QED BY <1>5, <2>1
<1>10. ASSUME NEW e \in Executor, Land(e)
       PROVE  OpeningInv'
  <2>1. req[e] \in Request /\ Head(plan[e]) \in Phase
    BY <1>1, <1>10 DEF Land, At, WellFormed, TypeOK, FlightAgrees
  <2> QED
    BY <1>1, <1>10, <2>1, EffectKeepsOpening DEF Land, dbVars, rowVars
<1>11. ASSUME NEW tx \in orphan, LandLate(tx)
       PROVE  OpeningInv'
  <2>1. tx[1] \in Request /\ tx[2] \in Phase
    <3>1. tx \in Request \X Phase
      BY <1>1 DEF WellFormed, TypeOK
    <3> QED BY <3>1
  <2>2. TakesEffect(tx[1], tx[2]) /\ UNCHANGED <<pc, req, status, intent>>
    BY <1>11 DEF LandLate, dbVars, rowVars
  <2> QED BY <1>1, <2>1, <2>2, EffectKeepsOpening
<1>12. ASSUME UNCHANGED <<pc, req, status, intent, chain, landed>>
       PROVE  OpeningInv'
  BY <1>2, <1>3, <1>12 DEF OpeningInv, DoneMeansOpened
<1>13. ASSUME ToggleKillSwitch \/ (\E r \in Request : AgeOut(r))
              \/ (\E tx \in orphan : Expire(tx)) \/ UNCHANGED vars
       PROVE  OpeningInv'
  BY <1>12, <1>13 DEF ToggleKillSwitch, AgeOut, Expire, vars, dbVars, rowVars, chainVars
<1> QED
  BY <1>4, <1>6, <1>7, <1>8, <1>9, <1>10, <1>11, <1>13, Zenon DEF Next, Environment

(* An opening is only ever called RECONCILED when its own liquidity went   *)
(* in, as long as nobody else funds its position, nothing but a withdrawal *)
(* is a sweep, and the position was not funded before (execute's verdicts, *)
(* chainState.ts).                                                         *)
THEOREM ReconciledIsOpened ==
  ASSUME SweepsWithdraw, UnfundedAtFirst
  PROVE  Spec => []ReconciledMeansOpened
<1>1. Init => OpeningInv
  <2> SUFFICES ASSUME Init PROVE OpeningInv
    OBVIOUS
  <2>1. FundedByOpening
    BY DEF Init, FundedByOpening, UnfundedAtFirst
  <2>2. DoneMeansOpened /\ ReconciledMeansOpened
    BY DEF Init, DoneMeansOpened, ReconciledMeansOpened
  <2> QED BY <2>1, <2>2 DEF OpeningInv
<1>2. OpeningInv => ReconciledMeansOpened
  BY DEF OpeningInv
<1>3. RowInv /\ OpeningInv /\ [Next]_vars => OpeningInv'
  BY OpeningStep
<1> QED
  BY <1>1, <1>2, <1>3, RowInvInit, RowInvStep, PTL DEF Spec

-----------------------------------------------------------------------------
(* The project cap.  The sum of the recorded intents is a fold over a      *)
(* finite set; what it obeys is proved by the smallest set that fails.     *)

Spent(requests) == MapThenSumSet(LAMBDA q : Desc[q].notional, requests)

AnyOf(s) == CHOOSE q \in s : TRUE

Spending(sum, S) ==
  sum = [s \in SUBSET S |-> IF s = {} THEN 0
                            ELSE Desc[AnyOf(s)].notional + sum[s \ {AnyOf(s)}]]

LEMMA SmallestSet ==
  ASSUME NEW S, IsFiniteSet(S), NEW Bad, Bad \subseteq SUBSET S, Bad # {}
  PROVE  \E T \in Bad : IsFiniteSet(T) /\ \A U \in Bad : ~(U \subseteq T /\ U # T)
<1>1. IsWellFoundedOn(StrictSubsetOrdering(S), FiniteSubsetsOf(S))
  BY FS_StrictSubsetOrderingWellFounded
<1>2. Bad \subseteq FiniteSubsetsOf(S)
  BY FS_Subset DEF FiniteSubsetsOf
<1>3. PICK T \in Bad : \A U \in Bad : ~(<<U, T>> \in StrictSubsetOrdering(S))
  BY <1>1, <1>2, WFMin
<1>4. \A U \in Bad : ~(U \subseteq T /\ U # T)
  BY <1>3 DEF StrictSubsetOrdering
<1> QED BY <1>4, FS_Subset

LEMMA AnyIsIn ==
  ASSUME NEW s, s # {} PROVE AnyOf(s) \in s /\ s \ {AnyOf(s)} \subseteq s /\ s \ {AnyOf(s)} # s
BY DEF AnyOf

LEMMA SpentIsChosen ==
  ASSUME NEW S
  PROVE  Spent(S) = (CHOOSE sum : Spending(sum, S))[S]
BY DEF Spent, MapThenSumSet, MapThenFoldSet, Spending, AnyOf

LEMMA SpendingStep ==
  ASSUME NEW S, NEW sum, Spending(sum, S), NEW s \in SUBSET S
  PROVE  sum[s] = IF s = {} THEN 0 ELSE Desc[AnyOf(s)].notional + sum[s \ {AnyOf(s)}]
BY DEF Spending

LEMMA SpendingAgrees ==
  ASSUME NEW S, IsFiniteSet(S), NEW T \in SUBSET S, NEW g, NEW h,
         Spending(g, S), Spending(h, T)
  PROVE  \A s \in SUBSET T : g[s] = h[s]
<1> DEFINE Bad == {s \in SUBSET T : g[s] # h[s]}
<1> SUFFICES ASSUME Bad # {} PROVE FALSE
  OBVIOUS
<1>1. IsFiniteSet(T) /\ Bad \subseteq SUBSET T
  BY FS_Subset
<1>2. PICK s \in Bad : \A u \in Bad : ~(u \subseteq s /\ u # s)
  <2> HIDE DEF Bad
  <2> QED BY <1>1, SmallestSet
<1> s \in SUBSET S /\ s \in SUBSET T
  BY <1>1
<1>3. g[s] = IF s = {} THEN 0 ELSE Desc[AnyOf(s)].notional + g[s \ {AnyOf(s)}]
  BY SpendingStep
<1>4. h[s] = IF s = {} THEN 0 ELSE Desc[AnyOf(s)].notional + h[s \ {AnyOf(s)}]
  BY DEF Spending
<1>5. s # {}
  BY <1>3, <1>4
<1>6. s \ {AnyOf(s)} \notin Bad
  BY <1>2, <1>5, AnyIsIn
<1> QED BY <1>3, <1>4, <1>5, <1>6

LEMMA SpendingExists ==
  ASSUME NEW S, IsFiniteSet(S)
  PROVE  \E sum : Spending(sum, S)
<1> DEFINE Bad == {T \in SUBSET S : ~ \E sum : Spending(sum, T)}
           part(T) == CHOOSE sum : Spending(sum, T)
<1> SUFFICES ASSUME Bad # {} PROVE FALSE
  OBVIOUS
<1>1. PICK T \in Bad : IsFiniteSet(T) /\ \A U \in Bad : ~(U \subseteq T /\ U # T)
  <2>1. Bad \subseteq SUBSET S
    OBVIOUS
  <2> HIDE DEF Bad
  <2> QED BY <2>1, SmallestSet
<1>2. ASSUME NEW U \in SUBSET T, U # T PROVE Spending(part(U), U)
  BY <1>1, <1>2
<1>3. ASSUME NEW U \in SUBSET T, U # T, NEW V \in SUBSET U PROVE part(U)[V] = part(V)[V]
  <2>1. IsFiniteSet(U)
    BY <1>1, FS_Subset
  <2>2. Spending(part(U), U) /\ Spending(part(V), V)
    BY <1>2, <1>3
  <2> HIDE DEF part
  <2> QED BY <2>1, <2>2, SpendingAgrees
<1> DEFINE rest(s) == s \ {AnyOf(s)}
           cost(s) == Desc[AnyOf(s)].notional
           whole == [s \in SUBSET T |-> IF s = {} THEN 0 ELSE cost(s) + part(rest(s))[rest(s)]]
<1>4. ASSUME NEW s \in SUBSET T, s # {} PROVE whole[rest(s)] = part(rest(s))[rest(s)]
  <2>1. rest(s) \in SUBSET T /\ rest(s) # T
    BY <1>4, AnyIsIn
  <2>2. Spending(part(rest(s)), rest(s))
    BY <1>2, <2>1
  <2>3. part(rest(s))[rest(s)] =
          IF rest(s) = {} THEN 0 ELSE cost(rest(s)) + part(rest(s))[rest(rest(s))]
    <3>1. rest(s) \in SUBSET rest(s)
      OBVIOUS
    <3> HIDE DEF part, rest
    <3>2. part(rest(s))[rest(s)] =
            IF rest(s) = {} THEN 0 ELSE cost(rest(s)) + part(rest(s))[rest(s) \ {AnyOf(rest(s))}]
      BY <2>2, <3>1, SpendingStep
    <3> QED BY <3>2 DEF rest
  <2>4. rest(s) # {} => part(rest(s))[rest(rest(s))] = part(rest(rest(s)))[rest(rest(s))]
    BY <1>3, <2>1, AnyIsIn
  <2> HIDE DEF part, rest, cost
  <2> QED BY <2>1, <2>3, <2>4
<1>5. whole = [s \in SUBSET T |-> IF s = {} THEN 0 ELSE cost(s) + whole[rest(s)]]
  <2>1. \A s \in SUBSET T : s # {} => whole[rest(s)] = part(rest(s))[rest(s)]
    BY <1>4
  <2> DEFINE after(s) == part(rest(s))[rest(s)]
  <2>2. whole = [s \in SUBSET T |-> IF s = {} THEN 0 ELSE cost(s) + after(s)]
    OBVIOUS
  <2>3. \A s \in SUBSET T : s # {} => whole[rest(s)] = after(s)
    BY <2>1
  <2> HIDE DEF part, rest, whole, after, cost
  <2> QED BY <2>2, <2>3
<1>6. Spending(whole, T)
  BY <1>5 DEF Spending
<1> QED BY <1>6

LEMMA SpentStep ==
  ASSUME NEW S, IsFiniteSet(S)
  PROVE  Spent(S) = IF S = {} THEN 0 ELSE Desc[AnyOf(S)].notional + Spent(S \ {AnyOf(S)})
<1> DEFINE sum(T) == CHOOSE g : Spending(g, T)
           T == S \ {AnyOf(S)}
<1>1. IsFiniteSet(T) /\ T \in SUBSET S
  BY FS_Subset
<1>2. Spending(sum(S), S) /\ Spending(sum(T), T)
  BY <1>1, SpendingExists
<1>3. Spent(S) = sum(S)[S] /\ Spent(T) = sum(T)[T]
  BY SpentIsChosen
<1> HIDE DEF sum
<1>4. sum(S)[S] = IF S = {} THEN 0 ELSE Desc[AnyOf(S)].notional + sum(S)[T]
  <2> DEFINE g == sum(S)
  <2>1. Spending(g, S) /\ S \in SUBSET S
    BY <1>2
  <2> HIDE DEF g
  <2>2. g[S] = IF S = {} THEN 0 ELSE Desc[AnyOf(S)].notional + g[S \ {AnyOf(S)}]
    BY <2>1, SpendingStep
  <2> QED BY <2>2 DEF g
<1>5. sum(S)[T] = sum(T)[T]
  <2>1. T \in SUBSET T
    OBVIOUS
  <2> HIDE DEF T
  <2> QED BY <1>1, <1>2, <2>1, SpendingAgrees
<1> QED BY <1>3, <1>4, <1>5

LEMMA NotionalIsNat == ASSUME NEW r \in Request PROVE Desc[r].notional \in Nat
BY DescAssumption DEF RequestDesc

LEMMA SpentIsNat ==
  ASSUME NEW S, IsFiniteSet(S), S \subseteq Request
  PROVE  Spent(S) \in Nat
<1> DEFINE Bad == {T \in SUBSET S : Spent(T) \notin Nat}
<1> SUFFICES ASSUME Bad # {} PROVE FALSE
  OBVIOUS
<1>1. PICK T \in Bad : IsFiniteSet(T) /\ \A U \in Bad : ~(U \subseteq T /\ U # T)
  <2>1. Bad \subseteq SUBSET S
    OBVIOUS
  <2> HIDE DEF Bad
  <2> QED BY <2>1, SmallestSet
<1>2. Spent(T) = IF T = {} THEN 0 ELSE Desc[AnyOf(T)].notional + Spent(T \ {AnyOf(T)})
  BY <1>1, SpentStep
<1>3. T # {}
  BY <1>2
<1>4. Spent(T \ {AnyOf(T)}) \in Nat
  BY <1>1, <1>3, AnyIsIn
<1>5. Desc[AnyOf(T)].notional \in Nat
  BY <1>1, <1>3, AnyIsIn, NotionalIsNat
<1> QED BY <1>2, <1>3, <1>4, <1>5

(* The order in which the sum is taken does not matter.                    *)
LEMMA SpentWithout ==
  ASSUME NEW S, IsFiniteSet(S), S \subseteq Request, NEW r \in S
  PROVE  Spent(S) = Desc[r].notional + Spent(S \ {r})
<1> DEFINE Bad == {T \in SUBSET S : \E q \in T : Spent(T) # Desc[q].notional + Spent(T \ {q})}
<1> SUFFICES ASSUME Bad # {} PROVE FALSE
  OBVIOUS
<1>1. PICK T \in Bad : IsFiniteSet(T) /\ \A U \in Bad : ~(U \subseteq T /\ U # T)
  <2>1. Bad \subseteq SUBSET S
    OBVIOUS
  <2> HIDE DEF Bad
  <2> QED BY <2>1, SmallestSet
<1>2. PICK q \in T : Spent(T) # Desc[q].notional + Spent(T \ {q})
  BY <1>1
<1> DEFINE a == AnyOf(T)
           both == (T \ {a}) \ {q}
<1>3. a \in T /\ T \subseteq S
  BY <1>1, <1>2, AnyIsIn
<1>4. Spent(T) = Desc[a].notional + Spent(T \ {a})
  BY <1>1, <1>2, SpentStep
<1>5. a # q
  BY <1>2, <1>4
<1> HIDE DEF a
<1>6. T \ {a} \notin Bad /\ T \ {q} \notin Bad
  BY <1>1, <1>2, <1>3
<1>7. Spent(T \ {a}) = Desc[q].notional + Spent(both)
  BY <1>2, <1>3, <1>5, <1>6
<1>8. (T \ {q}) \ {a} = both
  OBVIOUS
<1>9. Spent(T \ {q}) = Desc[a].notional + Spent(both)
  BY <1>3, <1>5, <1>6, <1>8
<1>10. IsFiniteSet(both) /\ both \subseteq Request
  BY <1>1, <1>3, FS_Subset
<1>11. Spent(both) \in Nat /\ Desc[a].notional \in Nat /\ Desc[q].notional \in Nat
  <2> HIDE DEF both
  <2> QED BY <1>2, <1>3, <1>10, SpentIsNat, NotionalIsNat
<1> QED BY <1>2, <1>4, <1>7, <1>9, <1>11

Recorded(requests) == {q \in requests \cap window : intent[q] # "NONE"}

LEMMA RecordedIsSpent ==
  ASSUME NEW requests
  PROVE  RecordedNotional(requests) = Spent(Recorded(requests))
BY DEF RecordedNotional, Spent, Recorded

(* A call the caps have let through: it stays within them until it ends.   *)
Cleared == {"simulate", "signed", "sent", "confirmed", "unknown", "verify", "done"}

RoomKept ==
  \A e \in Executor : pc[e] \in Cleared /\ intent[req[e]] = "NONE" =>
    Spent(Recorded(OfProject(ProjectOf(e)))) + Desc[req[e]].notional <= ProjectCap

(* Only a call that found a row recovers it.                               *)
RecoversRows == \A e \in Executor : pc[e] = "recover" => intent[req[e]] # "NONE"

CapInv ==
  /\ IsFiniteSet(window)
  /\ RecoversRows
  /\ RoomKept
  /\ \A p \in Project : Spent(Recorded(OfProject(p))) <= ProjectCap

(* With the rows settled, what the caps count is what is recorded.         *)
LEMMA CountedIsRecorded ==
  ASSUME SettledRows, NEW r \in Request, intent[r] = "NONE", NEW p
  PROVE  RollingNotional((Request \ {r}) \cap OfProject(p)) = Spent(Recorded(OfProject(p)))
<1>1. Counted((Request \ {r}) \cap OfProject(p)) = Recorded(OfProject(p))
  BY DEF SettledRows, Counted, CountedStatuses, Recorded, OfProject
<1>2. RollingNotional((Request \ {r}) \cap OfProject(p))
        = Spent(Counted((Request \ {r}) \cap OfProject(p)))
  BY DEF RollingNotional, Spent
<1> QED BY <1>1, <1>2

(* How a call comes to be cleared.                                         *)
LEMMA ClearedStep ==
  ASSUME WellFormed, NEW e \in Executor, Step(e), ~Commit(e)
  PROVE  /\ UNCHANGED <<intent, window>> /\ OthersStay(e)
         /\ pc'[e] = "recover" => UNCHANGED req /\ intent[req[e]] # "NONE"
         /\ pc'[e] \in Cleared =>
              /\ UNCHANGED req /\ pc[e] \in InLock
              /\ \/ pc[e] \in Cleared \cup {"recover"}
                 \/ intent[req[e]] # "NONE"
                 \/ WithinCaps(e)
<1> DEFINE Goal ==
      /\ UNCHANGED <<intent, window>> /\ OthersStay(e)
      /\ pc'[e] = "recover" => UNCHANGED req /\ intent[req[e]] # "NONE"
      /\ pc'[e] \in Cleared =>
           /\ UNCHANGED req /\ pc[e] \in InLock
           /\ \/ pc[e] \in Cleared \cup {"recover"}
              \/ intent[req[e]] # "NONE"
              \/ WithinCaps(e)
<1> USE DEF At, Goto, SetStatus, dbVars, rowVars, OthersStay, Cleared, InLock
<1>1. /\ pc \in [Executor -> OutsideLock \cup InLock]
      /\ req \in [Executor -> Request \cup {NoRequest}]
      /\ status \in [Executor -> IntentStatus]
  BY DEF WellFormed, TypeOK
<1>2. CASE AcquireLock(e) \/ LockContention(e) \/ Refuse(e) \/ RejectByPolicy(e)
           \/ AlreadyReconciled(e) \/ FindIntent(e) \/ CreateIntent(e)
  BY <1>1, <1>2 DEF AcquireLock, LockContention, Refuse, RejectByPolicy, AlreadyReconciled,
                    FindIntent, CreateIntent
<1>3. CASE CheckCaps(e)
  <2>1. /\ pc[e] = "caps" /\ UNCHANGED <<intent, window, req, status>>
        /\ pc' = [pc EXCEPT ![e] = IF WithinCaps(e) THEN "simulate" ELSE "throwing"]
    BY <1>3 DEF CheckCaps
  <2> QED BY <1>1, <2>1
<1>4. CASE Recover(e) \/ SimulationFails(e) \/ SimulateAndSign(e) \/ Send(e) \/ SendFails(e)
           \/ Confirmed(e)
  BY <1>1, <1>4 DEF Recover, SimulationFails, SimulateAndSign, Send, SendFails, Confirmed
<1>5. CASE Finalized(e) \/ ConfirmationFails(e) \/ Verify(e) \/ ReconcileApplied(e)
           \/ ReconcileNotApplied(e)
  BY <1>1, <1>5 DEF Finalized, ConfirmationFails, Verify, ReconcileApplied, ReconcileNotApplied
<1>6. CASE Reject(e)
  BY <1>1, <1>6 DEF Reject, Leave
<1> QED BY <1>2, <1>3, <1>4, <1>5, <1>6, Zenon DEF Step

(* A commit adds its request to the recorded ones, if it had no row.       *)
LEMMA CommitRecords ==
  ASSUME RowInv, NEW e \in Executor, Commit(e), NEW requests \in SUBSET Request
  PROVE  /\ req[e] \in Request
         /\ Recorded(requests)' = IF intent[req[e]] = "NONE" /\ req[e] \in requests
                                  THEN Recorded(requests) \cup {req[e]} ELSE Recorded(requests)
         /\ intent[req[e]] = "NONE" => req[e] \notin Recorded(requests)
         /\ window' \subseteq window \cup {req[e]}
<1>1. /\ pc[e] = "done" /\ req[e] \in Request /\ intent \in [Request -> IntentStatus]
      /\ status[e] \in {"STUCK", "RECONCILED"}
  BY DEF Commit, At, RowInv, WellFormed, TypeOK, CallHasRequest, DoneIsSettled
<1>2. /\ intent' = [intent EXCEPT ![req[e]] = status[e]]
      /\ window' = IF intent[req[e]] = "NONE" THEN window \cup {req[e]} ELSE window
  BY DEF Commit
<1>3. intent'[req[e]] # "NONE" /\ \A q \in Request : q # req[e] => intent'[q] = intent[q]
  BY <1>1, <1>2
<1>4. Recorded(requests)' = {q \in requests \cap window' : intent'[q] # "NONE"}
  BY DEF Recorded
<1>5. \A q \in requests : q \in Recorded(requests)' <=>
         q \in Recorded(requests) \/ (q = req[e] /\ intent[req[e]] = "NONE")
  BY <1>2, <1>3, <1>4 DEF Recorded
<1>6. Recorded(requests)' \subseteq requests /\ Recorded(requests) \subseteq requests
  BY <1>4 DEF Recorded
<1>7. intent[req[e]] = "NONE" => req[e] \notin Recorded(requests)
  BY DEF Recorded
<1> QED BY <1>1, <1>2, <1>5, <1>6, <1>7

LEMMA RecordedTypes ==
  ASSUME IsFiniteSet(window), NEW requests \in SUBSET Request
  PROVE  IsFiniteSet(Recorded(requests)) /\ Recorded(requests) \subseteq Request
         /\ Spent(Recorded(requests)) \in Nat
<1>1. Recorded(requests) \subseteq window /\ Recorded(requests) \subseteq Request
  BY DEF Recorded
<1>2. IsFiniteSet(Recorded(requests))
  BY <1>1, FS_Subset
<1> QED BY <1>1, <1>2, SpentIsNat

(* An intent that is a day old makes room.                                 *)
LEMMA AgingMakesRoom ==
  ASSUME IsFiniteSet(window), NEW r \in Request, AgeOut(r), NEW requests \in SUBSET Request
  PROVE  Spent(Recorded(requests)') <= Spent(Recorded(requests))
<1>1. Recorded(requests)' = Recorded(requests) \ {r}
  BY DEF AgeOut, Recorded
<1>2. /\ IsFiniteSet(Recorded(requests)) /\ Recorded(requests) \subseteq Request
      /\ Spent(Recorded(requests)) \in Nat
  BY RecordedTypes
<1>3. CASE r \notin Recorded(requests)
  <2>1. Recorded(requests)' = Recorded(requests)
    BY <1>1, <1>3
  <2> QED BY <1>2, <2>1
<1>4. CASE r \in Recorded(requests)
  <2>1. Spent(Recorded(requests)) = Desc[r].notional + Spent(Recorded(requests) \ {r})
    BY <1>2, <1>4, SpentWithout
  <2>2. IsFiniteSet(Recorded(requests) \ {r}) /\ Recorded(requests) \ {r} \subseteq Request
    BY <1>2, FS_Subset
  <2>3. Spent(Recorded(requests) \ {r}) \in Nat /\ Desc[r].notional \in Nat
    BY <2>2, SpentIsNat, NotionalIsNat
  <2> QED BY <1>1, <2>1, <2>3
<1> QED BY <1>3, <1>4

LEMMA CapStep == RowInv /\ CapInv /\ [Next]_vars => CapInv'
<1> SUFFICES ASSUME RowInv, CapInv, [Next]_vars
             PROVE  CapInv'
  OBVIOUS
<1>1. /\ WellFormed /\ LockAgrees /\ SettledRows /\ IsFiniteSet(window)
      /\ pc \in [Executor -> OutsideLock \cup InLock]
      /\ ProjectCap \in Nat
      /\ \A e \in Executor : pc[e] \in InLock => req[e] \in Request
  BY PipelineAssumption DEF RowInv, CapInv, WellFormed, TypeOK, CallHasRequest, InLock
<1>2. \A p : OfProject(p) \in SUBSET Request
  BY DEF OfProject
<1>3. Cleared \subseteq InLock /\ "recover" \in InLock
  BY DEF Cleared, InLock
<1>4. ASSUME UNCHANGED <<intent, window>>,
             \A e \in Executor : pc'[e] = "recover" => intent[req'[e]] # "NONE",
             \A e \in Executor : pc'[e] \in Cleared /\ intent[req'[e]] = "NONE" =>
               Spent(Recorded(OfProject(Desc[req'[e]].project))) + Desc[req'[e]].notional
                 <= ProjectCap
      PROVE  CapInv'
  <2>1. \A S : Recorded(S)' = Recorded(S)
    BY <1>4 DEF Recorded
  <2> QED BY <1>4, <2>1 DEF CapInv, RecoversRows, RoomKept, ProjectOf
<1>5. ASSUME UNCHANGED <<intent, window>>, NEW e \in Executor, OthersStay(e),
             pc'[e] = "recover" => intent[req'[e]] # "NONE",
             pc'[e] \in Cleared /\ intent[req'[e]] = "NONE" =>
               Spent(Recorded(OfProject(Desc[req'[e]].project))) + Desc[req'[e]].notional
                 <= ProjectCap
      PROVE  CapInv'
  <2>1. \A f \in Executor : pc'[f] = "recover" => intent[req'[f]] # "NONE"
    BY <1>5 DEF CapInv, RecoversRows, OthersStay
  <2>2. \A f \in Executor : pc'[f] \in Cleared /\ intent[req'[f]] = "NONE" =>
          Spent(Recorded(OfProject(Desc[req'[f]].project))) + Desc[req'[f]].notional
            <= ProjectCap
    BY <1>5 DEF CapInv, RoomKept, OthersStay, ProjectOf
  <2> QED BY <1>4, <1>5, <2>1, <2>2
<1>6. ASSUME NEW e \in Executor, Step(e), ~Commit(e)
      PROVE  CapInv'
  <2>1. /\ UNCHANGED <<intent, window>> /\ OthersStay(e)
        /\ pc'[e] = "recover" => UNCHANGED req /\ intent[req[e]] # "NONE"
        /\ pc'[e] \in Cleared =>
             /\ UNCHANGED req /\ pc[e] \in InLock
             /\ \/ pc[e] \in Cleared \cup {"recover"}
                \/ intent[req[e]] # "NONE"
                \/ WithinCaps(e)
    BY <1>1, <1>6, ClearedStep
  <2>2. ASSUME pc'[e] \in Cleared, intent[req'[e]] = "NONE"
        PROVE  Spent(Recorded(OfProject(ProjectOf(e)))) + Desc[req[e]].notional <= ProjectCap
    <3>1. req' = req /\ req[e] \in Request /\ intent[req[e]] = "NONE"
      BY <1>1, <2>1, <2>2
    <3>2. CASE pc[e] \in Cleared
      BY <3>1, <3>2 DEF CapInv, RoomKept
    <3>3. CASE WithinCaps(e)
      <4>1. RollingNotional((Request \ {req[e]}) \cap OfProject(ProjectOf(e)))
              + Desc[req[e]].notional <= ProjectCap
        BY <3>3 DEF WithinCaps
      <4> QED BY <1>1, <3>1, <4>1, CountedIsRecorded
    <3> QED BY <2>1, <2>2, <3>1, <3>2, <3>3 DEF CapInv, RecoversRows
  <2> QED BY <1>5, <2>1, <2>2 DEF ProjectOf
<1>7. ASSUME NEW e \in Executor, Commit(e)
      PROVE  CapInv'
  <2>0. PICK r, p : r = req[e] /\ p = Desc[r].project
    OBVIOUS
  <2>1. /\ pc[e] = "done" /\ pc'[e] = "idle" /\ OthersStay(e)
        /\ \A f \in Executor : f # e /\ pc[f] \in InLock =>
             /\ ProjectOf(f) # ProjectOf(e)
             /\ intent'[req[f]] = intent[req[f]]
    BY <1>1, <1>7, CommitEffect
  <2>2. /\ r \in Request
        /\ window' \subseteq window \cup {r}
        /\ \A S \in SUBSET Request :
             /\ Recorded(S)' = IF intent[r] = "NONE" /\ r \in S
                               THEN Recorded(S) \cup {r} ELSE Recorded(S)
             /\ intent[r] = "NONE" => r \notin Recorded(S)
    BY <1>7, <2>0, CommitRecords
  <2>3. IsFiniteSet(window')
    <3>1. IsFiniteSet(window \cup {r})
      BY <1>1, FS_AddElement
    <3> QED BY <2>2, <3>1, FS_Subset
  <2>4. \A o : o # p => Recorded(OfProject(o))' = Recorded(OfProject(o))
    <3>1. \A o : o # p => r \notin OfProject(o)
      BY <2>0 DEF OfProject
    <3> QED BY <1>2, <2>2, <3>1
  <2>5. Spent(Recorded(OfProject(p))') <= ProjectCap \/ p \notin Project
    <3>1. CASE intent[r] = "NONE"
      <4> DEFINE S == Recorded(OfProject(p))
      <4>1. /\ Recorded(OfProject(p))' = S \cup {r} /\ r \notin S
        BY <1>2, <2>0, <2>2, <3>1 DEF OfProject
      <4>2. IsFiniteSet(S) /\ S \subseteq Request
        BY <1>1, <1>2, RecordedTypes
      <4>3. Spent(S) + Desc[r].notional <= ProjectCap
        BY <2>0, <2>1, <3>1 DEF CapInv, RoomKept, ProjectOf, Cleared
      <4> HIDE DEF S
      <4>4. IsFiniteSet(S \cup {r}) /\ S \cup {r} \subseteq Request /\ (S \cup {r}) \ {r} = S
        BY <2>2, <4>1, <4>2, FS_AddElement
      <4>5. Spent(S \cup {r}) = Desc[r].notional + Spent(S)
        BY <4>4, SpentWithout
      <4>6. Spent(S) \in Nat /\ Desc[r].notional \in Nat
        BY <2>2, <4>2, SpentIsNat, NotionalIsNat
      <4> QED BY <4>1, <4>3, <4>5, <4>6
    <3>2. CASE intent[r] # "NONE"
      <4>1. Recorded(OfProject(p))' = Recorded(OfProject(p))
        BY <1>2, <2>2, <3>2
      <4> QED BY <4>1 DEF CapInv
    <3> QED BY <3>1, <3>2
  <2>6. \A o \in Project : Spent(Recorded(OfProject(o))') <= ProjectCap
    BY <2>4, <2>5 DEF CapInv
  <2>7. RecoversRows'
    BY <1>3, <2>1 DEF CapInv, RecoversRows, OthersStay
  <2>8. RoomKept'
    <3> SUFFICES ASSUME NEW f \in Executor, NEW q, q = req'[f],
                        pc'[f] \in Cleared, intent'[q] = "NONE"
                 PROVE  Spent(Recorded(OfProject(Desc[q].project))') + Desc[q].notional
                          <= ProjectCap
      BY DEF RoomKept, ProjectOf
    <3>1. f # e
      BY <2>1 DEF Cleared
    <3>2. pc[f] \in Cleared /\ q = req[f] /\ pc[f] \in InLock
      BY <1>3, <2>1, <3>1 DEF OthersStay
    <3>3. Desc[q].project # p /\ intent[q] = "NONE"
      BY <2>0, <2>1, <3>1, <3>2 DEF ProjectOf
    <3>4. Spent(Recorded(OfProject(Desc[q].project))) + Desc[q].notional <= ProjectCap
      BY <3>2, <3>3 DEF CapInv, RoomKept, ProjectOf
    <3> QED BY <2>4, <3>2, <3>3, <3>4
  <2> QED BY <2>3, <2>6, <2>7, <2>8 DEF CapInv
<1>8. ASSUME NEW r \in Request, AgeOut(r)
      PROVE  CapInv'
  <2>1. UNCHANGED <<intent, pc, req>> /\ window' \subseteq window
    BY <1>8 DEF AgeOut
  <2>2. IsFiniteSet(window')
    BY <1>1, <2>1, FS_Subset
  <2>3. \A o : /\ Spent(Recorded(OfProject(o))') <= Spent(Recorded(OfProject(o)))
               /\ Spent(Recorded(OfProject(o))) \in Nat
    BY <1>1, <1>2, <1>8, AgingMakesRoom, RecordedTypes
  <2>4. \A o : Spent(Recorded(OfProject(o))') \in Nat
    <3> TAKE o
    <3>1. Recorded(OfProject(o))' \subseteq window' /\ Recorded(OfProject(o))' \subseteq Request
      BY DEF Recorded, OfProject
    <3> QED BY <2>2, <3>1, FS_Subset, SpentIsNat
  <2>5. \A o \in Project : Spent(Recorded(OfProject(o))') <= ProjectCap
    BY <1>1, <2>3, <2>4 DEF CapInv
  <2>6. RoomKept'
    <3> SUFFICES ASSUME NEW f \in Executor, NEW q, q = req[f],
                        pc[f] \in Cleared, intent[q] = "NONE"
                 PROVE  Spent(Recorded(OfProject(Desc[q].project))') + Desc[q].notional
                          <= ProjectCap
      BY <2>1 DEF RoomKept, ProjectOf
    <3>1. Spent(Recorded(OfProject(Desc[q].project))) + Desc[q].notional <= ProjectCap
      BY DEF CapInv, RoomKept, ProjectOf
    <3>2. Desc[q].notional \in Nat
      BY <1>1, <1>3, NotionalIsNat
    <3> QED BY <1>1, <2>3, <2>4, <3>1, <3>2
  <2>7. RecoversRows'
    BY <2>1 DEF CapInv, RecoversRows
  <2> QED BY <2>2, <2>5, <2>6, <2>7 DEF CapInv
<1>9. ASSUME UNCHANGED <<intent, window, pc, req>>
      PROVE  CapInv'
  BY <1>4, <1>9 DEF CapInv, RecoversRows, RoomKept, ProjectOf
<1>10. ASSUME NEW e \in Executor, NEW r \in Request, Execute(e, r)
       PROVE  CapInv'
  <2>1. /\ UNCHANGED <<intent, window>> /\ OthersStay(e) /\ pc'[e] \notin Cleared
        /\ pc'[e] # "recover"
    BY <1>1, <1>10
      DEF Execute, At, Goto, OthersStay, dbVars, rowVars, Cleared, WellFormed, TypeOK
  <2> QED BY <1>5, <2>1
<1>11. ASSUME NEW e \in Executor, Crash(e)
       PROVE  CapInv'
  <2>1. /\ UNCHANGED <<intent, window>> /\ OthersStay(e) /\ pc'[e] \notin Cleared
        /\ pc'[e] # "recover"
    BY <1>1, <1>11 DEF Crash, Leave, Goto, OthersStay, dbVars, Cleared, WellFormed, TypeOK
  <2> QED BY <1>5, <2>1
<1>12. ASSUME ToggleKillSwitch \/ (\E e \in Executor : Land(e))
              \/ (\E tx \in orphan : LandLate(tx) \/ Expire(tx)) \/ UNCHANGED vars
       PROVE  CapInv'
  BY <1>9, <1>12 DEF ToggleKillSwitch, Land, LandLate, Expire, vars, dbVars
<1> QED
  BY <1>6, <1>7, <1>8, <1>10, <1>11, <1>12, Zenon DEF Next, Environment

(* What a project's calls have recorded in a day stays within its cap,     *)
(* however they interleave, fail and age, although each call compares with *)
(* the cap before its own row is visible (the caps of executeLocked under  *)
(* withProjectLock, rollingNotionalSol).                                   *)
THEOREM ProjectCapIsKept == Spec => []ProjectCapHolds
<1>1. Init => CapInv
  <2> SUFFICES ASSUME Init PROVE CapInv
    OBVIOUS
  <2>1. IsFiniteSet(window) /\ \A S : Recorded(S) = {}
    BY FS_EmptySet DEF Init, Recorded
  <2>2. Spent({}) = 0
    BY SpentStep, FS_EmptySet
  <2>3. RecoversRows /\ RoomKept
    BY DEF Init, RecoversRows, RoomKept, Cleared
  <2>4. ProjectCap \in Nat
    BY PipelineAssumption
  <2> QED BY <2>1, <2>2, <2>3, <2>4 DEF CapInv
<1>2. CapInv => ProjectCapHolds
  BY RecordedIsSpent DEF CapInv, ProjectCapHolds
<1> QED
  BY <1>1, <1>2, CapStep, RowInvInit, RowInvStep, PTL DEF Spec

-----------------------------------------------------------------------------
(* At most once.  Where nothing lands late and nothing is taken back, what *)
(* a transaction did stays visible on the chain, so a call that looks at   *)
(* the chain before it sends never sends it a second time.                 *)

Adds(r) == ~Desc[r].sweep /\ Desc[r].action \in {"OPEN_POSITION", "COMPOUND"}

Compounds(r) == ~Desc[r].sweep /\ Desc[r].action = "COMPOUND"

(* No position is emptied again: the only withdrawals are sweeps.          *)
NothingRemoves ==
  \A r \in Request : IF Desc[r].sweep THEN Desc[r].action = "WITHDRAW"
                      ELSE Desc[r].action \notin {"REBALANCE", "EXIT", "WITHDRAW"}

(* A crash forgets the row of a first attempt; an opening then fails on    *)
(* its initialized position, but a compound would be sent again.           *)
Undisturbed ==
  /\ NothingRemoves
  /\ "late" \notin Events
  /\ "crash" \in Events => \A r \in Request : ~Compounds(r)

Whole == <<"initialize-position", "add-liquidity">>

(* What may be left to run of a request.                                   *)
Planned(r) ==
  CASE Desc[r].sweep -> {Sweeping}
    [] ~Desc[r].sweep /\ Desc[r].action = "CREATE_POOL" -> {<<"create-pool">>}
    [] ~Desc[r].sweep /\ Desc[r].action = "OPEN_POSITION" -> {Whole, Adding}
    [] ~Desc[r].sweep /\ Desc[r].action = "COMPOUND" -> {Adding}
    [] OTHER -> {<<"claim-rewards">>}

(* What the chain shows of the transactions that landed.                   *)
ShownBy(c, p, a, times) ==
  /\ times["create-pool"] > 0 => c.pool[p]
  /\ times["founder-sweep"] > 0 => ~c.wallet[p]
  /\ times["initialize-position"] > 0 => a \in Address /\ c.position[a] # "absent"
  /\ times["add-liquidity"] > 0 => c.pool[p] /\ a \in Address /\ c.position[a] = "funded"

LandingsShow ==
  \A r \in Request :
    /\ ShownBy(chain, Desc[r].project, Desc[r].position, landed[r])
    /\ landed[r]["remove-liquidity"] = 0
    /\ Opened(r) => Adds(r)

Preparing == {"caps", "simulate", "signed", "sent", "confirmed"}

(* A call that could still add liquidity has not added it, or cannot get   *)
(* past the initialization that precedes it.                               *)
PlanFits(label, flying, todo, r) ==
  /\ flying = "landed" => label \in {"sent", "confirmed"}
  /\ label = "confirmed" => flying = "landed"
  /\ label \in Preparing =>
       /\ todo \in Planned(r)
       /\ Opened(r) => \/ todo = Whole /\ flying # "landed"
                       \/ todo = Adding /\ flying = "landed"

Fits(e) == PlanFits(pc[e], flight[e], plan[e], req[e])

Settling == {"sent", "confirmed", "unknown", "verify", "done"}

(* A compound that landed has a row, or the call that sent it still runs.  *)
CompoundsRecorded ==
  \A r \in Request : Compounds(r) /\ Opened(r) =>
    intent[r] # "NONE" \/ \E e \in Executor : req[e] = r /\ pc[e] \in Settling

OnceInv ==
  /\ AtMostOnce
  /\ orphan = {}
  /\ LandingsShow
  /\ \A e \in Executor : Fits(e)
  /\ CompoundsRecorded

LEMMA PlanParts ==
  /\ Head(Whole) = "initialize-position" /\ Tail(Whole) = Adding /\ Len(Whole) = 2
  /\ Head(Adding) = "add-liquidity" /\ Len(Adding) = 1 /\ Whole # Adding
  /\ Len(Sweeping) = 1 /\ Head(Sweeping) = "founder-sweep"
  /\ Len(<<"create-pool">>) = 1 /\ Head(<<"create-pool">>) = "create-pool"
  /\ Len(<<"claim-rewards">>) = 1 /\ Head(<<"claim-rewards">>) = "claim-rewards"
BY DEF Whole, Adding, Sweeping

LEMMA BuildIsPlanned ==
  ASSUME NothingRemoves, NEW r \in Request, NEW completed
  PROVE  /\ Build(r, completed) \in Planned(r)
         /\ Adds(r) /\ ~Compounds(r) => Recipe(r) = Whole
<1>1. <<"initialize-position">> \o Adding = Whole
  <2> DEFINE joined == <<"initialize-position">> \o Adding
  <2>1. <<"initialize-position">> \in Seq(Phase) /\ Adding \in Seq(Phase) /\ Whole \in Seq(Phase)
    <3>1. \A x, y \in Phase : <<x>> \in Seq(Phase) /\ <<x, y>> \in Seq(Phase)
      OBVIOUS
    <3>2. {"initialize-position", "add-liquidity"} \subseteq Phase
      BY DEF Phase
    <3> QED BY <3>1, <3>2, Zenon DEF Adding, Whole
  <2>2. Len(<<"initialize-position">>) = 1 /\ Len(Adding) = 1 /\ Len(Whole) = 2
        /\ Adding[1] = "add-liquidity" /\ Whole[1] = "initialize-position"
        /\ Whole[2] = "add-liquidity"
    BY DEF Adding, Whole
  <2>3. joined \in Seq(Phase) /\ Len(joined) = 2 /\ joined[1] = "initialize-position"
        /\ joined[2] = "add-liquidity"
    BY <2>1, <2>2, ConcatProperties
  <2> HIDE DEF joined
  <2>4. \A i \in 1..2 : joined[i] = Whole[i]
    BY <2>2, <2>3
  <2> QED BY <2>1, <2>2, <2>3, <2>4, SeqEqual DEF joined
<1>2. Opening(completed) \in {Whole, Adding} /\ Opening({}) = Whole
  BY <1>1 DEF Opening
<1>3. Desc[r].action \in Action
  BY DescAssumption DEF RequestDesc
<1>4. Build(r, completed) \in Planned(r)
  <2>1. CASE Desc[r].sweep
    <3>1. Desc[r].action = "WITHDRAW"
      BY <2>1 DEF NothingRemoves
    <3> QED BY <2>1, <3>1 DEF Build, Planned
  <2>2. CASE ~Desc[r].sweep /\ Desc[r].action = "CREATE_POOL"
    BY <2>2 DEF Build, Planned
  <2>3. CASE ~Desc[r].sweep /\ Desc[r].action = "OPEN_POSITION"
    BY <1>2, <2>3 DEF Build, Planned
  <2>4. CASE ~Desc[r].sweep /\ Desc[r].action = "COMPOUND"
    BY <2>4 DEF Build, Planned
  <2>5. CASE ~Desc[r].sweep /\ Desc[r].action = "FEE_SETTLEMENT"
    <3>1. Build(r, completed) = <<"claim-rewards">>
      BY <2>5 DEF Build
    <3>2. Planned(r) = {<<"claim-rewards">>}
      BY <2>5 DEF Planned
    <3> QED BY <3>1, <3>2
  <2> QED BY <1>3, <2>1, <2>2, <2>3, <2>4, <2>5 DEF NothingRemoves, Action
<1>5. Adds(r) /\ ~Compounds(r) => Recipe(r) = Whole
  BY <1>2 DEF Adds, Compounds, Recipe, Build
<1> QED BY <1>4, <1>5

LEMMA PlanIsPlanned ==
  ASSUME NothingRemoves, NEW r \in Request, NEW verdict
  PROVE  PlanFor(r, verdict) \in Planned(r)
BY BuildIsPlanned DEF PlanFor, Recipe

(* What has been added is seen, if anything is.                            *)
LEMMA OpenedIsSeen ==
  ASSUME LandingsShow, NEW r \in Request, Opened(r), NEW verdict \in Read(r)
  PROVE  verdict \in {"APPLIED", "UNKNOWN"}
<1>1. /\ Adds(r) /\ chain.pool[Desc[r].project] /\ Desc[r].position \in Address
      /\ chain.position[Desc[r].position] = "funded"
  BY DEF LandingsShow, ShownBy, Opened
<1>2. PositionSeen(chain, r) = "funded"
  BY <1>1 DEF PositionSeen, Target, Adds
<1>3. ChainVerdict(chain, r) = "APPLIED"
  BY <1>1, <1>2 DEF ChainVerdict, VerdictOf, Adds
<1> QED BY <1>3 DEF Read

OthersFly(e) ==
  \A f \in Executor : f # e =>
    pc'[f] = pc[f] /\ req'[f] = req[f] /\ plan'[f] = plan[f] /\ flight'[f] = flight[f]

NewlyFits(e) == PlanFits(pc'[e], flight'[e], plan'[e], req'[e])

LEMMA FitsStep ==
  ASSUME Undisturbed, RowInv, OnceInv, NEW e \in Executor, Step(e), ~Commit(e)
  PROVE  /\ UNCHANGED <<orphan, intent>> /\ OthersFly(e) /\ NewlyFits(e)
         /\ pc[e] \in Settling /\ Compounds(req[e]) /\ Opened(req[e]) =>
              pc'[e] \in Settling /\ req' = req
<1> USE DEF At, Goto, SetStatus, dbVars, rowVars, chainVars, OthersFly, NewlyFits, Settling,
            Preparing
<1>1. /\ pc \in [Executor -> OutsideLock \cup InLock]
      /\ req \in [Executor -> Request \cup {NoRequest}]
      /\ plan \in [Executor -> Seq(Phase)]
      /\ flight \in [Executor -> {"none", "flying", "landed"}]
      /\ pc[e] # "idle" => req[e] \in Request
      /\ NothingRemoves /\ "late" \notin Events
  BY DEF RowInv, WellFormed, TypeOK, CallHasRequest, Undisturbed
<1>2. PlanFits(pc[e], flight[e], plan[e], req[e]) /\ LandingsShow
  BY DEF OnceInv, Fits
<1>3. CASE AcquireLock(e) \/ LockContention(e) \/ Refuse(e) \/ RejectByPolicy(e)
           \/ AlreadyReconciled(e) \/ FindIntent(e) \/ CheckCaps(e)
  BY <1>1, <1>2, <1>3 DEF AcquireLock, LockContention, Refuse, RejectByPolicy,
     AlreadyReconciled, FindIntent, CheckCaps, PlanFits
<1>4. CASE CreateIntent(e)
  <2>1. /\ pc[e] = "locked" /\ req[e] \in Request /\ intent[req[e]] = "NONE"
        /\ plan' = [plan EXCEPT ![e] = Recipe(req[e])] /\ pc' = [pc EXCEPT ![e] = "caps"]
        /\ UNCHANGED <<orphan, intent, req, flight>>
    BY <1>1, <1>4 DEF CreateIntent
  <2>2. plan'[e] = Recipe(req[e]) /\ Recipe(req[e]) \in Planned(req[e])
    BY <1>1, <2>1, BuildIsPlanned DEF Recipe
  <2>3. flight[e] # "landed"
    BY <1>2, <2>1 DEF PlanFits
  <2>4. Opened(req[e]) => Recipe(req[e]) = Whole
    <3> SUFFICES ASSUME Opened(req[e]) PROVE Recipe(req[e]) = Whole
      OBVIOUS
    <3>1. Adds(req[e])
      BY <1>2, <2>1 DEF LandingsShow
    <3>2. CASE Compounds(req[e])
      <4>1. PICK f \in Executor : req[f] = req[e] /\ pc[f] \in Settling
        BY <2>1, <3>2 DEF OnceInv, CompoundsRecorded
      <4>2. f # e /\ pc[f] \in InLock /\ pc[e] \in InLock
        BY <2>1, <4>1 DEF InLock
      <4> QED BY <4>1, <4>2, Alone DEF RowInv
    <3> QED BY <1>1, <2>1, <3>1, <3>2, BuildIsPlanned
  <2> QED BY <1>1, <2>1, <2>2, <2>3, <2>4 DEF PlanFits
<1>5. CASE Recover(e)
  <2>1. /\ pc[e] = "recover" /\ req[e] \in Request
        /\ UNCHANGED <<orphan, intent, req, flight>>
    BY <1>1, <1>5 DEF Recover
  <2>2. CASE Goto(e, "done") /\ UNCHANGED plan
    BY <1>1, <1>2, <2>1, <2>2 DEF PlanFits
  <2>3. CASE \E verdict \in Read(req[e]) : /\ verdict \in {"NOT_APPLIED", "PARTIAL"}
                                           /\ plan' = [plan EXCEPT ![e] = PlanFor(req[e], verdict)]
                                           /\ Goto(e, "caps")
    <3>1. ~Opened(req[e]) /\ plan'[e] \in Planned(req[e])
      BY <1>1, <1>2, <2>1, <2>3, OpenedIsSeen, PlanIsPlanned
    <3> QED BY <1>1, <1>2, <2>1, <2>3, <3>1 DEF PlanFits
  <2> QED BY <1>5, <2>2, <2>3 DEF Recover
<1>6. CASE SimulationFails(e) \/ SimulateAndSign(e) \/ Send(e) \/ SendFails(e)
  <2>1. /\ pc[e] \in {"simulate", "signed"} /\ UNCHANGED <<intent, req, plan>>
        /\ pc' \in {[pc EXCEPT ![e] = "throwing"], [pc EXCEPT ![e] = "signed"],
                    [pc EXCEPT ![e] = "sent"]}
        /\ \/ UNCHANGED flight
           \/ flight' = [flight EXCEPT ![e] = "flying"] /\ pc' = [pc EXCEPT ![e] = "sent"]
    BY <1>1, <1>6 DEF SimulationFails, SimulateAndSign, Send, SendFails
  <2>2. UNCHANGED orphan
    BY <1>1, <1>6 DEF SimulationFails, SimulateAndSign, Send, SendFails, AbandonFlight
  <2>3. ~(Compounds(req[e]) /\ Opened(req[e]) /\ pc[e] \in Settling)
    BY <2>1
  <2> QED BY <1>1, <1>2, <2>1, <2>2, <2>3 DEF PlanFits
<1>7. CASE Confirmed(e)
  BY <1>1, <1>2, <1>7 DEF Confirmed, PlanFits
<1>8. CASE Finalized(e)
  <2>1. /\ pc[e] = "confirmed" /\ req[e] \in Request /\ UNCHANGED <<orphan, intent, req>>
        /\ plan' = [plan EXCEPT ![e] = Tail(plan[e])]
        /\ flight' = [flight EXCEPT ![e] = "none"]
        /\ pc' = [pc EXCEPT ![e] = IF Len(plan[e]) = 1 THEN "verify" ELSE "simulate"]
    BY <1>1, <1>8 DEF Finalized
  <2>2. plan[e] \in Planned(req[e]) /\ flight[e] = "landed"
        /\ (Opened(req[e]) => plan[e] = Adding)
    BY <1>2, <2>1 DEF PlanFits
  <2>3. CASE Len(plan[e]) = 1
    BY <1>1, <2>1, <2>3 DEF PlanFits
  <2>4. CASE Len(plan[e]) # 1
    <3>1. plan[e] = Whole /\ Adding \in Planned(req[e])
      BY <2>2, <2>4, PlanParts DEF Planned
    <3>2. plan'[e] = Adding /\ ~Opened(req[e]) /\ pc'[e] = "simulate" /\ flight'[e] = "none"
      BY <1>1, <2>1, <2>2, <2>4, <3>1, PlanParts
    <3>3. ~Compounds(req[e])
      BY <2>2, <3>1, PlanParts DEF Planned, Compounds
    <3> QED BY <1>1, <2>1, <3>1, <3>2, <3>3 DEF PlanFits
  <2> QED BY <2>3, <2>4
<1>9. CASE ConfirmationFails(e) \/ Verify(e) \/ ReconcileApplied(e)
  BY <1>1, <1>2, <1>9 DEF ConfirmationFails, Verify, ReconcileApplied, AbandonFlight, PlanFits
<1>10. CASE ReconcileNotApplied(e)
  <2>1. /\ pc[e] = "unknown" /\ req[e] \in Request
        /\ UNCHANGED <<orphan, intent, req, flight>>
    BY <1>1, <1>10 DEF ReconcileNotApplied
  <2>2. CASE Goto(e, "done") /\ UNCHANGED plan
    BY <1>1, <1>2, <2>1, <2>2 DEF PlanFits
  <2>3. CASE \E verdict \in Read(req[e]) : /\ verdict \in {"NOT_APPLIED", "PARTIAL"}
                                           /\ plan' = [plan EXCEPT ![e] = PlanFor(req[e], verdict)]
                                           /\ Goto(e, "simulate")
    <3>1. ~Opened(req[e]) /\ plan'[e] \in Planned(req[e])
      BY <1>1, <1>2, <2>1, <2>3, OpenedIsSeen, PlanIsPlanned
    <3> QED BY <1>1, <1>2, <2>1, <2>3, <3>1 DEF PlanFits
  <2> QED BY <1>10, <2>2, <2>3 DEF ReconcileNotApplied, MayRetry
<1>11. CASE Reject(e)
  BY <1>1, <1>11 DEF Reject, Leave, PlanFits
<1> QED
  BY <1>3, <1>4, <1>5, <1>6, <1>7, <1>8, <1>9, <1>10, <1>11, Zenon DEF Step

(* The transactions that can land for a request, on an account it names.   *)
Lands(r, phase) ==
  /\ phase \in Phase \ {"remove-liquidity"}
  /\ phase \in {"initialize-position", "add-liquidity"} =>
       Adds(r) /\ Target(r, phase) = Desc[r].position
  /\ phase = "add-liquidity" => ~Opened(r)

LEMMA HeadLands ==
  ASSUME NothingRemoves, NEW r \in Request, NEW todo \in Planned(r),
         Opened(r) => todo = Whole
  PROVE  Lands(r, Head(todo))
<1>1. \A phase : Adds(r) => Target(r, phase) = Desc[r].position
  BY DEF Adds, Target
<1>2. /\ Head(todo) \in {"initialize-position", "add-liquidity"} => Adds(r)
      /\ Head(todo) \in Phase \ {"remove-liquidity"}
  BY PlanParts DEF Planned, Adds, Phase
<1>3. Head(todo) = "add-liquidity" => ~Opened(r)
  BY PlanParts
<1> QED BY <1>1, <1>2, <1>3 DEF Lands

(* What a transaction that lands finds, and what it leaves.                *)
LEMMA LandingEffect ==
  ASSUME WellFormed, NEW r \in Request, NEW phase, Lands(r, phase), TakesEffect(r, phase),
         NEW p, NEW a, p = Desc[r].project, a = Desc[r].position
  PROVE  /\ chain \in ChainState /\ p \in Project
         /\ phase = "create-pool" =>
              ~chain.pool[p] /\ chain' = [chain EXCEPT !.pool[p] = TRUE]
         /\ phase = "founder-sweep" =>
              chain.wallet[p] /\ chain' = [chain EXCEPT !.wallet[p] = FALSE]
         /\ phase = "initialize-position" =>
              /\ a \in Address /\ chain.position[a] = "absent"
              /\ chain' = [chain EXCEPT !.position[a] = "empty"]
         /\ phase = "add-liquidity" =>
              /\ chain.pool[p] /\ a \in Address
              /\ chain' = [chain EXCEPT !.position[a] = "funded"]
         /\ phase = "claim-rewards" => chain' = chain
<1>1. chain \in ChainState /\ p \in Project
  BY DescAssumption DEF WellFormed, TypeOK, RequestDesc
<1>2. TxValid(chain, r, phase) /\ chain' = TxEffect(chain, r, phase)
  BY DEF TakesEffect
<1>3. CASE phase = "create-pool"
  BY <1>1, <1>2, <1>3 DEF TxValid, TxEffect
<1>4. CASE phase = "founder-sweep"
  BY <1>1, <1>2, <1>4 DEF TxValid, TxEffect
<1>5. CASE phase = "initialize-position"
  BY <1>1, <1>2, <1>5 DEF TxValid, TxEffect, Lands
<1>6. CASE phase = "add-liquidity"
  BY <1>1, <1>2, <1>6 DEF TxValid, TxEffect, Lands
<1>7. CASE phase = "claim-rewards"
  BY <1>1, <1>2, <1>7 DEF TxValid, TxEffect
<1> QED BY <1>1, <1>3, <1>4, <1>5, <1>6, <1>7 DEF Lands, Phase

(* Nothing that has been shown is hidden again.                            *)
LEMMA StaysShown ==
  ASSUME WellFormed, NEW r \in Request, NEW phase, Lands(r, phase), TakesEffect(r, phase),
         NEW q \in Request, NEW times, ShownBy(chain, Desc[q].project, Desc[q].position, times)
  PROVE  ShownBy(chain', Desc[q].project, Desc[q].position, times)
<1>1. Desc[q].project \in Project
  BY DescAssumption DEF RequestDesc
<1> QED BY <1>1, LandingEffect DEF ShownBy, ChainState, Lands, Phase

LEMMA LandingStep ==
  ASSUME NothingRemoves, WellFormed, AtMostOnce, LandingsShow, NEW r \in Request, NEW phase,
         Lands(r, phase), TakesEffect(r, phase)
  PROVE  /\ AtMostOnce' /\ LandingsShow'
         /\ \A q \in Request : landed'[q]["add-liquidity"] > 0 <=>
                               Opened(q) \/ (q = r /\ phase = "add-liquidity")
<1>1. /\ landed \in [Request -> [Phase -> 0..2]] /\ phase \in Phase
      /\ landed' = [landed EXCEPT ![r][phase] = IF @ < 2 THEN @ + 1 ELSE 2]
      /\ {"create-pool", "founder-sweep", "initialize-position", "add-liquidity",
          "remove-liquidity"} \subseteq Phase
  BY DEF WellFormed, TypeOK, TakesEffect, Lands, Phase
<1>2. \A q \in Request, s \in Phase : landed[q][s] \in 0..2
  BY <1>1
<1>3. landed'[r][phase] = IF landed[r][phase] < 2 THEN landed[r][phase] + 1 ELSE 2
  BY <1>1
<1>4. \A q \in Request, s \in Phase : q # r \/ s # phase => landed'[q][s] = landed[q][s]
  BY <1>1
<1>5. ShownBy(chain, Desc[r].project, Desc[r].position, landed[r])
  BY DEF LandingsShow
<1>6. phase # "claim-rewards" => landed[r][phase] = 0
  <2>1. ~(landed[r][phase] > 0) \/ phase = "claim-rewards"
    BY <1>5, LandingEffect DEF ShownBy, Lands, Phase, Opened
  <2>2. landed[r][phase] \in 0..2
    BY <1>1
  <2> QED BY <2>1, <2>2
<1>7. AtMostOnce'
  <2> SUFFICES ASSUME NEW q \in Request, NEW s \in Phase \ {"claim-rewards"}
               PROVE  landed'[q][s] <= 1
    BY DEF AtMostOnce
  <2>1. CASE q = r /\ s = phase
    BY <1>3, <1>6, <2>1
  <2>2. CASE ~(q = r /\ s = phase)
    BY <1>4, <2>2 DEF AtMostOnce
  <2> QED BY <2>1, <2>2
<1>8. ASSUME NEW q \in Request
      PROVE  ShownBy(chain', Desc[q].project, Desc[q].position, landed'[q])
  <2>1. ShownBy(chain', Desc[q].project, Desc[q].position, landed[q])
    BY StaysShown DEF LandingsShow
  <2>2. CASE q # r
    <3>1. \A s \in Phase : landed'[q][s] = landed[q][s]
      BY <1>4, <2>2
    <3> QED BY <1>1, <2>1, <3>1 DEF ShownBy
  <2>3. CASE q = r
    <3>1. \A s \in Phase : s # phase => landed'[q][s] = landed[q][s]
      BY <1>4, <2>3
    <3>2. /\ phase = "create-pool" => chain'.pool[Desc[r].project]
          /\ phase = "founder-sweep" => ~chain'.wallet[Desc[r].project]
          /\ phase = "initialize-position" =>
               /\ Desc[r].position \in Address
               /\ chain'.position[Desc[r].position] = "empty"
          /\ phase = "add-liquidity" =>
               /\ chain'.pool[Desc[r].project] /\ Desc[r].position \in Address
               /\ chain'.position[Desc[r].position] = "funded"
      BY LandingEffect DEF ChainState
    <3> QED BY <1>1, <2>1, <2>3, <3>1, <3>2 DEF ShownBy
  <2> QED BY <2>2, <2>3
<1>9. \A q \in Request : landed'[q]["add-liquidity"] > 0 <=>
                         Opened(q) \/ (q = r /\ phase = "add-liquidity")
  <2> TAKE q \in Request
  <2>1. CASE q = r /\ phase = "add-liquidity"
    <3>1. landed[r][phase] \in 0..2
      BY <1>1
    <3>2. landed'[r][phase] > 0
      BY <1>3, <3>1
    <3> QED BY <2>1, <3>2
  <2>2. CASE ~(q = r /\ phase = "add-liquidity")
    BY <1>1, <1>4, <2>2 DEF Opened
  <2> QED BY <2>1, <2>2
<1>10. LandingsShow'
  <2> SUFFICES ASSUME NEW q \in Request
               PROVE  /\ landed'[q]["remove-liquidity"] = 0
                      /\ landed'[q]["add-liquidity"] > 0 => Adds(q)
    BY <1>8 DEF LandingsShow, Opened, Adds
  <2>1. landed'[q]["remove-liquidity"] = landed[q]["remove-liquidity"]
    BY <1>1, <1>4 DEF Lands
  <2> QED BY <1>9, <2>1 DEF LandingsShow, Lands
<1> QED BY <1>7, <1>9, <1>10

LEMMA OnceStep == Undisturbed /\ RowInv /\ OnceInv /\ [Next]_vars => OnceInv'
<1> SUFFICES ASSUME Undisturbed, RowInv, OnceInv, [Next]_vars
             PROVE  OnceInv'
  OBVIOUS
<1>1. /\ WellFormed /\ LockAgrees /\ NothingRemoves /\ "late" \notin Events
      /\ pc \in [Executor -> OutsideLock \cup InLock]
      /\ \A e \in Executor : pc[e] # "idle" => req[e] \in Request
      /\ \A e \in Executor : PlanFits(pc[e], flight[e], plan[e], req[e])
  BY DEF RowInv, WellFormed, TypeOK, CallHasRequest, Undisturbed, OnceInv, Fits
<1>2. ASSUME UNCHANGED <<chain, landed, orphan>>, NEW e \in Executor, OthersFly(e),
             NewlyFits(e), CompoundsRecorded'
      PROVE  OnceInv'
  <2>1. AtMostOnce' /\ orphan' = {} /\ LandingsShow'
    BY <1>2 DEF OnceInv, AtMostOnce, LandingsShow, Opened
  <2>2. \A f \in Executor : PlanFits(pc'[f], flight'[f], plan'[f], req'[f])
    BY <1>1, <1>2 DEF OthersFly, NewlyFits
  <2>3. \A f \in Executor : Fits(f)'
    BY <1>2, <2>2 DEF Fits, PlanFits, Opened
  <2> QED BY <1>2, <2>1, <2>3 DEF OnceInv
<1>3. ASSUME NEW e \in Executor, Step(e), ~Commit(e)
      PROVE  OnceInv'
  <2>1. /\ UNCHANGED <<orphan, intent>> /\ OthersFly(e) /\ NewlyFits(e)
        /\ pc[e] \in Settling /\ Compounds(req[e]) /\ Opened(req[e]) =>
             pc'[e] \in Settling /\ req' = req
    BY <1>3, FitsStep
  <2>2. UNCHANGED <<chain, landed>>
    BY <1>1, <1>3, StepIsOwn
  <2>3. CompoundsRecorded'
    <3> SUFFICES ASSUME NEW r \in Request, Compounds(r), Opened(r), intent[r] = "NONE"
                 PROVE  \E f \in Executor : req'[f] = r /\ pc'[f] \in Settling
      BY <2>1, <2>2 DEF CompoundsRecorded, Opened
    <3>1. PICK f \in Executor : req[f] = r /\ pc[f] \in Settling
      BY DEF OnceInv, CompoundsRecorded
    <3> QED BY <2>1, <3>1 DEF OthersFly
  <2> QED BY <1>2, <2>1, <2>2, <2>3
<1>4. ASSUME NEW e \in Executor, Commit(e)
      PROVE  OnceInv'
  <2>1. /\ pc[e] = "done" /\ pc'[e] = "idle" /\ req[e] \in Request
        /\ intent' = [intent EXCEPT ![req[e]] = status[e]]
    BY <1>1, <1>4, CommitEffect
  <2>2. /\ UNCHANGED <<chain, landed, orphan>> /\ OthersFly(e) /\ NewlyFits(e)
    BY <1>4 DEF Commit, Leave, Goto, chainVars, OthersFly, NewlyFits, PlanFits, Preparing,
                RowInv, WellFormed, TypeOK
  <2>3. intent'[req[e]] # "NONE" /\ \A r \in Request : r # req[e] => intent'[r] = intent[r]
    BY <2>1 DEF RowInv, WellFormed, TypeOK, DoneIsSettled
  <2>4. CompoundsRecorded'
    <3> SUFFICES ASSUME NEW r \in Request, Compounds(r), Opened(r), intent'[r] = "NONE"
                 PROVE  \E f \in Executor : req'[f] = r /\ pc'[f] \in Settling
      BY <2>2 DEF CompoundsRecorded, Opened
    <3>1. r # req[e] /\ intent[r] = "NONE"
      BY <2>3
    <3>2. PICK f \in Executor : req[f] = r /\ pc[f] \in Settling
      BY <3>1 DEF OnceInv, CompoundsRecorded
    <3> QED BY <2>2, <3>1, <3>2 DEF OthersFly
  <2> QED BY <1>2, <2>2, <2>4
<1>5. ASSUME NEW e \in Executor, NEW r \in Request, Execute(e, r)
      PROVE  OnceInv'
  <2>1. /\ pc[e] = "idle" /\ UNCHANGED <<chain, landed, orphan, intent>> /\ OthersFly(e)
        /\ NewlyFits(e)
    BY <1>1, <1>5 DEF Execute, At, Goto, dbVars, chainVars, OthersFly, NewlyFits, PlanFits,
                      Preparing, RowInv, WellFormed, TypeOK
  <2>2. CompoundsRecorded'
    BY <2>1 DEF OnceInv, CompoundsRecorded, Opened, OthersFly, Settling
  <2> QED BY <1>2, <2>1, <2>2
<1>6. ASSUME NEW e \in Executor, Crash(e)
      PROVE  OnceInv'
  <2>1. /\ "crash" \in Events /\ UNCHANGED <<chain, landed, orphan>> /\ OthersFly(e)
        /\ NewlyFits(e)
    BY <1>1, <1>6 DEF Crash, AbandonFlight, Leave, Goto, OthersFly, NewlyFits, PlanFits,
                      Preparing, RowInv, WellFormed, TypeOK
  <2>2. CompoundsRecorded'
    BY <2>1 DEF Undisturbed, CompoundsRecorded, Compounds
  <2> QED BY <1>2, <2>1, <2>2
<1>7. ASSUME NEW e \in Executor, Land(e)
      PROVE  OnceInv'
  <2>1. /\ pc[e] = "sent" /\ flight[e] = "flying" /\ req[e] \in Request
        /\ TakesEffect(req[e], Head(plan[e]))
        /\ flight' = [flight EXCEPT ![e] = "landed"]
        /\ UNCHANGED <<intent, pc, req, plan, orphan>>
    BY <1>1, <1>7 DEF Land, At, dbVars
  <2>2. plan[e] \in Planned(req[e]) /\ (Opened(req[e]) => plan[e] = Whole)
    BY <1>1, <2>1 DEF PlanFits, Preparing
  <2>3. Lands(req[e], Head(plan[e]))
    BY <1>1, <2>1, <2>2, HeadLands
  <2>4. /\ AtMostOnce' /\ LandingsShow'
        /\ \A q \in Request : landed'[q]["add-liquidity"] > 0 <=>
             Opened(q) \/ (q = req[e] /\ Head(plan[e]) = "add-liquidity")
    BY <1>1, <2>1, <2>3, LandingStep DEF OnceInv
  <2>5. plan[e] = Whole => Head(plan[e]) # "add-liquidity" /\ ~Opened(req[e])
    <3> SUFFICES ASSUME plan[e] = Whole PROVE ~Opened(req[e]) /\ Head(plan[e]) = "initialize-position"
      OBVIOUS
    <3>1. Head(plan[e]) = "initialize-position"
      BY PlanParts
    <3>2. chain.position[Desc[req[e]].position] = "absent"
      BY <1>1, <2>1, <2>3, <3>1, LandingEffect
    <3>3. ~Opened(req[e])
      BY <2>1, <3>2 DEF OnceInv, LandingsShow, ShownBy, Opened
    <3> QED BY <3>1, <3>3
  <2>6. ASSUME NEW f \in Executor
        PROVE  Fits(f)'
    <3>1. CASE f = e
      <4>1. flight'[f] = "landed" /\ pc[f] = "sent"
        BY <2>1, <3>1 DEF RowInv, WellFormed, TypeOK
      <4>2. landed'[req[f]]["add-liquidity"] > 0 => plan[f] = Adding
        BY <2>1, <2>2, <2>4, <2>5, <3>1, PlanParts DEF Planned
      <4> QED BY <2>1, <2>2, <3>1, <4>1, <4>2 DEF Fits, PlanFits, Opened, Preparing, Planned
    <3>2. CASE f # e
      <4>1. flight'[f] = flight[f]
        BY <2>1, <3>2 DEF RowInv, WellFormed, TypeOK
      <4>2. pc[f] \in Preparing => req[f] \in Request /\ req[f] # req[e]
        BY <1>1, <2>1, <3>2, Alone DEF Preparing, InLock
      <4>3. PlanFits(pc[f], flight[f], plan[f], req[f])
        BY <1>1
      <4> QED BY <2>1, <2>4, <4>1, <4>2, <4>3 DEF Fits, PlanFits, Opened, Planned
    <3> QED BY <3>1, <3>2
  <2>7. CompoundsRecorded'
    <3> SUFFICES ASSUME NEW r \in Request, Compounds(r), landed'[r]["add-liquidity"] > 0,
                        intent[r] = "NONE"
                 PROVE  \E f \in Executor : req[f] = r /\ pc[f] \in Settling
      BY <2>1 DEF CompoundsRecorded, Opened, Compounds
    <3>1. CASE r = req[e]
      BY <2>1, <3>1 DEF Settling
    <3>2. CASE Opened(r)
      BY <3>2 DEF OnceInv, CompoundsRecorded
    <3> QED BY <2>4, <3>1, <3>2
  <2>8. orphan' = {}
    BY <2>1 DEF OnceInv
  <2> QED BY <2>4, <2>6, <2>7, <2>8 DEF OnceInv
<1>8. ASSUME ToggleKillSwitch \/ (\E r \in Request : AgeOut(r)) \/ UNCHANGED vars
      PROVE  OnceInv'
  <2>1. UNCHANGED <<intent, pc, req, plan, flight, chain, landed, orphan>>
    BY <1>8 DEF ToggleKillSwitch, AgeOut, vars, dbVars, chainVars
  <2> QED BY <2>1 DEF OnceInv, AtMostOnce, LandingsShow, Fits, PlanFits, CompoundsRecorded, Opened
<1>9. orphan = {}
  BY DEF OnceInv
<1> QED
  BY <1>3, <1>4, <1>5, <1>6, <1>7, <1>8, <1>9, Zenon DEF Next, Environment

(* The money of a request moves once, whatever the failures, retries and   *)
(* repeated calls, where no transaction lands after it was given up, no    *)
(* request takes liquidity out again and no crash forgets a compound       *)
(* (reconcileUnknown's look at the chain before it sends again).           *)
THEOREM MoneyMovesOnce ==
  ASSUME Undisturbed
  PROVE  Spec => []AtMostOnce
<1>1. Init => OnceInv
  <2> SUFFICES ASSUME Init PROVE OnceInv
    OBVIOUS
  <2>1. \A r \in Request, phase \in Phase : landed[r][phase] = 0
    BY DEF Init
  <2>2. AtMostOnce /\ LandingsShow /\ CompoundsRecorded
    BY <2>1 DEF AtMostOnce, LandingsShow, ShownBy, CompoundsRecorded, Opened, Phase
  <2>3. \A e \in Executor : Fits(e)
    BY DEF Init, Fits, PlanFits, Preparing
  <2> QED BY <2>2, <2>3 DEF Init, OnceInv
<1>2. OnceInv => AtMostOnce
  BY DEF OnceInv
<1>3. RowInv /\ OnceInv /\ [Next]_vars => OnceInv'
  BY OnceStep
<1> QED
  BY <1>1, <1>2, <1>3, RowInvInit, RowInvStep, PTL DEF Spec

=============================================================================
