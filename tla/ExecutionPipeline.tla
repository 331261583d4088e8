-------------------------- MODULE ExecutionPipeline --------------------------
(***************************************************************************)
(* The execution pipeline (src/execution/pipeline.ts) over its Postgres    *)
(* store (prismaStore.ts).  Executors call execute(request); the whole of  *)
(* executeLocked runs inside one interactive database transaction that     *)
(* also holds the project's advisory lock, so every row it writes is       *)
(* private to it (status, outcome) until the transaction commits (intent,  *)
(* outcomes), and any rejection of the callback rolls all of them back.    *)
(* Transactions it has sent are on the network whatever the database does. *)
(***************************************************************************)
EXTENDS LiquidityChain, FiniteSetsExt

CONSTANTS
  Executor,             \* concurrent callers of execute()
  NoExecutor, NoRequest,
  ProjectCap,           \* caps.projectRolling24hSol
  GlobalCap,            \* caps.globalRolling24hSol
  TransactionCap,       \* caps.perTransactionSol
  MaxReconcileAttempts,
  InitialChain,         \* the chain before the first call
  Events,               \* what the environment may do in this instance
  MaxOutcomes           \* bound: outcome rows of a STUCK intent that is run again

ASSUME PipelineAssumption ==
  /\ NoExecutor \notin Executor
  /\ NoRequest \notin Request
  /\ {ProjectCap, GlobalCap, TransactionCap} \subseteq Nat \ {0}
  /\ MaxReconcileAttempts \in Nat \ {0}
  /\ InitialChain \in ChainState
  /\ Events \subseteq {"rpc", "late", "crash", "kill", "day"}
  /\ MaxOutcomes \in Nat

VARIABLES
  killSwitch,  \* KeyValue execution.kill_switch
  lock,        \* holder of each project's advisory lock
  intent,      \* committed ExecutionIntent.status, "NONE" without a row
  outcomes,    \* committed ExecutionOutcome rows
  window,      \* intents created less than 24 hours ago
  pc,          \* where each executor stands in execute()
  req,         \* the request it was called with
  plan,        \* phases still to run of what the builder built
  flight,      \* the transaction it is waiting for
  status,      \* its uncommitted intent row
  outcome,     \* its uncommitted outcome rows
  chain,
  orphan,      \* transactions on the network nobody waits for any more
  landed       \* times each phase of a request took effect (2 = or more)

dbVars    == <<intent, outcomes, window>>
chainVars == <<chain, orphan, landed>>
rowVars   == <<status, outcome>>
vars == <<killSwitch, lock, dbVars, pc, req, plan, flight, rowVars, chainVars>>

IntentStatus == {"NONE", "RECORDED", "SIMULATION_FAILED", "SEND_FAILED", "SENT",
                 "CONFIRMED", "FINALIZED", "UNKNOWN", "STUCK", "RECONCILED"}

OutcomeStatus == {"SEND_FAILED", "SENT", "CONFIRMED", "FINALIZED", "UNKNOWN",
                  "NOT_APPLIED"}

(* The outcome rows of an intent: how many attempts there are and the      *)
(* status of the latest, the only row that is still updated.               *)
Outcomes == [attempts : Nat, latest : OutcomeStatus \cup {"NONE"}]

NoOutcomes == [attempts |-> 0, latest |-> "NONE"]

OutsideLock == {"idle", "killed", "trylock", "contended"}

InLock == {"locked", "recover", "caps", "simulate", "signed", "sent", "confirmed",
           "unknown", "verify", "throwing", "done"}

TypeOK ==
  /\ killSwitch \in BOOLEAN
  /\ lock \in [Project -> Executor \cup {NoExecutor}]
  /\ intent \in [Request -> IntentStatus]
  /\ outcomes \in [Request -> Outcomes]
  /\ window \subseteq Request
  /\ pc \in [Executor -> OutsideLock \cup InLock]
  /\ req \in [Executor -> Request \cup {NoRequest}]
  /\ plan \in [Executor -> Seq(Phase)]
  /\ flight \in [Executor -> {"none", "flying", "landed"}]
  /\ status \in [Executor -> IntentStatus]
  /\ outcome \in [Executor -> Outcomes]
  /\ chain \in ChainState
  /\ orphan \subseteq (Request \X Phase)
  /\ landed \in [Request -> [Phase -> 0..2]]

Init ==
  /\ killSwitch = FALSE
  /\ lock = [p \in Project |-> NoExecutor]
  /\ intent = [r \in Request |-> "NONE"]
  /\ outcomes = [r \in Request |-> NoOutcomes]
  /\ window = {}
  /\ pc = [e \in Executor |-> "idle"]
  /\ req = [e \in Executor |-> NoRequest]
  /\ plan = [e \in Executor |-> <<>>]
  /\ flight = [e \in Executor |-> "none"]
  /\ status = [e \in Executor |-> "NONE"]
  /\ outcome = [e \in Executor |-> NoOutcomes]
  /\ chain = InitialChain
  /\ orphan = {}
  /\ landed = [r \in Request |-> [phase \in Phase |-> 0]]

ProjectOf(e) == Desc[req[e]].project

At(e, label) == pc[e] = label

Goto(e, label) == pc' = [pc EXCEPT ![e] = label]

SetStatus(e, s) == status' = [status EXCEPT ![e] = s]

-----------------------------------------------------------------------------
(* execute(): the kill switch, then the project lock *)

(* Bound: a STUCK intent that has MaxOutcomes outcomes is not tried again. *)
MayBeCalled(r) == intent[r] = "RECONCILED" \/ outcomes[r].attempts < MaxOutcomes

(* Mutation of Execute: the kill switch is not consulted.                  *)
ExecuteUnswitched(e, r) ==
  /\ At(e, "idle")
  /\ MayBeCalled(r)
  /\ req' = [req EXCEPT ![e] = r]
  /\ Goto(e, "trylock")
  /\ UNCHANGED <<killSwitch, lock, dbVars, plan, flight, rowVars, chainVars>>

Execute(e, r) ==
  /\ At(e, "idle")
  /\ MayBeCalled(r)
  /\ req' = [req EXCEPT ![e] = r]
  /\ Goto(e, IF killSwitch THEN "killed" ELSE "trylock")
  /\ UNCHANGED <<killSwitch, lock, dbVars, plan, flight, rowVars, chainVars>>

(* Mutation of AcquireLock: the result of the advisory lock is ignored.    *)
AcquireLockIgnored(e) ==
  /\ At(e, "trylock")
  /\ lock' = [lock EXCEPT ![ProjectOf(e)] = e]
  /\ Goto(e, "locked")
  /\ UNCHANGED <<killSwitch, dbVars, req, plan, flight, rowVars, chainVars>>

(* pg_try_advisory_xact_lock never waits.                                  *)
AcquireLock(e) ==
  /\ At(e, "trylock")
  /\ lock[ProjectOf(e)] = NoExecutor
  /\ lock' = [lock EXCEPT ![ProjectOf(e)] = e]
  /\ Goto(e, "locked")
  /\ UNCHANGED <<killSwitch, dbVars, req, plan, flight, rowVars, chainVars>>

LockContention(e) ==
  /\ At(e, "trylock")
  /\ lock[ProjectOf(e)] # NoExecutor
  /\ Goto(e, "contended")
  /\ UNCHANGED <<killSwitch, lock, dbVars, req, plan, flight, rowVars, chainVars>>

(* The alert has been raised and the error reaches the caller.             *)
Refuse(e) ==
  /\ pc[e] \in {"killed", "contended"}
  /\ Goto(e, "idle")
  /\ req' = [req EXCEPT ![e] = NoRequest]
  /\ UNCHANGED <<killSwitch, lock, dbVars, plan, flight, rowVars, chainVars>>

-----------------------------------------------------------------------------
(* Leaving the database transaction *)

(* A transaction that may be on the network outlives the wait for it, or   *)
(* never lands: one sent and not seen to land, or one that is signed and   *)
(* whose send() errs or finishes after the database transaction timed out. *)
Unaccounted(e) == flight[e] = "flying" \/ At(e, "signed")

AbandonFlight(e) ==
  orphan' \in {orphan} \cup
    IF Unaccounted(e) /\ "late" \in Events
    THEN {orphan \cup {<<req[e], Head(plan[e])>>}}
    ELSE {}

Leave(e) ==
  /\ lock' = [lock EXCEPT ![ProjectOf(e)] = NoExecutor]
  /\ Goto(e, "idle")
  /\ req' = [req EXCEPT ![e] = NoRequest]
  /\ plan' = [plan EXCEPT ![e] = <<>>]
  /\ flight' = [flight EXCEPT ![e] = "none"]
  /\ status' = [status EXCEPT ![e] = "NONE"]
  /\ outcome' = [outcome EXCEPT ![e] = NoOutcomes]

Commit(e) ==
  LET r == req[e]
  IN  /\ At(e, "done")
      /\ intent' = [intent EXCEPT ![r] = status[e]]
      /\ outcomes' = [outcomes EXCEPT ![r] = outcome[e]]
      /\ window' = IF intent[r] = "NONE" THEN window \cup {r} ELSE window
      /\ Leave(e)
      /\ UNCHANGED <<killSwitch, chainVars>>

(* Mutation of Reject: the rows were written outside the transaction.      *)
RejectKeepingRows(e) ==
  LET r == req[e]
  IN  /\ At(e, "throwing")
      /\ intent' = [intent EXCEPT ![r] = status[e]]
      /\ outcomes' = [outcomes EXCEPT ![r] = outcome[e]]
      /\ Leave(e)
      /\ UNCHANGED <<killSwitch, window, chainVars>>

(* The callback rejects: $transaction rolls back and releases the lock.    *)
Reject(e) ==
  /\ At(e, "throwing")
  /\ Leave(e)
  /\ UNCHANGED <<killSwitch, dbVars, chainVars>>

(* The process dies, the transaction exceeds its 300 seconds, or a store,  *)
(* build, inspection, preparation or signing call throws.                  *)
Crash(e) ==
  /\ "crash" \in Events
  /\ pc[e] \in InLock
  /\ AbandonFlight(e)
  /\ Leave(e)
  /\ UNCHANGED <<killSwitch, dbVars, chain, landed>>

-----------------------------------------------------------------------------
(* executeLocked *)

(* isPermanentInitialPosition: some recorded OPEN_POSITION intent of the   *)
(* project opened this position in the permanent role.                     *)
RecordedPermanent(r) ==
  \E q \in Request :
    /\ intent[q] # "NONE"
    /\ Desc[q].project = Desc[r].project
    /\ Desc[q].action = "OPEN_POSITION"
    /\ Desc[q].role = "PERMANENT_INITIAL"
    /\ Desc[q].position = Desc[r].position
    /\ Desc[r].position # NoAddress

PositionPolicy(r) ==
  PolicyAllows(r, Desc[r].role = "PERMANENT_INITIAL" \/ RecordedPermanent(r))

RejectByPolicy(e) ==
  /\ At(e, "locked")
  /\ ~PositionPolicy(req[e])
  /\ Goto(e, "throwing")
  /\ UNCHANGED <<killSwitch, lock, dbVars, req, plan, flight, rowVars, chainVars>>

(* Mutation of AlreadyReconciled: a RECONCILED intent is run once more.    *)
ReconciledRunAgain(e) ==
  /\ At(e, "locked")
  /\ PositionPolicy(req[e])
  /\ intent[req[e]] = "RECONCILED"
  /\ SetStatus(e, "RECONCILED")
  /\ outcome' = [outcome EXCEPT ![e] = outcomes[req[e]]]
  /\ Goto(e, "recover")
  /\ UNCHANGED <<killSwitch, lock, dbVars, req, plan, flight, chainVars>>

AlreadyReconciled(e) ==
  /\ At(e, "locked")
  /\ PositionPolicy(req[e])
  /\ intent[req[e]] = "RECONCILED"
  /\ SetStatus(e, "RECONCILED")
  /\ outcome' = [outcome EXCEPT ![e] = outcomes[req[e]]]
  /\ Goto(e, "done")
  /\ UNCHANGED <<killSwitch, lock, dbVars, req, plan, flight, chainVars>>

FindIntent(e) ==
  /\ At(e, "locked")
  /\ PositionPolicy(req[e])
  /\ intent[req[e]] \notin {"NONE", "RECONCILED"}
  /\ SetStatus(e, intent[req[e]])
  /\ outcome' = [outcome EXCEPT ![e] = outcomes[req[e]]]
  /\ Goto(e, "recover")
  /\ UNCHANGED <<killSwitch, lock, dbVars, req, plan, flight, chainVars>>

CreateIntent(e) ==
  /\ At(e, "locked")
  /\ PositionPolicy(req[e])
  /\ intent[req[e]] = "NONE"
  /\ SetStatus(e, "RECORDED")
  /\ plan' = [plan EXCEPT ![e] = Recipe(req[e])]
  /\ Goto(e, "caps")
  /\ UNCHANGED <<killSwitch, lock, dbVars, req, flight, outcome, chainVars>>

(* A chain read: what the chain shows, or UNKNOWN when the RPC fails.      *)
Read(r) == {ChainVerdict(chain, r)} \cup (IF "rpc" \in Events THEN {"UNKNOWN"} ELSE {})

Recover(e) ==
  /\ At(e, "recover")
  /\ \E verdict \in Read(req[e]) :
       \/ /\ verdict = "APPLIED"
          /\ SetStatus(e, "RECONCILED")
          /\ Goto(e, "done")
          /\ UNCHANGED plan
       \/ /\ verdict = "UNKNOWN"
          /\ SetStatus(e, "STUCK")
          /\ Goto(e, "done")
          /\ UNCHANGED plan
       \/ /\ verdict \in {"NOT_APPLIED", "PARTIAL"}
          /\ plan' = [plan EXCEPT ![e] = PlanFor(req[e], verdict)]
          /\ Goto(e, "caps")
          /\ UNCHANGED status
  /\ UNCHANGED <<killSwitch, lock, dbVars, req, flight, outcome, chainVars>>

(* Mutation of CountedStatuses: stuck intents do not count.                *)
CountedWithoutStuck == {"SENT", "CONFIRMED", "FINALIZED", "RECONCILED", "UNKNOWN"}

CountedStatuses == {"SENT", "CONFIRMED", "FINALIZED", "RECONCILED", "UNKNOWN", "STUCK"}

(* rollingNotionalSol over a set of intents: committed rows only.          *)
Counted(requests) == {q \in requests \cap window : intent[q] \in CountedStatuses}

RollingNotional(requests) == MapThenSumSet(LAMBDA q : Desc[q].notional, Counted(requests))

OfProject(p) == {q \in Request : Desc[q].project = p}

WithinCaps(e) ==
  LET r      == req[e]
      others == Request \ {r}
  IN  /\ \A i \in DOMAIN plan[e] : TxNotional(r, plan[e][i]) <= TransactionCap
      /\ RollingNotional(others \cap OfProject(ProjectOf(e))) + Desc[r].notional <= ProjectCap
      /\ RollingNotional(others) + Desc[r].notional <= GlobalCap

CheckCaps(e) ==
  /\ At(e, "caps")
  /\ Goto(e, IF WithinCaps(e) THEN "simulate" ELSE "throwing")
  /\ UNCHANGED <<killSwitch, lock, dbVars, req, plan, flight, rowVars, chainVars>>

-----------------------------------------------------------------------------
(* runBuilt: one transaction after the other *)

SimulationFails(e) ==
  /\ At(e, "simulate")
  /\ "rpc" \in Events \/ ~TxValid(chain, req[e], Head(plan[e]))
  /\ SetStatus(e, "SIMULATION_FAILED")
  /\ Goto(e, "throwing")
  /\ UNCHANGED <<killSwitch, lock, dbVars, req, plan, flight, outcome, chainVars>>

SimulateAndSign(e) ==
  /\ At(e, "simulate")
  /\ TxValid(chain, req[e], Head(plan[e]))
  /\ Goto(e, "signed")
  /\ UNCHANGED <<killSwitch, lock, dbVars, req, plan, flight, rowVars, chainVars>>

(* Mutation of CreateOutcome: every outcome is recorded as the same        *)
(* attempt.                                                                *)
CreateOutcomeUncounted(e, s) == outcome' = [outcome EXCEPT ![e].latest = s]

CreateOutcome(e, s) ==
  outcome' = [outcome EXCEPT ![e] = [attempts |-> @.attempts + 1, latest |-> s]]

UpdateOutcome(e, s) == outcome' = [outcome EXCEPT ![e].latest = s]

Send(e) ==
  /\ At(e, "signed")
  /\ flight' = [flight EXCEPT ![e] = "flying"]
  /\ CreateOutcome(e, "SENT")
  /\ SetStatus(e, "SENT")
  /\ Goto(e, "sent")
  /\ UNCHANGED <<killSwitch, lock, dbVars, req, plan, chainVars>>

(* The call failed, which does not prove the network never got it.         *)
SendFails(e) ==
  /\ At(e, "signed")
  /\ "rpc" \in Events
  /\ CreateOutcome(e, "SEND_FAILED")
  /\ SetStatus(e, "SEND_FAILED")
  /\ AbandonFlight(e)
  /\ Goto(e, "throwing")
  /\ UNCHANGED <<killSwitch, lock, dbVars, req, plan, flight, chain, landed>>

Confirmed(e) ==
  /\ At(e, "sent")
  /\ flight[e] = "landed"
  /\ UpdateOutcome(e, "CONFIRMED")
  /\ SetStatus(e, "CONFIRMED")
  /\ Goto(e, "confirmed")
  /\ UNCHANGED <<killSwitch, lock, dbVars, req, plan, flight, chainVars>>

Finalized(e) ==
  /\ At(e, "confirmed")
  /\ UpdateOutcome(e, "FINALIZED")
  /\ SetStatus(e, "FINALIZED")
  /\ plan' = [plan EXCEPT ![e] = Tail(@)]
  /\ flight' = [flight EXCEPT ![e] = "none"]
  /\ Goto(e, IF Len(plan[e]) = 1 THEN "verify" ELSE "simulate")
  /\ UNCHANGED <<killSwitch, lock, dbVars, req, chainVars>>

(* confirm() throws: the transaction was not seen in time, it failed on    *)
(* chain, or the RPC did.                                                  *)
ConfirmationFails(e) ==
  /\ pc[e] \in {"sent", "confirmed"}
  /\ "rpc" \in Events \/ flight[e] = "flying"
  /\ UpdateOutcome(e, "UNKNOWN")
  /\ SetStatus(e, "UNKNOWN")
  /\ AbandonFlight(e)
  /\ flight' = [flight EXCEPT ![e] = "none"]
  /\ Goto(e, "unknown")
  /\ UNCHANGED <<killSwitch, lock, dbVars, req, plan, chain, landed>>

Verify(e) ==
  /\ At(e, "verify")
  /\ \E verdict \in Read(req[e]) :
       SetStatus(e, IF verdict = "APPLIED" THEN "RECONCILED" ELSE "STUCK")
  /\ Goto(e, "done")
  /\ UNCHANGED <<killSwitch, lock, dbVars, req, plan, flight, outcome, chainVars>>

-----------------------------------------------------------------------------
(* reconcileUnknown: look at the chain before anything is sent again *)

(* Mutations of MayRetry: one retry too many; a blind resend.              *)
MayRetryOneMore(e, verdict) ==
  /\ verdict \in {"NOT_APPLIED", "PARTIAL"}
  /\ outcome[e].attempts <= MaxReconcileAttempts

MayRetryBlindly(e, verdict) == outcome[e].attempts < MaxReconcileAttempts

MayRetry(e, verdict) ==
  /\ verdict \in {"NOT_APPLIED", "PARTIAL"}
  /\ outcome[e].attempts < MaxReconcileAttempts

ReconcileApplied(e) ==
  /\ At(e, "unknown")
  /\ "APPLIED" \in Read(req[e])
  /\ UpdateOutcome(e, "FINALIZED")
  /\ SetStatus(e, "RECONCILED")
  /\ Goto(e, "done")
  /\ UNCHANGED <<killSwitch, lock, dbVars, req, plan, flight, chainVars>>

(* Mutation of ReconcileNotApplied: the verdict itself is written to the   *)
(* outcome row.                                                            *)
ReconcileWritingVerdict(e) ==
  /\ At(e, "unknown")
  /\ \E verdict \in Read(req[e]) \ {"APPLIED"} :
       /\ UpdateOutcome(e, verdict)
       /\ SetStatus(e, "STUCK")
  /\ Goto(e, "done")
  /\ UNCHANGED <<killSwitch, lock, dbVars, req, plan, flight, chainVars>>

ReconcileNotApplied(e) ==
  /\ At(e, "unknown")
  /\ \E verdict \in Read(req[e]) \ {"APPLIED"} :
       /\ UpdateOutcome(e, IF verdict = "NOT_APPLIED" THEN "NOT_APPLIED" ELSE "UNKNOWN")
       /\ \/ /\ MayRetry(e, verdict)
             /\ plan' = [plan EXCEPT ![e] = PlanFor(req[e], verdict)]
             /\ Goto(e, "simulate")
             /\ UNCHANGED status
          \/ /\ ~MayRetry(e, verdict)
             /\ SetStatus(e, "STUCK")
             /\ Goto(e, "done")
             /\ UNCHANGED plan
  /\ UNCHANGED <<killSwitch, lock, dbVars, req, flight, chainVars>>

-----------------------------------------------------------------------------
(* The operator, the calendar and the network (external) *)

ToggleKillSwitch ==
  /\ "kill" \in Events
  /\ killSwitch' = ~killSwitch
  /\ UNCHANGED <<lock, dbVars, pc, req, plan, flight, rowVars, chainVars>>

AgeOut(r) ==
  /\ "day" \in Events
  /\ r \in window
  /\ window' = window \ {r}
  /\ UNCHANGED <<killSwitch, lock, intent, outcomes, pc, req, plan, flight, rowVars,
                 chainVars>>

TakesEffect(r, phase) ==
  /\ TxValid(chain, r, phase)
  /\ chain' = TxEffect(chain, r, phase)
  /\ landed' = [landed EXCEPT ![r][phase] = IF @ < 2 THEN @ + 1 ELSE 2]

Land(e) ==
  /\ At(e, "sent")
  /\ flight[e] = "flying"
  /\ TakesEffect(req[e], Head(plan[e]))
  /\ flight' = [flight EXCEPT ![e] = "landed"]
  /\ UNCHANGED <<killSwitch, lock, dbVars, pc, req, plan, rowVars, orphan>>

LandLate(tx) ==
  /\ tx \in orphan
  /\ TakesEffect(tx[1], tx[2])
  /\ orphan' = orphan \ {tx}
  /\ UNCHANGED <<killSwitch, lock, dbVars, pc, req, plan, flight, rowVars>>

Expire(tx) ==
  /\ tx \in orphan
  /\ orphan' = orphan \ {tx}
  /\ UNCHANGED <<killSwitch, lock, dbVars, pc, req, plan, flight, rowVars, chain, landed>>

-----------------------------------------------------------------------------

Step(e) ==
  \/ AcquireLock(e) \/ LockContention(e) \/ Refuse(e)
  \/ RejectByPolicy(e) \/ AlreadyReconciled(e) \/ FindIntent(e) \/ CreateIntent(e)
  \/ Recover(e) \/ CheckCaps(e)
  \/ SimulationFails(e) \/ SimulateAndSign(e) \/ Send(e) \/ SendFails(e)
  \/ Confirmed(e) \/ Finalized(e) \/ ConfirmationFails(e) \/ Verify(e)
  \/ ReconcileApplied(e) \/ ReconcileNotApplied(e)
  \/ Commit(e) \/ Reject(e)

Environment ==
  \/ ToggleKillSwitch
  \/ \E r \in Request : AgeOut(r)
  \/ \E e \in Executor : Land(e) \/ Crash(e)
  \/ \E tx \in orphan : LandLate(tx) \/ Expire(tx)

Next ==
  \/ \E e \in Executor : Step(e) \/ \E r \in Request : Execute(e, r)
  \/ Environment

Spec == Init /\ [][Next]_vars

(* A call that has started keeps taking its steps: every await of          *)
(* execute() settles, confirmTransaction included (it times out).          *)
FairSpec == Spec /\ \A e \in Executor : WF_vars(Step(e))

-----------------------------------------------------------------------------
(* Correctness *)

(* At any time at most one executor is between taking and releasing the    *)
(* lock of a project: withProjectLock is exclusive whatever the callers,   *)
(* crashes and contention do.                                              *)
OneExecutorPerProject ==
  \A e, f \in Executor :
    e # f /\ pc[e] \in InLock /\ pc[f] \in InLock => ProjectOf(e) # ProjectOf(f)

(* The lock table and the program counters agree: an executor inside       *)
(* executeLocked holds its project's lock, and a held lock has a holder    *)
(* that is inside executeLocked for that project.                          *)
LockAgrees ==
  /\ \A e \in Executor : pc[e] \in InLock => lock[ProjectOf(e)] = e
  /\ \A p \in Project : lock[p] # NoExecutor =>
       pc[lock[p]] \in InLock /\ ProjectOf(lock[p]) = p

(* Another session never sees an intent in mid-flight: whatever fails,     *)
(* every committed intent is settled, so RECORDED, SENT, SEND_FAILED and   *)
(* the other intermediate statuses are never durable.                      *)
SettledRows == \A r \in Request : intent[r] \in {"NONE", "STUCK", "RECONCILED"}

(* The pipeline implements the intent ledger: the advisory locks are its   *)
(* holders and the committed intent rows its ledger.  Every step of the    *)
(* pipeline is a Take, a Drop, a Settle or invisible.                      *)
Ledger == INSTANCE IntentLedger
  WITH holder <- lock, ledger <- intent,
       ProjectOfRequest <- [r \in Request |-> Desc[r].project]

RefinesLedger == Ledger!Spec

(* A settled intent is never unsettled again: execute() returns at once    *)
(* on a RECONCILED intent and no overlapping executor overwrites it.       *)
ReconciledForever ==
  [][\A r \in Request : intent[r] = "RECONCILED" => intent'[r] = "RECONCILED"]_vars

Working == InLock \ {"locked", "throwing", "done"}

(* While an executor prepares, sends or awaits transactions, the position  *)
(* policy still admits its request: no other executor can record the       *)
(* position as permanent behind the check of enforceDurablePositionPolicy. *)
ManagedByPolicy == \A e \in Executor : pc[e] \in Working => PositionPolicy(req[e])

(* The notional of a project's recorded intents of the last 24 hours       *)
(* never exceeds its cap, although the sum is read before the intent that  *)
(* is being checked becomes visible.                                       *)
RecordedNotional(requests) ==
  MapThenSumSet(LAMBDA q : Desc[q].notional,
                {q \in requests \cap window : intent[q] # "NONE"})

ProjectCapHolds == \A p \in Project : RecordedNotional(OfProject(p)) <= ProjectCap

(* Retries within one call are bounded over all transactions of the        *)
(* intent: the last retry starts below maxReconcileAttempts outcomes and   *)
(* sends at most one recipe.                                               *)
BoundedSends ==
  \A e \in Executor : pc[e] \in Working =>
    LET before == outcomes[req[e]].attempts
        base   == IF before > MaxReconcileAttempts - 1 THEN before
                  ELSE MaxReconcileAttempts - 1
    IN  outcome[e].attempts <= base + Len(Recipe(req[e]))

(* The money of a request moves once, however often its outcome is unknown *)
(* and however often it is executed again: no transaction of it takes      *)
(* effect twice, but for a claim, which finds nothing the second time.     *)
AtMostOnce ==
  \A r \in Request, phase \in Phase \ {"claim-rewards"} : landed[r][phase] <= 1

SoleFunder(r) ==
  \A q \in Request \ {r} : Target(q, "add-liquidity") # Target(r, "add-liquidity")

(* A position opening is RECONCILED only if its own add-liquidity          *)
(* transaction took effect, provided no other request funds the position.  *)
ReconciledMeansOpened ==
  \A r \in Request :
    intent[r] = "RECONCILED" /\ Desc[r].action = "OPEN_POSITION" /\ SoleFunder(r)
      => landed[r]["add-liquidity"] > 0

(* Every call returns: retries, alerts and waits come to an end.           *)
EveryCallReturns == \A e \in Executor : pc[e] # "idle" ~> pc[e] = "idle"

(* Once the kill switch stays on, calls in progress drain and from then on *)
(* no executor takes a project lock again.                                 *)
KillSwitchDrains ==
  <>[]killSwitch => <>[](\A e \in Executor : pc[e] \notin InLock)

-----------------------------------------------------------------------------
(* What the documents say of the pipeline and the code does not do *)

(* README.md:28 "durably recorded before sending" and section 9 step 3 of  *)
(* the design, "intent always precedes action": a transaction that took    *)
(* effect and that no call in progress answers for has an intent row.      *)
IntentPrecedesAction ==
  \A r \in Request :
    (\E phase \in Phase : landed[r][phase] > 0) /\ (\A e \in Executor : req[e] # r)
      => intent[r] # "NONE"

(* Section 9 step 6 of the design, "rolling 24-hour cap, per project and   *)
(* global": the recorded notional of all projects stays within GlobalCap.  *)
GlobalCapHolds == RecordedNotional(Request) <= GlobalCap

=============================================================================
