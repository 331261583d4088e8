---------------------------- MODULE IntentLedger ----------------------------
(***************************************************************************)
(* What the execution pipeline promises its callers about the database:    *)
(* each project has at most one holder, and the holder settles at most one *)
(* intent of that project, which becomes STUCK or RECONCILED for everybody *)
(* at the moment the project is let go, and never leaves RECONCILED.       *)
(* It says nothing of how an intent is carried out.                        *)
(***************************************************************************)
CONSTANTS
  Project, Request, Executor,
  NoExecutor,
  ProjectOfRequest    \* the project of each request

VARIABLES
  holder,   \* who works for each project
  ledger    \* the settled state of each intent

Settled == {"STUCK", "RECONCILED"}

Init ==
  /\ holder = [p \in Project |-> NoExecutor]
  /\ ledger = [r \in Request |-> "NONE"]

Take(e, p) ==
  /\ holder[p] = NoExecutor
  /\ holder' = [holder EXCEPT ![p] = e]
  /\ UNCHANGED ledger

(* The work failed or its process died: nothing of it is recorded.         *)
Drop(p) ==
  /\ holder[p] # NoExecutor
  /\ holder' = [holder EXCEPT ![p] = NoExecutor]
  /\ UNCHANGED ledger

Settle(r) ==
  LET p == ProjectOfRequest[r]
  IN  /\ holder[p] # NoExecutor
      /\ holder' = [holder EXCEPT ![p] = NoExecutor]
      /\ \E s \in Settled :
           /\ ledger[r] = "RECONCILED" => s = "RECONCILED"
           /\ ledger' = [ledger EXCEPT ![r] = s]

Next ==
  \/ \E p \in Project : Drop(p) \/ \E e \in Executor : Take(e, p)
  \/ \E r \in Request : Settle(r)

Spec == Init /\ [][Next]_<<holder, ledger>>

=============================================================================
