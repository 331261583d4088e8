------------------------- MODULE MCExecutionPipeline -------------------------
(***************************************************************************)
(* Scenarios for TLC: the catalogue of requests a run may draw from (the   *)
(* CONSTANT Request names those it does), and the chain it starts on.      *)
(***************************************************************************)
EXTENDS ExecutionPipeline, TLC

MCSymmetry == Permutations(Executor)

MCBase == [project |-> "p1", action |-> "COMPOUND", notional |-> 2, position |-> NoAddress,
           replacement |-> NoAddress, sweep |-> FALSE, role |-> "NONE",
           initiatedBy |-> "NONE"]

MCCatalogue ==
  \* the permanent initial position, its management, and the sweep of the wallet
  ("open"      :> [MCBase EXCEPT !.action = "OPEN_POSITION", !.position = "a1",
                                 !.role = "PERMANENT_INITIAL", !.initiatedBy = "SYSTEM"]) @@
  ("manage"    :> [MCBase EXCEPT !.action = "REBALANCE", !.position = "a1",
                                 !.replacement = "a2", !.initiatedBy = "SYSTEM"]) @@
  ("sweep"     :> [MCBase EXCEPT !.action = "WITHDRAW", !.sweep = TRUE,
                                 !.initiatedBy = "FOUNDER"]) @@
  \* an ordinary position
  ("create"    :> [MCBase EXCEPT !.action = "CREATE_POOL"]) @@
  ("enter"     :> [MCBase EXCEPT !.action = "OPEN_POSITION", !.position = "a1"]) @@
  ("compound"  :> [MCBase EXCEPT !.position = "a1"]) @@
  ("exit"      :> [MCBase EXCEPT !.action = "EXIT", !.position = "a1"]) @@
  \* another project
  ("enterB"    :> [MCBase EXCEPT !.project = "p2", !.action = "OPEN_POSITION",
                                 !.position = "b1"])

MCDesc == [r \in Request |-> MCCatalogue[r]]

MCNoPool == [pool     |-> [p \in Project |-> FALSE],
             position |-> [a \in Address |-> "absent"],
             wallet   |-> [p \in Project |-> TRUE]]

MCFreshPool == [MCNoPool EXCEPT !.pool = [p \in Project |-> TRUE]]

=============================================================================
