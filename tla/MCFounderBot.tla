---------------------------- MODULE MCFounderBot ----------------------------
(***************************************************************************)
(* Instances of FounderBot for TLC: two running pools of one name.         *)
(***************************************************************************)
EXTENDS FounderBot

CONSTANTS p1, p2, p3, thePool, other, small, large

(* The running pools are called the same, as pools of one token pair are.  *)
MCName == [p \in Pool |-> IF p = p3 THEN other ELSE thePool]

MCInitialRuns ==
  <<[pool |-> p1, mode |-> "SHADOW", size |-> small, live |-> TRUE, card |-> 0],
    [pool |-> p2, mode |-> "SHADOW", size |-> small, live |-> TRUE, card |-> 0]>>

(* The founder's own failures, and another caller of the service.          *)
MCScenarios == {{"net"}, {"net", "crash"}, {"db", "crash"}, {"ops"}}

MCMaxUpdates ==
  [s \in MCScenarios |-> CASE s = {"net"} -> 5 [] s = {"net", "crash"} -> 3 [] OTHER -> 4]

(* What the founder types                                                  *)
MCTyped ==
  [cmd : {"add"}, arg : {p1, p3}, card : {0}]
    \cup [cmd : {"text"}, arg : Size \cup {"figures"}, card : {0}]
    \cup [cmd : {"remove"}, arg : {p1, p2}, card : {0}]
    \cup [cmd : {"resume"}, arg : {p1}, card : {0}]
    \cup [cmd : {"pause"}, arg : {thePool, NoRef}, card : {0}]
    \cup [cmd : {"launchplan", "drop"}, arg : {NoRef}, card : {0}]

=============================================================================
