-------------------------- MODULE MCFounderService --------------------------
(***************************************************************************)
(* FounderService for TLC: two of each of its actors, and the transactions *)
(* that its pollers find.                                                  *)
(***************************************************************************)
EXTENDS FounderService, MCFounderBot, MCPlanning

CONSTANTS wallet1, wallet2

(* A founder funds the first wallet, then moves funds between both; other  *)
(* accounts change as well.  SharedDeposit pays SOL to both at once.       *)
Balance(pre, post) == [pre |-> pre, post |-> post]

Held(owner, pre, post) == [owner |-> owner, pre |-> pre, post |-> post]

Chain ==
  <<[lamports |-> wallet1 :> Balance(0, 2), tokens |-> <<>>],
    [lamports |-> wallet1 :> Balance(2, 3) @@ wallet2 :> Balance(5, 4),
     tokens |-> 0 :> Held(wallet1, 0, 7) @@ 1 :> Held(wallet2, 0, 4)
                  @@ 3 :> Held(None, 0, 1)],
    [lamports |-> wallet1 :> Balance(3, 1), tokens |-> 2 :> Held(wallet1, 4, 2)]>>

SharedDeposit ==
  <<[lamports |-> wallet1 :> Balance(0, 2), tokens |-> <<>>],
    [lamports |-> wallet1 :> Balance(2, 3) @@ wallet2 :> Balance(0, 3), tokens |-> <<>>]>>

=============================================================================
