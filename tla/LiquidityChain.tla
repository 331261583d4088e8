--------------------------- MODULE LiquidityChain ---------------------------
(***************************************************************************)
(* What an execution request asks of the chain and how the pipeline reads  *)
(* the chain back: the transaction recipe of each action (meteoraDlmm.ts,  *)
(* withdrawalSweep.ts), the verdict of the chain state readers             *)
(* (chainState.ts, withdrawalSweep.ts), and, external to the repository,   *)
(* which transaction the pool program accepts and what it changes.         *)
(*                                                                         *)
(* A request is identified by its idempotency key and never changes, so    *)
(* its contents are the constant Desc.                                     *)
(***************************************************************************)
EXTENDS Naturals, Sequences

CONSTANTS
  Project,     \* project wallets
  Address,     \* position accounts
  Request,     \* idempotency keys
  Desc,        \* Desc[r]: the ExecutionRequest sent under key r
  NoAddress    \* the request names no position

Action == {"CREATE_POOL", "OPEN_POSITION", "COMPOUND", "REBALANCE", "EXIT",
           "WITHDRAW", "FEE_SETTLEMENT"}

Phase == {"create-pool", "initialize-position", "add-liquidity",
          "remove-liquidity", "claim-rewards", "founder-sweep"}

(* position is oldPositionAddress for a REBALANCE and positionAddress      *)
(* otherwise; replacement is a REBALANCE's newPositionAddress; role and    *)
(* initiatedBy are the fields of detail the position policy looks at.      *)
RequestDesc ==
  [project     : Project,
   action      : Action,
   notional    : Nat,
   position    : Address \cup {NoAddress},
   replacement : Address \cup {NoAddress},
   sweep       : BOOLEAN,
   role        : {"PERMANENT_INITIAL", "NONE"},
   initiatedBy : {"SYSTEM", "FOUNDER", "NONE"}]

ASSUME DescAssumption ==
  /\ NoAddress \notin Address
  /\ Desc \in [Request -> RequestDesc]

-----------------------------------------------------------------------------
(* Permanent initial liquidity: only opened, or withdrawn by the founder. *)

PolicyAllows(r, permanent) ==
  permanent =>
    /\ Desc[r].initiatedBy \in {"SYSTEM", "FOUNDER"}
    /\ \/ Desc[r].action = "OPEN_POSITION"
       \/ Desc[r].action = "WITHDRAW" /\ Desc[r].initiatedBy = "FOUNDER"

-----------------------------------------------------------------------------
(* Recipes *)

Adding     == <<"add-liquidity">>
Removing   == <<"remove-liquidity">>
Sweeping   == <<"founder-sweep">>

Opening(completed) ==
  IF "initialize-position" \in completed THEN Adding
  ELSE <<"initialize-position">> \o Adding

(* The transactions built for a request, without the completed phases.     *)
Build(r, completed) ==
  CASE Desc[r].sweep                     -> Sweeping
    [] Desc[r].action = "CREATE_POOL"    -> <<"create-pool">>
    [] Desc[r].action = "OPEN_POSITION"  -> Opening(completed)
    [] Desc[r].action = "COMPOUND"       -> Adding
    [] Desc[r].action = "REBALANCE"      -> Removing \o Opening(completed)
    [] Desc[r].action = "FEE_SETTLEMENT" -> <<"claim-rewards">>
    [] OTHER                             -> Removing

Recipe(r) == Build(r, {})

(* buildCompletion leaves out the phases a PARTIAL read reports, and the   *)
(* only phase it ever reports is initialize-position.                      *)
PlanFor(r, verdict) ==
  IF verdict = "PARTIAL" THEN Build(r, {"initialize-position"}) ELSE Recipe(r)

(* The initialize-position transaction carries no notional, every other    *)
(* one the whole notional of the request.                                  *)
TxNotional(r, phase) == IF phase = "initialize-position" THEN 0 ELSE Desc[r].notional

-----------------------------------------------------------------------------
(* The chain (external): pools, position accounts and wallet balances.     *)

ChainState == [pool : [Project -> BOOLEAN],
               position : [Address -> {"absent", "empty", "funded"}],
               wallet : [Project -> BOOLEAN]]

(* The account a transaction of the phase works on: a REBALANCE removes    *)
(* from the old position and opens the replacement.                        *)
Target(r, phase) ==
  IF Desc[r].action = "REBALANCE" /\ phase # "remove-liquidity"
  THEN Desc[r].replacement
  ELSE Desc[r].position

TxValid(chain, r, phase) ==
  LET p == Desc[r].project
      a == Target(r, phase)
  IN  CASE phase = "create-pool"   -> ~chain.pool[p]
        [] phase = "founder-sweep" -> chain.wallet[p]
        [] OTHER ->
             /\ chain.pool[p]
             /\ a \in Address
             /\ chain.position[a] \in
                  CASE phase = "initialize-position" -> {"absent"}
                    [] phase = "remove-liquidity"    -> {"funded"}
                    [] OTHER                         -> {"empty", "funded"}

TxEffect(chain, r, phase) ==
  LET p == Desc[r].project
      a == Target(r, phase)
  IN  CASE phase = "create-pool"         -> [chain EXCEPT !.pool[p] = TRUE]
        [] phase = "founder-sweep"       -> [chain EXCEPT !.wallet[p] = FALSE]
        [] phase = "initialize-position" -> [chain EXCEPT !.position[a] = "empty"]
        [] phase = "add-liquidity"       -> [chain EXCEPT !.position[a] = "funded"]
        [] phase = "remove-liquidity"    -> [chain EXCEPT !.position[a] = "absent"]
        [] OTHER                         -> chain

-----------------------------------------------------------------------------
(* Chain state readers *)

Verdict == {"APPLIED", "NOT_APPLIED", "PARTIAL", "UNKNOWN"}

(* The account the reader looks at; without a pool it reports no position, *)
(* and with a pool it cannot answer for a request that names no account.   *)
PositionSeen(chain, r) ==
  LET a == Target(r, "add-liquidity")
  IN  CASE ~chain.pool[Desc[r].project] -> "absent"
        [] chain.pool[Desc[r].project] /\ a \in Address -> chain.position[a]
        [] OTHER -> "unreadable"

(* Mutation of VerdictOf: an initialized position counts as opened.        *)
VerdictOfInitialized(seen, r) ==
  CASE seen = "unreadable" -> "UNKNOWN"
    [] Desc[r].action \in {"WITHDRAW", "EXIT"} /\ seen # "unreadable" ->
         IF seen = "absent" THEN "APPLIED" ELSE "NOT_APPLIED"
    [] OTHER -> IF seen = "absent" THEN "NOT_APPLIED" ELSE "APPLIED"

VerdictOf(seen, r) ==
  CASE seen = "unreadable" -> "UNKNOWN"
    [] seen # "unreadable" /\ Desc[r].action \in {"WITHDRAW", "EXIT"} ->
         IF seen = "absent" THEN "APPLIED" ELSE "NOT_APPLIED"
    [] OTHER ->
         CASE seen = "funded" -> "APPLIED"
           [] seen = "empty"  -> "PARTIAL"
           [] OTHER           -> "NOT_APPLIED"

ChainVerdict(chain, r) ==
  LET p == Desc[r].project
  IN  CASE Desc[r].sweep -> IF chain.wallet[p] THEN "NOT_APPLIED" ELSE "APPLIED"
        [] ~Desc[r].sweep /\ Desc[r].action = "CREATE_POOL" ->
             IF chain.pool[p] THEN "APPLIED" ELSE "NOT_APPLIED"
        [] OTHER -> VerdictOf(PositionSeen(chain, r), r)

=============================================================================
