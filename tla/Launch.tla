-------------------------------- MODULE Launch --------------------------------
(***************************************************************************)
(* Launching a pool: the reviewed plan (strategy/launchPlanner.ts with     *)
(* pool/, service/launchPlanning.ts, strategy/launchExecutionCaps.ts), the *)
(* two requests drafted from it (strategy/launchExecutionDraft.ts), what   *)
(* the pipeline and its recipes do with them (execution/pipeline.ts,       *)
(* execution/meteoraDlmm.ts, execution/chainState.ts), and the chain, on   *)
(* which transactions land late and others make and move pools.            *)
(*                                                                         *)
(* Nothing under src/ submits a draft.  Whoever does is taken to give      *)
(* every draft an idempotency prefix of its own, to submit the requests of *)
(* the latest draft only, one at a time, and to open the position after    *)
(* the request for its pool was answered RECONCILED.                       *)
(*                                                                         *)
(* Amounts are integers: whole project tokens, and SOL in the unit Price   *)
(* is in.  The simulated position of a plan is not repeated here           *)
(* (VirtualPosition has its inventory): no request carries it.             *)
(***************************************************************************)
EXTENDS PositionRange, FiniteSetsExt

CONSTANTS
  Price,         \* Price[b]: the price of bin b
  Amounts,       \* [token, sol] a founder may plan, or type
  Widths,        \* LAUNCH_PLAN_WIDTHS
  BinStep, BaseFee, Gas,  \* DEFAULTS of the service
  Presets,       \* verified Standard-pool presets on the cluster
  Proxy,         \* the draft without one: DEVNET_CUSTOMIZABLE_PROXY
  TransactionCap, ProjectCap, GlobalCap,
  NetworkFee,    \* of a transaction
  Balances,      \* SOL the project wallet may start with
  Spendings,     \* notional of the executions of others
  ForeignBins,   \* bins to which others bring a pool
  MaxDrafts,     \* bound: drafts that are made
  MaxForeign     \* bound: what others do

Preset == [step : Nat, fee : Nat, function : {"LIQUIDITY_MINING", "LIMIT_ORDER"},
           collects : {"INPUT_ONLY", "ONLY_Y"}]

(* What the constants have to be.  A cap for one transaction that the rent *)
(* alone exceeds is not foreseen: assessLaunchExecutionCaps does not       *)
(* compare them.                                                           *)
LaunchAssumption ==
  /\ RangeAssumption
  /\ Amounts \subseteq [token : Nat \ {0}, sol : Nat \ {0}]
  /\ Widths \subseteq 1..ClassicWidth
  /\ Presets \subseteq Preset /\ Proxy \notin Presets
  /\ {TransactionCap, ProjectCap, GlobalCap} \subseteq Nat \ {0}
  /\ Balances \cup Spendings \cup {BinStep, BaseFee, Gas, NetworkFee, MaxDrafts, MaxForeign} \subseteq Nat
  /\ DOMAIN Price \subseteq Int /\ ForeignBins \subseteq DOMAIN Price
  /\ \E low, high \in DOMAIN Price : Price \in [low..high -> Nat \ {0}]
  /\ \A a, b \in DOMAIN Price : a < b => Price[a] < Price[b]
  /\ \A bin \in DOMAIN Price : KnownRent(ClassicRange(bin)) <= TransactionCap

VARIABLES
  draft,     \* the latest draft
  drafts,    \* number of drafts
  requests,  \* status of the rows of its two requests
  calling,   \* the request whose call waits for its transaction
  answer,    \* what the last call was refused for
  spendable, \* SOL of the project wallet
  drained,   \* SOL that left it since the draft, but not for the draft
  rolling,   \* recorded notional of the last 24 hours
  pools,     \* the pools of the project token, by address
  positions, \* its positions on the chain
  flying,    \* transactions that were sent and may still land
  disturbed, \* history: the pool of the draft was made or moved by others
  foreign    \* number of steps of others

requestVars == <<requests, calling, answer, rolling>>
chainVars == <<spendable, drained, pools, positions, flying, disturbed>>

vars == <<draft, drafts, requestVars, chainVars, foreign>>

NoDraft == [covers |-> FALSE]

Kinds == {"create", "open"}

(* deriveStandardPoolAddress has one address for every preset,             *)
(* deriveCustomizablePoolAddress one for the pair of mints.                *)
Addresses == Presets \cup {Proxy}

(* by: the draft whose transaction made it, 0 for others                   *)
PoolAccount == [bin : DOMAIN Price, step : Nat, fee : Nat, by : Nat]
NoPool == [bin |-> 0, step |-> 0, fee |-> 0, by |-> -1]

TypeOK ==
  /\ drafts \in 0..MaxDrafts
  /\ requests \in [Kinds -> {"none", "STUCK", "RECONCILED"}]
  /\ calling \in Kinds \cup {"no"}
  /\ answer \in {"none", "unreserved", "capped", "failed"}
  /\ {spendable, drained} \subseteq Nat
  /\ rolling \in [create : Nat, open : Nat, earlier : Nat, project : Nat, global : Nat]
  /\ pools \in [Addresses -> PoolAccount \cup {NoPool}]
  /\ \A tx \in flying : tx.kind \in Kinds /\ tx.draft.number \in 1..drafts
  /\ \A position \in positions : position.by \in 1..drafts
  /\ calling # "no" \/ flying # {} \/ positions # {} => draft # NoDraft
  /\ disturbed \in BOOLEAN /\ foreign \in 0..MaxForeign

NothingRecorded == [create |-> 0, open |-> 0, earlier |-> 0, project |-> 0, global |-> 0]

Init ==
  /\ draft = NoDraft /\ drafts = 0
  /\ requests = [kind \in Kinds |-> "none"] /\ calling = "no" /\ answer = "none"
  /\ spendable \in Balances /\ drained = 0
  /\ rolling = NothingRecorded
  /\ pools = [address \in Addresses |-> NoPool] /\ positions = {}
  /\ flying = {} /\ disturbed = FALSE /\ foreign = 0

-----------------------------------------------------------------------------
(* Planning *)

(* The intended price is sol / token.                                      *)
BinsBelow(amount) == {b \in DOMAIN Price : Price[b] * amount.token <= amount.sol}
BinsAbove(amount) == {b \in DOMAIN Price : Price[b] * amount.token >= amount.sol}

(* Both sides of the intended price, or the plan is refused.               *)
Priced(amount) == BinsBelow(amount) # {} /\ BinsAbove(amount) # {}

Deviation(bin, amount) == LET d == Price[bin] * amount.token - amount.sol IN Max({d, -d})

(* planMeteoraBinPrice, rounding NEAREST                                   *)
ActiveBin(amount) ==
  LET lower == Max(BinsBelow(amount))
      upper == Min(BinsAbove(amount))
  IN  IF Deviation(lower, amount) <= Deviation(upper, amount) THEN lower ELSE upper

(* initialLiquidityValueSol                                                *)
Value(amount) == amount.token * Price[ActiveBin(amount)] + amount.sol

(* Mutation of ReadyFor: the rent of the pool is not added.                *)
ReadyForOpening(rent, value) ==
  value <= TransactionCap /\ value <= ProjectCap /\ value <= GlobalCap

(* assessLaunchExecutionCaps, as the service calls it: nothing was spent.  *)
ReadyFor(rent, value) ==
  value <= TransactionCap /\ rent + value <= ProjectCap /\ rent + value <= GlobalCap

LaunchPlan(amount, width) ==
  LET active  == ActiveBin(amount)
      account == ClassicRange(active)
      rent    == KnownRent(account)
  IN  [amount |-> amount, active |-> active, account |-> account,
       funded |-> FundedRange(active, width), rent |-> rent, value |-> Value(amount),
       minimum |-> amount.sol + Gas + rent, within |-> ReadyFor(rent, Value(amount)),
       step |-> BinStep, fee |-> BaseFee]

(* Both ends of the funded range have a price.                             *)
Plannable(amount, width) ==
  /\ Priced(amount)
  /\ FundedRange(ActiveBin(amount), width).lower \in DOMAIN Price
  /\ FundedRange(ActiveBin(amount), width).upper \in DOMAIN Price

-----------------------------------------------------------------------------
(* Drafting *)

SameAmount(plan, typed) == typed = plan.amount

PresetMatches(plan, preset) ==
  /\ preset.step = plan.step /\ preset.fee = plan.fee
  /\ preset.function = "LIQUIDITY_MINING" /\ preset.collects = "INPUT_ONLY"

(* covers: walletCoversKnownMinimum, which nobody enforces                 *)
DraftOf(plan, typed, preset) ==
  [plan   |-> plan, amount |-> typed, wallet |-> spendable,
   covers |-> spendable >= plan.minimum,
   step   |-> IF preset = Proxy THEN plan.step ELSE preset.step,
   fee    |-> IF preset = Proxy THEN plan.fee ELSE preset.fee,
   pool   |-> preset, number |-> drafts + 1]

(* A founder may have any of the comparisons drafted, and may always come  *)
(* back with other amounts.  The shape of a comparison decides nothing,    *)
(* and the report is the same whenever it is made: it is drafted in the    *)
(* step that makes it.  What the rows of the draft before recorded stays   *)
(* in the rolling window.                                                  *)
Draft(amount, width, typed, preset) ==
  LET plan == LaunchPlan(amount, width)
  IN  /\ calling = "no" /\ drafts < MaxDrafts
      /\ Plannable(amount, width) /\ SameAmount(plan, typed)
      /\ preset # Proxy => PresetMatches(plan, preset)
      /\ draft' = DraftOf(plan, typed, preset) /\ drafts' = drafts + 1
      /\ requests' = [kind \in Kinds |-> "none"] /\ answer' = "none"
      /\ rolling' = [rolling EXCEPT !.create = 0, !.open = 0,
                                    !.earlier = @ + rolling.create + rolling.open]
      /\ drained' = 0 /\ disturbed' = FALSE
      /\ UNCHANGED <<calling, spendable, pools, positions, flying, foreign>>

-----------------------------------------------------------------------------
(* Executing (execute): a call holds the lock of the project from its      *)
(* first query to its end, and its row shows when it has ended.            *)
(* ExecutionPipeline has the steps of a call; here it is what it answers   *)
(* at once, or sending and what comes of it.                               *)

NotionalOf(kind) == IF kind = "create" THEN draft.plan.rent ELSE draft.plan.value

(* What DevnetMeteoraChainStateReader looks at: an account at the address, *)
(* whoever made it.  The address of a position has its pool and its lower  *)
(* bin in it.                                                              *)
AtAddress(position, d) ==
  position.pool = d.pool /\ position.account = ClassicRange(d.plan.active)

Occupied(kind, d) ==
  IF kind = "create" THEN pools[d.pool] # NoPool
                     ELSE \E position \in positions : AtAddress(position, d)

OpeningCost(d) == d.amount.sol + OpeningRent(d.plan.account) + 2 * NetworkFee

CostOf(kind, d) == IF kind = "create" THEN CreationRent + NetworkFee ELSE OpeningCost(d)

(* checkReserve: with the SOL the wallet had when the request was drafted. *)
KeepsReserve == draft.amount.sol + Gas <= draft.wallet

InsideAccount(range) == Within(range, ClassicRange(draft.plan.active))

(* Mutation of Builds: the reserve is not checked.                         *)
BuildsUnreserved(kind) == kind = "open" => InsideAccount(draft.plan.funded)

(* open centers its range on the bin of the draft: it reads the active bin *)
(* of the pool, and does without it.                                       *)
Builds(kind) == kind = "open" => KeepsReserve /\ InsideAccount(draft.plan.funded)

WithinCaps(spent, notional) ==
  /\ notional <= TransactionCap
  /\ spent + notional <= ProjectCap
  /\ spent + rolling.global + notional <= GlobalCap

ProjectSpent == rolling.create + rolling.open + rolling.earlier + rolling.project

(* rollingNotionalSol leaves out the row of the request itself.            *)
SpentBeside(kind) == ProjectSpent - rolling[kind]

(* The program does not create an account twice.                           *)
Simulates(kind) == ~Occupied(kind, draft) /\ CostOf(kind, draft) <= spendable

(* A request that is RECONCILED is answered at once.                       *)
MaySubmit(kind) ==
  /\ calling = "no" /\ draft # NoDraft
  /\ requests[kind] # "RECONCILED"
  /\ kind = "open" => requests.create = "RECONCILED"

(* Mutation of IsRead: the chain is read for every request.                *)
IsReadAlways(kind) == TRUE

(* The chain is read for a row that is there, and not for a fresh one.     *)
IsRead(kind) == requests[kind] = "STUCK"

Applied(kind) == IsRead(kind) /\ Occupied(kind, draft)

(* The row counts from when it is first committed.                         *)
Records(kind, status) ==
  /\ requests' = [requests EXCEPT ![kind] = status]
  /\ rolling' = [rolling EXCEPT ![kind] = IF requests[kind] = "none" THEN NotionalOf(kind) ELSE @]
  /\ calling' = "no" /\ answer' = "none"

(* A request that was STUCK is found on the chain.                         *)
SubmitFound(kind) ==
  /\ MaySubmit(kind) /\ Applied(kind)
  /\ Records(kind, "RECONCILED")
  /\ UNCHANGED <<draft, drafts, chainVars, foreign>>

(* The call throws before it sends, which leaves no trace.                 *)
SubmitRefused(kind) ==
  /\ MaySubmit(kind) /\ ~Applied(kind)
  /\ answer' = CASE ~Builds(kind) -> "unreserved"
                 [] ~WithinCaps(SpentBeside(kind), NotionalOf(kind)) -> "capped"
                 [] ~Simulates(kind) -> "failed"
                 [] OTHER -> "none"
  /\ answer' # "none"
  /\ UNCHANGED <<draft, drafts, requests, calling, rolling, chainVars, foreign>>

(* An opening is two transactions; they land as one.  Two copies of a      *)
(* transaction are one, as only one of them can land.                      *)
SubmitSent(kind) ==
  /\ MaySubmit(kind) /\ ~Applied(kind)
  /\ Builds(kind) /\ WithinCaps(SpentBeside(kind), NotionalOf(kind)) /\ Simulates(kind)
  /\ flying' = flying \cup {[kind |-> kind, draft |-> draft]}
  /\ calling' = kind /\ answer' = "none"
  /\ UNCHANGED <<draft, drafts, requests, rolling, spendable, drained, pools, positions,
                 disturbed, foreign>>

(* After the last confirmation, or after one that failed, the account is   *)
(* read and is there (runBuilt, reconcileUnknown).                         *)
Reconciles(kind) ==
  /\ calling = kind /\ Occupied(kind, draft)
  /\ Records(kind, "RECONCILED")
  /\ UNCHANGED <<draft, drafts, chainVars, foreign>>

(* It is not there after the last attempt, or cannot be read.              *)
GetsStuck(kind) ==
  /\ calling = kind
  /\ Records(kind, "STUCK")
  /\ UNCHANGED <<draft, drafts, chainVars, foreign>>

(* It is not there, and attempts are left (ExecutionPipeline counts them). *)
Resends(kind) ==
  /\ calling = kind /\ Simulates(kind)
  /\ flying' = flying \cup {[kind |-> kind, draft |-> draft]}
  /\ answer' = "none"
  /\ UNCHANGED <<draft, drafts, requests, calling, rolling, spendable, drained, pools,
                 positions, disturbed, foreign>>

(* A query, or the simulation of a resent transaction, fails, or the       *)
(* process dies: the row is rolled back, what was sent is not.             *)
Throws(kind) ==
  /\ calling = kind /\ calling' = "no" /\ answer' = "none"
  /\ UNCHANGED <<draft, drafts, requests, rolling, chainVars, foreign>>

-----------------------------------------------------------------------------
(* The chain, and others *)

PoolOf(d) == [bin |-> d.plan.active, step |-> d.step, fee |-> d.fee, by |-> d.number]

PositionOf(d) ==
  [pool |-> d.pool, account |-> ClassicRange(d.plan.active), funded |-> d.plan.funded,
   token |-> d.amount.token, sol |-> d.amount.sol, by |-> d.number]

(* A transaction lands, as late as after other drafts were made.  How much *)
(* of either amount the bins take when the price has left them is left to  *)
(* the SDK; the position has what was offered.                             *)
Lands(tx) ==
  LET d == tx.draft
  IN  /\ ~Occupied(tx.kind, d) /\ CostOf(tx.kind, d) <= spendable
      /\ flying' = flying \ {tx}
      /\ spendable' = spendable - CostOf(tx.kind, d)
      /\ drained' = IF d = draft THEN drained ELSE drained + CostOf(tx.kind, d)
      /\ disturbed' = (disturbed \/ (tx.kind = "create" /\ d # draft /\ d.pool = draft.pool))
      /\ pools' = IF tx.kind = "create" THEN [pools EXCEPT ![d.pool] = PoolOf(d)] ELSE pools
      /\ positions' = IF tx.kind = "open" THEN positions \cup {PositionOf(d)} ELSE positions
      /\ answer' = "none"
      /\ UNCHANGED <<draft, drafts, requests, calling, rolling, foreign>>

(* It never lands, or fails when it does; the fee of the latter is not     *)
(* taken from the wallet here.                                             *)
IsLost(tx) ==
  /\ flying' = flying \ {tx} /\ answer' = "none"
  /\ UNCHANGED <<draft, drafts, requests, calling, rolling, spendable, drained, pools,
                 positions, disturbed, foreign>>

Disturbs(address) == disturbed' = (disturbed \/ (draft # NoDraft /\ address = draft.pool))

Foreign == foreign < MaxForeign /\ foreign' = foreign + 1

(* Anyone may make the pool at an address.  A preset fixes its step and    *)
(* fee; a customizable pool has those of whoever makes it.                 *)
PoolAppears(address, like, bin) ==
  /\ Foreign
  /\ pools[address] = NoPool
  /\ address # Proxy => like = address
  /\ pools' = [pools EXCEPT ![address] = [bin |-> bin, step |-> like.step, fee |-> like.fee,
                                          by |-> 0]]
  /\ Disturbs(address) /\ answer' = "none"
  /\ UNCHANGED <<draft, drafts, requests, calling, rolling, spendable, drained, positions,
                 flying>>

(* Somebody swaps.                                                         *)
PoolMoves(address, bin) ==
  /\ Foreign
  /\ pools[address] # NoPool /\ pools[address].bin # bin
  /\ pools' = [pools EXCEPT ![address].bin = bin]
  /\ Disturbs(address) /\ answer' = "none"
  /\ UNCHANGED <<draft, drafts, requests, calling, rolling, spendable, drained, positions,
                 flying>>

(* Another execution of the project, which its wallet pays.                *)
ProjectSpends(notional) ==
  /\ Foreign
  /\ calling = "no"
  /\ WithinCaps(ProjectSpent, notional) /\ notional <= spendable
  /\ spendable' = spendable - notional /\ drained' = drained + notional
  /\ rolling' = [rolling EXCEPT !.project = @ + notional] /\ answer' = "none"
  /\ UNCHANGED <<draft, drafts, requests, calling, pools, positions, flying, disturbed>>

(* An execution of another project                                         *)
OthersSpend(notional) ==
  /\ Foreign
  /\ notional <= TransactionCap /\ ProjectSpent + rolling.global + notional <= GlobalCap
  /\ rolling' = [rolling EXCEPT !.global = @ + notional] /\ answer' = "none"
  /\ UNCHANGED <<draft, drafts, requests, calling, chainVars>>

(* A day passes: nothing is counted any more.                              *)
WindowPasses ==
  /\ Foreign
  /\ calling = "no"
  /\ rolling # NothingRecorded /\ rolling' = NothingRecorded /\ answer' = "none"
  /\ UNCHANGED <<draft, drafts, requests, calling, chainVars>>

Next ==
  \/ \E amount, typed \in Amounts, width \in Widths, preset \in Addresses :
       Draft(amount, width, typed, preset)
  \/ \E kind \in Kinds :
       \/ SubmitFound(kind) \/ SubmitRefused(kind) \/ SubmitSent(kind)
       \/ Reconciles(kind) \/ GetsStuck(kind) \/ Resends(kind) \/ Throws(kind)
  \/ \E tx \in flying : Lands(tx) \/ IsLost(tx)
  \/ \E address \in Addresses, bin \in ForeignBins :
       \/ \E like \in Presets : PoolAppears(address, like, bin)
       \/ PoolMoves(address, bin)
  \/ \E notional \in Spendings : ProjectSpends(notional) \/ OthersSpend(notional)
  \/ WindowPasses

Spec == Init /\ [][Next]_vars

-----------------------------------------------------------------------------
(* Correctness *)

(* Nothing but the two requests of the draft is in the rolling window.     *)
OnlyTheDraft == rolling.earlier = 0 /\ rolling.project = 0 /\ rolling.global = 0

(* A plan that is WITHIN_CONFIGURED_CAPS can be executed: neither of its   *)
(* requests trips a cap, also when it is submitted again, as long as       *)
(* nothing else is spent (assessLaunchExecutionCaps against checkCaps).    *)
CapsForetell == answer = "capped" /\ OnlyTheDraft => ~draft.plan.within

Opened == requests.open = "RECONCILED"

(* A wallet that covered the known minimum still holds the gas reserve     *)
(* once the position is open, but for the network fees                     *)
(* (minimumWalletSolWithKnownAccountRent; the plan "is deliberately not    *)
(* called an all-in quote", launchCosts.ts:26).  One that did not has at   *)
(* least kept it from the amounts deposited (checkReserve): what is        *)
(* missing is the rent.                                                    *)
WalletKeepsGas ==
  Opened =>
    /\ draft.covers => spendable + drained + 3 * NetworkFee >= Gas
    /\ spendable + drained + draft.plan.rent + 3 * NetworkFee >= Gas

(* The position that is open is the one that was last reviewed, whatever   *)
(* earlier drafts have left on the chain or still have on their way, and   *)
(* however often its requests were stuck and submitted again: with the     *)
(* amounts and the bins of the draft, inside its account, in a pool of the *)
(* reviewed step and fee, whoever made it, unless it is customizable.      *)
(* Unless somebody else made or moved that pool since the draft, which     *)
(* nothing detects (the reader asks for an account, open does not look at  *)
(* the active bin), it also has the reviewed price: the representable one  *)
(* nearest to the amounts, in the middle of the bins that were funded      *)
(* (draftLaunchExecution, executeLocked, open).                            *)
OpenedAsReviewed ==
  Opened =>
    LET pool == pools[draft.pool]
    IN  \E position \in positions :
          /\ position.pool = draft.pool /\ position.funded = draft.plan.funded
          /\ position.token = draft.plan.amount.token /\ position.sol = draft.plan.amount.sol
          /\ Within(position.funded, position.account)
          /\ draft.pool # Proxy \/ ~disturbed =>
                pool.step = draft.plan.step /\ pool.fee = draft.plan.fee
          /\ ~disturbed =>
               /\ \A bin \in DOMAIN Price : Deviation(pool.bin, position) <= Deviation(bin, position)
               /\ Holds(position.funded, pool.bin)

=============================================================================
