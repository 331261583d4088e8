# A verification project for lp-bot

TLA+ models of the parts of lp-bot where order, failure and concurrency decide
correctness, TLC configurations that check them on small instances, and proofs,
checked by TLAPS, of the properties that matter most for every value of the
constants. Paths below are relative to `src/lp-shadow/src/` unless they start
with `src/`.

To check a run, `tlc -config ExecutionSafety.cfg MCExecutionPipeline.tla`; to
check the proofs, `tlapm ExecutionPipelineProofs.tla`. `PROJECT.json` lists the
runs, the source lines of every definition, the hazards with the properties
that cover them, the mutations each property catches, and the theorems.

## 1. Inventory

lp-bot manages liquidity for token projects on Meteora DLMM pools. Two processes
and one library share a Postgres database:

- the **shadow loop** (`index.ts`) polls pools, runs the strategy on a virtual
  position and writes what it would have done; it holds no keys;
- the **bot** (`bot/main.ts`) lets founders add, pause and stop pools, request
  withdrawals and read reports, through the founder API in `service/`;
- the **execution pipeline** (`execution/`) turns one execution request into
  signed transactions; callers (scripts now, workers later) share its tables.

| component | state it keeps | operations | interacts with | hard behaviour | what makes it correct |
|---|---|---|---|---|---|
| Execution pipeline (`execution/pipeline.ts`) | none of its own; intent and outcome rows | `execute` | store, builder, chain reader, RPC, signer, alert sink | concurrent callers, crashes between send and commit, transactions that land after the wait for them ended, retries | one executor per project; bounded sends; nothing reconciled that did not happen; caps; money moves once |
| Execution store (`execution/prismaStore.ts`) | `ExecutionIntent`, `ExecutionOutcome`, `KeyValue` kill switch, advisory locks | `withProjectLock`, reads and writes of rows | Postgres | everything inside one interactive transaction with a 300 s timeout | only settled rows become durable |
| Recipes and chain readers (`meteoraDlmm.ts`, `withdrawalSweep.ts`, `chainState.ts`, `initialLiquidityPolicy.ts`) | none; they read the chain | `build`, `buildCompletion`, `read`, policy checks | Meteora program | several transactions per intent, partial application | a verdict says what the chain shows; a completion finishes the intent |
| Transaction inspection (`inspect.ts`), RPC and signer (`rpc.ts`, `custodySigner.ts`), custody (`custody/`) | sealed keys, one wallet row per project | inspect, simulate, send, confirm, sign | Solana, KMS | send or confirm failing without proof either way | only the expected programs and accounts are signed |
| Shadow loop (`index.ts`) | `LoopState` per pool, in memory | `main`, `buildRunners`, `reconcileRunners`, `bootstrap`, `tick`, daily reports | pollers, strategy, ledger, Telegram | memory and ledger diverge when writes fail or the process dies; a paused pool ticks on until reconciled | fees credited once; an exit is final; exit and rebalance clocks tell the truth |
| Regime signals (`signals/`), virtual position (`virtual/`), decision (`decision/`), bin arithmetic (`binMath.ts`, `positionRange.ts`) | pure functions over `RegimeState`, `VirtualPosition`, `BenchmarkState` | `updateRegime`, `markPosition`, `accrueFees`, `apply*`, `decide` | called by loop, replay, lab | missing data, irregular sampling, equalities at boundaries | gates fire when, and only when, their documented condition holds |
| Ledger persistence (`ledger/persist.ts`) | snapshots, decisions, events, marks, cursors | one insert or upsert each | Postgres | no transaction spans a tick | bootstrap recovers what the tick left |
| Registry (`ledger/registry.ts`) | `Tenant`, `StrategyVersion`, `ManagedPool` (mode, runSeq) | `upsertTenant`, `publishStrategyVersion`, `addManagedPool`, `setPoolMode`, `listActivePools`, `trackRecord` | loop, founder API | check-then-create races; a stopped row revived by a stale mode | one live run per pool, one canonical strategy |
| Founder API: pools, handoff tokens, address changes, withdrawals, reports, planning (`service/`) | handoff tokens (rows of `KeyValue`), `AddressChangeRequest`, `WithdrawalRequest`, report cache | `addPool`, `pausePool`, `resumePool`, `removePool`, `issueHandoff`, `redeemHandoff`, `requestAddressChange`, `confirmAddressChange`, `applyAddressChange`, `requestFullWithdrawal` | registry, bot | two chats redeem one token; restore after a failed upsert; a stale request applied late; two withdrawals at once | a token is used once; the delay is served; one open withdrawal |
| Bot (`bot/`) | pending confirmations by chat | commands and callbacks | founder API, Telegram | double taps, stale cards, redelivered updates, replies whose answer is lost | a confirmation confirms what was shown, once |
| Deposits (`deposit/`) | `DepositEvent` rows; no cursor | poll, append, evaluate lifecycle | RPC, Postgres | overlapping and interrupted polls, missing transactions | what was read is on record, once |
| Launch planning (`strategy/launch*.ts`, `pool/`, `service/launchPlanning.ts`) | none; a report, then two execution requests | plan, assess caps, draft, then `execute` twice | founder API, pipeline, recipes | three sums computed apart (plan, caps, recorded notional); a draft after another one, whose pools and transactions are still there; pools that others make or move | plans stay within the caps they declare; what opens is what was reviewed |
| Replay (`replay/`, `service/replay.ts`, `strategy/launchGuard.ts`) | the locals of one run per variant | `runVariant` | stored snapshots, strategy | benchmarks credited at two places; a guard that replaces decisions; conversions at bin prices | books balance over any sequence; variants are compared on equal terms |
| Strategy profiles, lab, tuning (`strategy/`) | profile versions; otherwise pure | seed, simulate, tune | scripts | none of order | results are reproducible |
| Token safety (`tokenSafety/`), pollers (`poller/`), reports, config | none or pure I/O | decode, screen, fetch, format | external APIs | malformed answers | a bad snapshot is refused |

The components, with what is modelled of each and why the rest is not, are in
`PROJECT.json` under `components`; the hazards of the modelled ones, at their
lines, under `hazards`.

## 2. Plan

The order is by what can lose money, then by what can falsify the evidence the
product shows, then by what can annoy a founder.

| step | modules | abstract specification | runs | theorems | state |
|---|---|---|---|---|---|
| 1 | `LiquidityChain`, `ExecutionPipeline`, `MCExecutionPipeline` | `IntentLedger` | `exec_*` (6) | types, mutual exclusion, settled rows, policy, RECONCILED is final, bounded sends, RECONCILED means opened, the project cap, at most once (under `Undisturbed`), refinement | done |
| 2 | `ShadowStrategy`, `ShadowLoop`, `MCShadowLoop` | the properties themselves | `loop_*` (4) | types, fees credited once, exits are final, one baseline, a dry pool is left, the dwell is served | done |
| 3 | `FounderBot`: one founder's chat, its prompts and cards, and the managed pools behind it, with redelivery and a second caller; `MCFounderBot` | the properties themselves | `founder_service`, part "chat" | types, one live run per pool, runs are as shown, a stopped run stays stopped, removals are as asked, cards act once | done |
| 4 | `Handoff`, `Payouts`, `Deposits`, composed with step 3 in `FounderService` | the properties themselves | `founder_service`, three parts; `deposit_shared` | types of every part, tokens bind once and survive failures, suspended accounts stay out, the delay is served, one open withdrawal, deposits on record and counted once | done |
| 5 | `VirtualPosition` (inventory, costs, benchmarks), `Replay` (variants over stored rows), `ReplayedLoop` (one replay beside the loop that stores its rows) | the loop itself, for `ReplayedLoop` | `founder_service`, part "replays"; `loop_failures` | books balance, no gain from crossing bins, the guard delays no exit, benchmarks agree, depth and capacity are honest, a replay follows the loop | done |
| 6 | `PositionRange`, `Launch` (plan, drafts, their requests, the chain), `MCPlanning` | the plan that was reviewed | `founder_service`, part "launch" | a funded range fits its account, rent is bounded; plans foretell caps, the gas is kept, what opens is what was reviewed | done |
| 7 | `publishStrategyVersion` and the daily report, added to the loop | | within `loop_*` | none | left |

Every module is written to be proved about: parameters are constants with named
assumptions, each operation is one action, no operator is declared recursive.
Small components are composed into one specification where they share a run
(`FounderService`), which is proved about as well: a theorem about a component is
carried over to the composition by showing that a behaviour of the composition
is one of the component.

## 3. The execution pipeline

`LiquidityChain` holds what the pipeline's collaborators compute: the phases of
each action (`Build`, `Recipe`, `PlanFor`), whether a phase can succeed on a
chain and what it does (`TxValid`, `TxEffect`, external), what a chain reader
answers (`VerdictOf`, `ChainVerdict`) and the policy for permanent positions
(`PolicyAllows`).

`ExecutionPipeline` is `execute()`. Each executor has a program counter `pc`
that stands at the awaits of `execute`, `executeLocked`, `runBuilt` and
`reconcileUnknown`; each action is what the code does from one such point to the
next. Three kinds of state differ in what survives:

- **committed** rows (`intent`, `outcomes`, `window`), what another session sees;
- **uncommitted** rows (`status`, `outcome`) of the executor's open database
  transaction. `withProjectLock` runs the whole of `executeLocked` in one
  interactive transaction, so `createIntent` and `updateIntent` write these;
  `Commit` copies them out, `Reject` and `Crash` drop them;
- the **chain**: `Land` makes a sent transaction take effect while it is awaited,
  `LandLate` and `Expire` settle one (`orphan`) nobody awaits any more.

`IntentLedger` is the abstract specification: somebody holds a project and
settles at most one intent when letting go; RECONCILED is for ever. The
refinement mapping sends `lock` to `holder` and the committed `intent` to
`ledger`; everything else the pipeline does is a stutter.

What is folded together: `Crash` stands for the death of the process, the 300 s
transaction timeout, and a store, build, inspection or signing call that
throws, since all of them roll back and release the lock. A failed wait for a
database connection (`maxWait`) refuses the call before anything happens and is
not modelled. Removing liquidity is one transaction. A read of a position whose
range differs from the intent answers UNKNOWN, as does a failing RPC. Equal
orphans of one request and phase are one. Forks are not modelled: what lands
stays.

### Runs

| run | instance | shows |
|---|---|---|
| `exec_safety` | two executors, opening of the permanent position and a rebalance of it; RPC failures, late transactions, crashes | types, mutual exclusion, settled rows, the policy still holding when transactions are sent, bounded sends, no opening RECONCILED that did not happen |
| `exec_ledger` | pool creation, opening and exit of one project with cap 3 and notionals of 2; RPC failures, days passing | the project cap holds on what is recorded, the refinement, RECONCILED is final |
| `exec_liveness` | an opening and a compounding of one position, RPC failures, kill switch toggled at will | no money moves twice when transactions land before the wait ends or never; every call returns; a kill switch that stays on drains the locks |
| `exec_intent_lost` | one crash | **violated**: a transaction landed and no intent row exists, although the README and the design say the intent is durable first |
| `exec_resend_in_flight` | an opening and a founder sweep; sent transactions that land late | **violated**: a resend after a NOT_APPLIED read, and then both land |
| `exec_global_cap` | two projects | **violated**: both pass the global check on the same sum |

Bounds: two executors are enough for every race of a lock that never waits; a
third is refused like the second. `MaxOutcomes` stops a STUCK intent from being
executed for ever (`MayBeCalled`); with `MaxReconcileAttempts` 2 it allows a
retry within a call and a second call. `landed` saturates at 2, which is
where at-most-once is already false.

Fairness: weak fairness of each executor's own steps. Every await of `execute`
settles: RPC calls fail or answer, `confirmTransaction` gives up when the
blockhash expires, the database transaction ends by commit or rollback. Nothing
is assumed of the operator, the network (`Land` is not fair) or new calls.

### Proofs (`ExecutionPipelineProofs`)

For any set of executors, requests and projects, any catalogue of requests, any
caps and any environment:

- `TypeCorrect`: types. `TypeOK` alone is not inductive: `Head(plan[e])` needs
  a plan that is not empty while a transaction is prepared or awaited, and
  `ProjectOf(e)` a request while a call is in progress. `WellFormed` adds both
  (`CallHasRequest`, `FlightAgrees`).
- `MutualExclusion`: from `LockAgrees`, lock table and program counters agree.
- `RowsAreSettled`, `ReconciledStays`: from `RowInv`, which adds that an executor
  about to commit holds a settled status (`DoneIsSettled`) and that nobody works
  on a RECONCILED intent (`NoWorkOnReconciled`). `StepOutline` sums up each step by
  what it does to locks and rows, so that these proofs have a few cases and not
  twenty.
- `PolicyIsKept`: the check made at the start of a call is still true when its
  transactions go out, because a recorded permanent opening needs the
  project's lock.
- `LedgerRefinement`: `Spec => Ledger!Spec`.
- `SendsAreBounded`: from `BudgetKept`, the attempts of a call and the transactions
  it still plans stay within what a last recipe may start with. The count of
  attempts alone is not inductive, since the loop does not look at it between the
  transactions of one recipe.
- `ReconciledIsOpened`, from `OpeningInv`: a position that its only funder is not
  opening is not funded (`FundedByOpening`), and a status that says the intent is
  done has seen it on chain (`DoneMeansOpened`). It assumes that only WITHDRAW
  requests sweep (`SweepsWithdraw`) and that a position with one funder is not on
  chain at the start (`UnfundedAtFirst`); the checked catalogue meets both.
- `ProjectCapIsKept`, from `CapInv`. The cap is compared once, before anything is
  sent, and the row that makes the spending count is committed only at the end. So
  the invariant says of a call that was cleared and has not settled that its
  project's counted rows still leave room for it (`RoomKept`): nobody else can take
  that room, because every other call of the project waits for the lock. The sums
  over the window are compared by the smallest set of rows that two of them
  differ in. `GlobalCapRace` shows the same argument failing for the global cap,
  which no lock protects.
- `MoneyMovesOnce`, from `OnceInv`: what has landed shows on the chain
  (`LandingsShow`), what a call still plans to send either has not landed or cannot
  pass the simulation (`Fits`), and a compound that landed has a row that says so
  (`CompoundsRecorded`). It is proved under `Undisturbed`, each part of which the
  code needs: no transaction lands after `confirm()` gave up on it (`ResendInFlight`
  shows what happens otherwise), no request empties a position again (an opening
  executed again after its withdrawal lands twice, as asked), and no compound is
  in the catalogue where calls crash (a crash rolls its row back, and a position
  that held liquidity before does not tell whether the compound was added). Requests,
  executors, attempts, lost answers and failed simulations stay arbitrary. The
  catalogue of `ExecutionLiveness` satisfies it.

Only model-checked: the liveness properties (`EveryCallReturns` and
`KillSwitchDrains`), whose fairness is out of the prover's reach.

## 4. The shadow loop

`ShadowStrategy` is the pure layer: regime signals, virtual position, decision.
`ShadowLoop` is the process around it for one pool. A tick is split at its
awaits: `Poll`, `WriteFeeCursor`, `Observe` (snapshot check and signals, opening),
`SaveOpenBenchmarks`, `SaveOpenEvent`, `DecideAndApply`, `SaveSnapshot`, `SaveEvent`,
`SaveMark`, `SaveBenchmarks`. Memory (`regime`, `position`, `bench`, `lastFee`,
`lastTick`) and ledger (`feeCursor`, `benchCursor`, `history`, `ledger`) are separate:
`TickThrows` (a refused snapshot or a failed write) abandons a tick and keeps memory, `Crash` does the opposite, and
`Bootstrap` is all that connects them. `Reconcile` and `Boot` start runners;
`SetPoolMode` is the operator, whose change is seen at the next reconciliation.

Abstractions: a price is the bin it lies in; fees are integers and `earned` is
what the pool has earned in its life, which the API's counter reports (`full`),
leaves out (`partial`), has lost (`reset`), or does not answer for (`none`); a figure
pro-rated from 24 hours is taken to be what the pool earned in that time; the
position's share of the active bin is all of it, so that a fee credited twice is
seen. Inventory, costs and NAV are those of `VirtualPosition` (section 6) and not
repeated here, the cost coverage gate is a free choice, and the width of a range
is left out. `dryFrom`, `lastInside` and `lastRow` are history variables.

`ReplayedLoop` puts a replay beside the loop. Each time the loop stores a
snapshot (`ReplaySnapshot`), `runVariant` plays that row, with the signals,
position and decision functions of `ShadowStrategy`, into `rerun`, which knows
nothing of the loop but its rows. `missed` records the two ways in which the rows
are not all the loop acted on: a write that fails after the signals were updated
and before the snapshot is stored (`AbandonTick`), and a restart on a pool with
history, which restores the price window but not the exit clock
(`RunFromHistory`). Every other step is `Unreplayed`.

### Runs

| run | instance | shows |
|---|---|---|
| `loop_restart` | two bins, five ticks; failing polls, rejected snapshots, crashes at every await, pausing, resuming, stopping, reconciliation every second loop | types, no fee credited twice, benchmarks and position start together, an exit is final |
| `loop_failures` | seven ticks; failing polls and writes; the replay beside it | a dry pool is left on time; a range is only left after being out of it at every accepted snapshot of the dwell; the replay of the stored rows stands where the loop stands |
| `loop_settle` | loops one or two time units apart | **violated**: a quiet window is not reported settled unless a sample lies exactly on its cutoff |
| `loop_fees` | a counter that drops once and comes back | **violated**: fees credited in an interval that were credited before |

Two violations are disagreements with comments in the code (`findings`).
`loop_settle` matters in practice: ticks are started by a sleep between loops
whose length jitters, so a sample on the cutoff to the millisecond is the
exception and the REBALANCE gate d almost never opens; the tests use aligned
samples.

Bounds: `MaxTime` ends the clock after enough loops to wait for volatility, open,
leave the range, serve a dwell and act (and, in `loop_restart`, restart at any
point of that); dwell times are one to three loops so that they are reached and
missed. Half-width 0 and two bins make every price in or out of range.

What the runs do not claim, because it is false: with crashes, the exit clock
starts over (`bootstrap` does not restore `volTvlBelowFloorSince`) and a lost MARK
leaves an older `oorSince`, so `loop_failures` has no crashes; with failing writes
and crashes together the benchmarks may be drawn from a later time than the
position, so `loop_restart` has no failing writes. These are listed as hazards.
When an exit happens in the opening tick, its OPEN and EXIT events carry one
timestamp and a restart may restore either; `ExitIsFinal` speaks of later ones.

`ReplayAgrees` is claimed while nothing was `missed`: a replay makes exactly the
decisions of the loop as long as every snapshot the loop acted on is stored and
the loop was not restarted, whatever else failed. Beyond that it is false, and
replays of such a pool differ from what was shown live. In this instance the
pool earns nothing more (`Gain` is 0): the fees of a row are stored with the row,
and their credit is what `loop_restart` is about.

Nothing of the loop is a liveness question beyond its timer, so no fairness is
assumed.

### Proofs (`ShadowLoopProofs`)

For all parameters, prices, readings and sequences of failures (and any bounds):

- `LoopTypeOK`: types, with `Typed` adding that the history is finite, so that
  its rows can be counted, and that the last tick and row lie in the past, so
  that a pro-rated fee is not negative.
- `ExitsAreFinal`: from `ExitInv`: a tick in progress has a runner, and a runner
  of a pool whose latest events all say EXITED holds an exited position.
- `NoFeeTwice`, for an API that answers with its counter or not at all (the
  assumption `loop_fees` shows to be needed): from `FeeInv`: stored counter behind
  the one in memory, both behind what was earned, every position behind the
  stored counter, and the fees of a tick in progress within the gap that its
  cursor write has opened.

- `BaselineIsShared`, when writes do not fail: from `BaselineInv`, which follows the
  opening through the tick. Between drawing the benchmarks and storing them the
  position is the tick's own (`TickStarted`); afterwards the runner's position
  (`RunnerStarted`), every event and mark (`LedgerStarted`) and the stored
  benchmarks name one time.
- `DryPoolIsLeft` and `DwellIsServed`, for a loop that is neither restarted nor
  paused: from `LiveInv`, which says of each await of a tick how far the clocks in
  memory are ahead of, or agree with, what has been observed (`ClocksAgree`), that
  nothing is known before the first snapshot (`NothingYet`), and that a tick past
  its decision has left a pool that was dry for long enough (`ExitsDecided`). The
  two limits are the ones the runs need: a restart resets the exit clock.

- `ReplayFollowsLoop`: `ReplayAgrees`, for `SpecReplayed`, from an invariant that says
  where the replay is at each await of a tick. Outside a tick the two agree; from
  the signals to the snapshot the loop is ahead by exactly the row it has not
  stored (`Ahead`), and at the snapshot playing that row catches up. The replay
  takes the decision as given by whether the loop rebalanced (`DecidedAgain`). The
  proof showed that a first version of `missed` was too weak: a restart that finds
  no snapshot but the event of an opening restores a position the replay does
  not have. The exploration of `loop_failures`, which has no crashes, could not.

## 5. The founder's side

Four modules, each of one group of tables and the functions that write them.
They share the database but no row that one writes and another reads, so
`FounderService` composes them into a specification in which a behaviour belongs to one
`part`, and every part is explored in full; `MCFounderService` is its instance. The replays and launches of sections
6 and 7, which the founder API also serves, are two more parts of that run. A
property of a part speaks of the behaviours of that part; `ServiceTypeOK` is the
types of whichever part moves.

**`FounderBot`** (`bot/bot.ts`, `service/pools.ts`, `ledger/registry.ts`). grammY
hands the bot one update of the founder after the other. `SendUpdate` is the
founder typing a command or tapping a card whose keyboard is still shown (of
any age); the handlers take `Head(inbox)`. `pending` is the prompt map in the
memory of the process, `cards` what was sent, `runs` the `ManagedPool` rows. A
handler is one action, except that a mode transition reads and checks
(`StartMove`) and writes (`FinishMove`) in two, since `transitionMode` writes by id
whatever the mode has become. `runSeq` is the flag `live` (slot 0 or not), and
`SlotTaken` its unique key. What may go wrong is the scenario of a behaviour:

- `net`: a reply fails, before or after it reached the chat, which decides
  whether a card is shown, armed and cleared;
- `db`: a query fails, before or after it took effect;
- `crash`: the process dies, forgets its prompts, and Telegram delivers every
  update since the last acknowledged batch again (`Restart`);
- `ops`: another caller of the service moves runs (`OpsRead`, `OpsWrite`).

Left out: the texts, `/status`, `/report` and the other commands that only read,
tenants (one founder), the validation of an address, and what the planner of
`/launchplan` answers. A nonce is the number of its card, since it is random;
a name is whatever the pool statistics say, and two pools may have one name.

**`Handoff`** (`service/handoff.ts`, `upsertTenant`). Callers of `redeemHandoff` race
for tokens. An action ends at each await: read the row, purge it if expired, the
two pre-checks that run at the same time (`PreCheck`, in either order), claim it
by deleting (`Won`), bind the chat, restore on error. `db` queries fail without
effect, `lost` ones take effect and report an error, `crash` ends every call.

**`Payouts`** (`service/addressChanges.ts`, `service/withdrawals.ts`) of one wallet.
`applyAddressChange` is a read and a commit, since its transaction does not lock
what it read. With `race` callers overlap; without it a call starts when the
last has ended, as the updates of one bot do. `Throw` ends a call at any await.
`Process` is the withdrawal worker, which is not in the repository yet.

**`Deposits`** (`deposit/poller.ts`). A poll lists the signatures that name its
wallet, newest `Limit`; reads them one by one, oldest first, skipping those the
node does not have; inserts one event after the other under the key (signature,
event index). `AbandonPoll` is an error or a crash anywhere.

### Runs

| run | instance | shows |
|---|---|---|
| `founder_service`, chat | two running pools of one name and a third, two sizes; five updates with `net`, three with `net` and a crash, four with `db` and a crash or with a second caller | types; one live run per pool; runs have the pool and size of the card tapped; a card acts once; a removal stops what it asked about; a stopped run stays so |
| `founder_service`, tokens | two tokens, accounts, chats and callers, one failing query | a token binds one chat; a token that bound nobody stays usable; a suspended account stays out |
| `founder_service`, funds | two callers, two changes between two addresses, two withdrawals, delay 1 of 2 ticks | the address moves after a confirmed delay only; one open withdrawal |
| `founder_service`, deposits | two pollers, two wallets, three transactions with SOL and tokens in both directions, two signatures a query | what a finished poll has read is on record; nothing is counted by two polls |
| `deposit_shared` | one transaction that pays SOL to both wallets | **violated**: the second wallet's deposit is dropped as a duplicate of the first |

Bounds: four updates are the shortest that make the interesting cases (add, size,
corrected size, a tap on the old card; or add, size, tap, tap again), three with a
tap that is delivered again, and five leave `net` one more tap; `MaxQueued` is 1,
since a longer queue reorders nothing: updates are handled in order.
`MaxBatch` 2 makes a batch of which one was acknowledged and one was not, and one
restart delivers a tap again. Two callers are enough for a race over one row, two
tokens for one caller to hold one while another is claimed. Two changes overlap
or follow each other; a wallet needs one signature more than `Limit` to lose one.

Some properties state their limits, because beyond them they are false:
`TokenBindsOnce` without lost answers (an upsert that took effect has its token
restored), `TokensSurvive` in a process that lives and gets its answers,
`OneOpenWithdrawal` without overlapping callers (find, then create, no key),
`StoppedIsFinal` and `RemovesAsAsked` with the bot as the only caller. The other
parts' variables stand still outside their part, so the run may end: deadlock is not
checked, since a chat in which the founder sends nothing more is at rest.

No liveness is stated: nothing here retries by itself, and whether a founder taps
again or a poller runs again is not in this code.

### Proofs

`FounderServiceProofs` states every property of the run for `ServiceSpec` and all
constants. For the chat it holds the proofs themselves
(`ChatRuns`: a behaviour of the service is one of the chat). For another part it
instantiates the part's own module of proofs the way `FounderService` instantiates
the part, shows operation by operation that both instances have the same
definitions (`TokensRun`, `WithdrawingRuns`, `ArrivalsRun`, `LaunchesRun`, `RerunsRun`), and
takes over its theorems: the step of another part is a stutter of this one. Replays
and launches have no state of their own in the other parts, so theirs are shown
for the behaviours of their part. `ServiceTypeCorrect` puts the types together.

The chat, for all pools, names, sizes, commands, scenarios, any number
of updates, crashes and redeliveries:

- `BotTypeOK` (the types that `ServiceTypeOK` demands of a chat) and `LiveRunsUnique`,
  from `SlotInv`: the types, rows that a transition is about to write exist
  (`MovesInRange`), and a run is live exactly while it is not stopped, one per pool
  (`Slotted`). One live run is not inductive without
  `live` and `mode` agreeing, which is what `setPoolMode` keeps by writing both.
- `StoppedStaysStopped`, from `ReadIsFresh`: with no other caller, the mode checked by
  `StartMove` is still the row's when `FinishMove` overwrites it.
- `RunsAreAsShown`, from `ShownInv`: a card's number is its nonce, an armed prompt
  says what the card of its nonce says, and every run agrees with its card, which
  never changes its text (`Reworded`).
- `CardsActAtMostOnce` and `RemovalsAreAsAsked`, from `ActInv`. A query whose answer is
  lost has acted and leaves its card armed, so that "a card that acted is not armed" is
  not invariant. What is (`SpentCard`): such a card finds its pool taken, or its argument
  means nothing that is not stopped, because a reference means one run
  (`MeansOne`), pausing and resuming leave that as it is (`KeepsMeaning`) and stopping the
  run leaves no other live one to be meant (`StopsMeant`). A removal in progress
  is the one its card is armed for (`MoveOfCard`), and until the card acts its argument
  means the run it asked about (`AskedMeans`). `CardsActAtMostOnce` assumes that no
  other caller moves pools where answers of the database get lost: the two
  together let a card act twice (see the comment of `CardsActOnce`), and no scenario
  of the run has both.

`HandoffProofs`, for all accounts, chats, tokens and callers. The constants'
assumption is a hypothesis of each theorem, as `Handoff` is instantiated:

- `TokenTypeOK`, from `Presenting`: a call in progress presents an issued token.
- `OneChatPerToken`, from `OnceInv`: a token that is stored, held by a caller that
  won it, or not issued has bound nobody, and a held one has one holder and no
  row. This is `TokenBindsOnce` of the run.
- `FailedCallsKeepTokens`, from `SurviveInv`: an issued token that has bound nobody is in its
  row, expired, burnt by two failures, or held by the one call that claimed it
  (`Kept`), and that call binds it or puts it back. This is `TokensSurvive` of the run.
- `SuspendedAreRefused`, from `BanInv`: a call made after a suspension never passes
  the account check (`Barred`), because suspensions are not lifted and a token
  keeps its account. This is `SuspendedStaysOut` of the run.

`PayoutsProofs`, for all addresses, callers and delays, again with the assumption as
a hypothesis:

- `PayoutsTypeOK`, which needs that a call applies a request that is there (`Applying`).
- `DelaysAreServed`, from `DelayInv`: a request carries the end of its delay from the
  start (`DelayNoted`), and one that a call has read as due is still confirmed and due
  when the call commits (`AppliesRipe`), whatever is confirmed again or applied
  meanwhile (`RowsStay`). This is `DelayIsServed` of the run.
- `WithdrawalsAreIdempotent`, from `OpenInv`: while callers do not overlap there is one
  call (`OneCall`), and what it found before its insert is still so (`FoundNone`).
  This is `OneOpenWithdrawal` of the run.

`DepositsProofs`, for all wallets, pollers, transactions and any limit of a query:

- `DepositsAreRecorded`, from `RecordInv`: rows and pending events are genuine, that is,
  deposits of their wallet and transaction (`Genuine`), and what a poll has read is
  recorded or pending (`Accounted`). It assumes that no transaction pays SOL to two
  wallets (`PaysOneWallet`): then a key identifies its event, and an insert that is
  skipped as a duplicate loses nothing (`KeyIdentifies`). `deposit_shared` is what
  happens without it. This is `DepositsRecorded` of the run.
- `DepositsAreCountedOnce`, from `Attributed`: the rows split into disjoint sets, one for each
  poll in progress, as large as what it has counted, and one as large as
  what was reported. No sum over the polls is needed. This is `CountedOnce`.
- `DepositsTypeOK`, which needs that pending events were extracted from a transaction of
  the poll's wallet (`PollTyped`).

## 6. Inventory and replays

`VirtualPosition` is what `ShadowStrategy` leaves out: the inventory of each bin
(`Distribute`, `Allocate`), its conversion when the price crosses a bin
(`Convert`), our share of a bin's fees (`FeesTick`), what compounds, rebalances and
exits cost and put back (`CompoundFunded`, `RebalanceFunded`, `ExitFunded`), what
buyers get (`Filled`, `Depth`, `AverageCapacity`), the cost estimate with its
fallbacks (`SwapCost`) and the benchmarks. It is built on the same position
record, so that a funded position has the clocks and gates of the loop's.

`Replay` is `runVariant`: one action, `Replayed`, plays one row for every variant
at once, since the runs share nothing but the row; the variants can then be
compared row by row. `Waits`, `Opened`, `Chosen` (explicit exits before the guarded
decision) and `Recorded` follow the loop body. `basket` and `gain` are history
variables: what the last allocation put in, and what marking alone has added.

Abstractions: amounts are integers. A bin is given whole units of base, and quote
that buys whole units, so that every conversion is exact as it is (up to
floating point) in the code; what does not divide stays in the reserve, where
the code keeps what its shape did not deploy. The Gaussian weights of a shape are
those of ranges of up to five bins, to the nearest whole. The time of a row is
its number: rows are not skipped or out of order, since the rows are read in
order of their time. `poolCreatedAtMs` is the time of the first row.

The part "replays" of `founder_service` plays every sequence of five rows, out of
five kinds (at the opening price, two bins above it with a large and with no
pool, one above, back with a dry pool and no quotes), through six variants: the
stamped strategy; the same under a launch guard; a reserve with an entry cost, a
maximum hold and an exit to quote; one that waits for its launch delay and has a
stop and a trailing stop; the permanent passive range; and one whose entry costs
more than its funds. It shows:

- `BooksBalance`: the reported NAV is the funds plus what the market added plus
  the fees less the costs, whatever was compounded, rebalanced or exited;
- `NeverBeatsHolding`: a price that leaves and comes back never makes inventory;
- `GuardDelaysNoExit`: the guard postpones rebalances and no exit;
- `BenchmarksAgree`: variants that anchored at one row have the same benchmarks for
  ever, although these are credited in two places of the loop;
- `DepthIsHonest`: an order as large as the depth shown fills and stays within the
  impact shown, and capacity is the largest order of which that is true.

Bounds: prices are powers of four, so that roots are whole (the full-range
benchmark) and one move of a bin is a large one; funds of 384 leave a remainder
in one shape and not in another. A limit of 0 percent is the price of the active
bin, 300 that of the next, and 100 lies between. Five rows are enough to wait,
open, collect, leave the range, serve a dwell of one, rebalance and exit; the
guard covers four of them and leaves the fifth free.

### Proofs (`ReplayProofs`)

For all prices that rise by whole factors from bin to bin, all weights, costs,
variants and rows, and any strategy parameters; carried over to the service as
`ServiceBooksBalance` and so on. `ReplayAssumption` also says that prices and weights
are given as far as a range can reach.

- Sums first. A total is a sum over the bins of a range, and the library defines it
  by recursion over subsets, about which no induction is available here. Each
  fact about sums (monotone, additive, nothing changes when one bin does not) is
  proved by the smallest subset for which it would fail
  (`SmallestCounterexample`), which exists because the strict order of the finite
  subsets is well-founded.
- `ReplayTypeOK`, from `ReplayInv`: the signals are signals and every run is sound
  (`RunSound`), in particular its position (`Sound`): an active one has a
  range with prices and weights, and its totals are the sums of its bins.
- `ReplayBooksBalance`, from `Accounted`: between two rows, the NAV at the bin of the last
  mark is the funds plus gain and fees less costs, cut at zero. An allocation puts
  back all it is given (what is deployed plus the reserve), because each budget
  is a quarter share and each bin gets its share rounded down.
- `ReplayNeverBeatsHolding`, from `Held`: there is an assignment of inventory to the
  bins, the one the last allocation made, against which each bin was only
  converted at its own price; below the active bin it holds quote, above it
  base (`Split`). The property itself is not inductive: it compares totals, and a
  crossing changes single bins.
- `ReplayGuardDelaysNoExit`, from `TwinsAgree`: two variants that differ in the guard only have the same
  status, opening time and exit times. Their ranges, inventories and NAVs differ,
  so the argument is that no exit reads them: without stops an exit depends on the
  holding time and the volume signals.
- `ReplayBenchmarksAgree`, from `AllDrawn`: when a run has drawn its benchmarks, and that each row
  since was credited once, in one place or the other of the loop body.

- `ReplayDepthIsHonest`, from the same invariant: an active position is `Stocked`, and
  the rest is about one position, one price and one limit (`PromisesHold`). The depth
  is the worth of a lowest part of the bins for sale, so an order for it takes
  those bins whole and no other (`PrefixFills`). The excess a bin charges over the
  limit rises with the bin, so once an order exceeds the limit on average every
  larger one does (`MoreCostsMore`: what is added comes from bins that exceed it),
  and there is one order from which on the limit is exceeded. `Bisected`: the search
  is a recursive function with a known solution (`SearchingExists`), and any
  solution returns that order from every span around it, by the shortest span for
  which it would not. Limits are naturals, as the code rejects the others
  (`position.ts:381`).

## 7. Launches

`PositionRange` is `positionRange.ts` and the known rents of `launchCosts.ts`.
`Launch` follows launches from the founder's amounts to the positions on the chain.

- Planning. `LaunchPlan` is the planner: the price rounded to the nearest bin
  (`ActiveBin`), the classic account and the funded range around it, the value, the
  known minimum, the verdict on the caps (`ReadyFor`). `Draft` reviews a plan and
  drafts it (`draftLaunchExecution`), with the preset of the cluster that must
  match; a report depends on nothing that changes, so both are one step. A draft
  replaces the one before it at any time no call is running, and everything the
  earlier one left on the chain, on its way there or in the rolling window stays.
- The requests, "create" and "open". A call of the pipeline is answered at once
  (`SubmitFound`: RECONCILED after a chain read, which only a row that is already
  there gets; `SubmitRefused`: the recipe, a cap or the simulation refuses), or it
  sends (`SubmitSent`) and ends in `Reconciles`, `GetsStuck` or `Throws`, possibly after
  `Resends`. STUCK requests may be submitted again. `ExecutionPipeline` has the steps
  of a call in full.
- The chain. `pools` has an entry for every preset and one for customizable pools,
  the addresses a draft derives. A chain read answers whether an account is at the
  address (`Occupied`), whoever made it and in whatever bin, and the recipe of an
  opening centers on the bin of the draft without comparing it with the pool's
  (`Builds`). A transaction lands whenever it likes or never (`Lands`, `IsLost`), also
  when its draft has been replaced; others make pools and swap (`PoolAppears`,
  `PoolMoves`).
- Money. Other executions spend the wallet and the caps (`ProjectSpends`,
  `OthersSpend`), and a day passes (`WindowPasses`).

Nothing under `src/` submits a draft. Its caller is taken to give every draft an
idempotency prefix of its own, to submit the requests of the latest draft only, one
call at a time, and the opening after the request for the pool was answered
RECONCILED. Left to `ExecutionPipeline`: the count of attempts, the parts of an
opening (its two transactions land as one here), UNKNOWN chain reads for
a row that is there, which leave the row as it is. Left out: the fee of a
transaction that lands and fails, and how much of either amount the program
takes when the price has left the bins (a position has what was offered).

The part "launch" plans two amounts, at a price that is rounded down (an account
in two bin arrays, worth 500) and at one that is rounded up (one array, worth 860),
at widths of one and four bins, with two presets, of which one matches, and the devnet
proxy without one. The project cap of 870 lies between the value of the larger and
its value with rent; foreign spending of 300 makes it, or the global cap of 1000,
stop others. A wallet of 285 holds exactly the amount and the reserve of the
smaller plan, but not the rent; one of 694 covers the minimum of either. There are
two drafts (`MaxDrafts`), so that the second finds what the first left behind, at
its own address or another, and one step of others (`MaxForeign`): one is enough to
make or move the pool of a draft at any point, to fill a window or to empty it;
with two TLC takes six times as long and finds nothing else. It
shows:

- `CapsForetell`: a plan within the caps trips none, also when its requests are
  submitted again, if nothing else is spent;
- `WalletKeepsGas`: once the position is open, a wallet that covered the known minimum
  keeps its gas reserve, less the network fees that the minimum leaves out, and any
  other lacks no more than the rent besides. The second half is what `checkReserve`
  with its old amounts achieves, and fails without it; that others spend from the
  wallet meanwhile is seen by nothing, so what they took is added back;
- `OpenedAsReviewed`: when the request to open is RECONCILED there is a position
  with the reviewed amounts and bins, inside its account, in a pool of the reviewed
  step and fee. It holds with the pools, positions and late transactions of earlier
  drafts, because a fresh row is not read from the chain: a request that finds its
  address taken before it sends is refused by the simulation. With a mutant that
  reads the chain for fresh rows too, a draft takes an earlier one's pool and
  position for its own. What nothing ensures is the price. If the pool was made, or
  moved, by others or by an earlier draft's late transaction after this draft
  (`disturbed`), the request for it is RECONCILED all the same and the position opens
  around the reviewed bin, wherever the pool's is. The property says then that the
  bins are the reviewed ones and, under a preset, the step and the fee too; that the
  pool has the reviewed price, in the middle of the funded bins, it says only of a
  pool that nobody disturbed.

### Proofs (`LaunchProofs`)

`FundedRangeFits`: for every width of an account and every active bin the check at
the end of `centeredFundedRange` never fails. `RentIsBounded`: a position touches one
array or two, which bounds what a launch costs and is why `LaunchAssumption`, that
the rent fits under the cap of a transaction, is about a handful of values.

The properties of the run follow from one invariant, `LaunchInv`, for all rising
prices, amounts, widths, presets, caps, rents and balances, and any number of
drafts, transactions in flight and steps of others:

- `Counted`: types; `Drafted`: a draft repeats the sound plan it was made from
  (`Faithful`, `Sound`);
- `InFlight`: what was sent belongs to a draft, the latest or an earlier one, and a
  position is only ever sent to a pool that is there;
- `OnChain`: what is on the chain was made by a draft that was submitted or by
  others, and a pool under a preset has its step and fee;
- `Own`: the first request of a draft is only sent while there is no pool at its
  address. From then on no position there, and none on its way there, is of another
  draft, and the pool is the draft's own unless somebody disturbs it;
- `Paid`: every lamport that left the wallet since the draft is accounted for;
- `Spent`: within `OnlyTheDraft` the rolling window holds no more than the requests
  of the draft; `Reserved`: an opening that was sent had its reserve checked.

From it:

- `PlansForetellCaps`: the sums of plan and pipeline are computed apart; with `Spent` the
  pipeline's is never larger.
- `MinimumKeepsGas`: from `Paid` and the rent the plan named for the same range, and
  from `Reserved`.
- `PositionsAreReviewed`: from `Own` the position at the draft's address is the
  draft's. `ActiveBin` picks a bin at least as near as any other. The two
  candidates are an extreme of the bins below and one of those above; that they
  exist is by well-foundedness, that no third bin is nearer by the order of the
  prices.
- `LaunchTypeOK`.

## 8. What is not modelled

Cryptography, transports, decoding, formatting and offline experiments (custody,
pollers, token safety, reports, lab, tuning, configuration) have no order or
interleaving of their own to get wrong. The publication of strategy versions is
step 7 of the plan. The alerting of the loop (failure counter, EXIT and
divergence messages) and its daily report, whose cursor is written after the
message is sent, so that a crash between the two sends it again and a swallowed
send error loses it, are left out because nothing reads them back. The lifecycle
that `evaluateDepositState` and `confirmDeposit` give to deposits is called by no
process yet. Telegram's own ordering, the RPC's index and Postgres are modelled
from how the code uses them.

Of planning and replay: floating point. The check of the inventory policy
(`virtual/position.ts:32`) may refuse the planner's two shares
(`launchPlanner.ts:250`) when they exceed 1 by rounding alone, and `toAtomicAmount`
a sum whose floating value has more than nine decimals
(`launchExecutionDraft.ts:132`); the models compute with exact numbers and have
neither.
Durability checkpoints, bin-step sensitivity, mint readiness, the texts that
compare shapes, slippage of the DLMM transactions and the command line of the
replay are left out: each is a pure function whose result no other step uses.

Liveness under fairness is out of reach of the proof system and stays with TLC
(`EveryCallReturns`, `KillSwitchDrains`).
