---------------------------- MODULE FounderService ----------------------------
(***************************************************************************)
(* The founder's side of lp-bot: the chat (FounderBot), the tokens that    *)
(* link it to an account (Handoff), where the funds go (Payouts), which    *)
(* have come (Deposits), the replays of a pool (Replay) and the launch of  *)
(* one (Launch).  They share the database but no row that one writes and   *)
(* another reads, so a behaviour exercises one of them: part.              *)
(***************************************************************************)
EXTENDS FounderBot, Integers

CONSTANTS
  Parts,  \* which of them, in this instance
  None,   \* no account, no chat, no token, no wallet, no preset
  Account, Chat, Token, Redeemer, TokenScenarios, MaxFailures,        \* Handoff
  Address, Registered, Caller, PayoutScenarios,                       \* Payouts
  Delay, MaxTime, MaxChanges, MaxWithdrawals,
  Wallet, Poller, Transactions, MaxListed,                            \* Deposits
  HalfWidth, OorDwell, Overshoot, SettleTime, SettleBand, ExitDwell,  \* Replay
  MinFees, MinSamples, Slippage, Recapture, TxCount, Weight,
  ReplayPrice, ReplayRoot, ReplayRows, Variants, Funds, Limits, MaxRows,
  LaunchPrice, LaunchAmounts, Widths, BinStep, BaseFee, Gas, Presets, \* Launch
  ClassicWidth, BinsPerArray, PoolRent, ReserveRent, PositionRent, ArrayRent,
  TransactionCap, ProjectCap, GlobalCap, NetworkFee, Balances, Spendings, ForeignBins,
  MaxDrafts, MaxForeign

VARIABLES
  part,
  tokenEnv, stored, issuedTo, expired, tenants, redeem, failures, bound, burnt,
  payoutEnv, now, wallet, changes, withdrawals, call,
  confirmed, rows, poll, reported, promised,
  played, signals, replays,
  draft, drafts, requests, calling, answer, rolling,
  spendable, drained, pools, positions, flying, disturbed, foreign

tokenVars == <<tokenEnv, stored, issuedTo, expired, tenants, redeem, failures, bound, burnt>>
payoutVars == <<payoutEnv, now, wallet, changes, withdrawals, call>>
depositVars == <<confirmed, rows, poll, reported, promised>>
replayVars == <<played, signals, replays>>
launchVars == <<draft, drafts, requests, calling, answer, rolling,
                spendable, drained, pools, positions, flying, disturbed, foreign>>

serviceVars == <<part, vars, tokenVars, payoutVars, depositVars, replayVars, launchVars>>

Tokens == INSTANCE Handoff WITH Scenarios <- TokenScenarios, env <- tokenEnv

Withdrawing == INSTANCE Payouts WITH Scenarios <- PayoutScenarios, env <- payoutEnv

Arrivals == INSTANCE Deposits WITH Effect <- Transactions, Limit <- MaxListed

Reruns == INSTANCE Replay WITH
  Price <- ReplayPrice, Root <- ReplayRoot, Rows <- ReplayRows, runs <- replays

Launches == INSTANCE Launch WITH Price <- LaunchPrice, Amounts <- LaunchAmounts, Proxy <- None

ASSUME ServiceAssumption ==
  /\ Tokens!HandoffAssumption
  /\ Withdrawing!PayoutsAssumption
  /\ Arrivals!DepositsAssumption
  /\ Reruns!StrategyAssumption
  /\ Reruns!ReplayAssumption
  /\ Launches!LaunchAssumption

SomeOf(S) == CHOOSE s \in S : TRUE

ServiceInit ==
  /\ part \in Parts
  /\ Init /\ (part # "chat" => env = SomeOf(Scenarios))
  /\ Tokens!Init /\ (part # "tokens" => tokenEnv = SomeOf(TokenScenarios))
  /\ Withdrawing!Init /\ (part # "funds" => payoutEnv = SomeOf(PayoutScenarios))
  /\ Arrivals!Init
  /\ IF part = "replays" THEN Reruns!Init ELSE played = 0 /\ signals = 0 /\ replays = 0
  /\ IF part = "launch" THEN Launches!Init
     ELSE /\ draft = 0 /\ drafts = 0 /\ requests = 0 /\ calling = 0 /\ answer = 0
          /\ rolling = 0 /\ spendable = 0 /\ drained = 0 /\ pools = 0 /\ positions = 0
          /\ flying = 0 /\ disturbed = 0 /\ foreign = 0

ServiceNext ==
  \/ /\ part = "chat"
     /\ Next
     /\ UNCHANGED <<part, tokenVars, payoutVars, depositVars, replayVars, launchVars>>
  \/ /\ part = "tokens"
     /\ Tokens!Next
     /\ UNCHANGED <<part, vars, payoutVars, depositVars, replayVars, launchVars>>
  \/ /\ part = "funds"
     /\ Withdrawing!Next
     /\ UNCHANGED <<part, vars, tokenVars, depositVars, replayVars, launchVars>>
  \/ /\ part = "deposits"
     /\ Arrivals!Next
     /\ UNCHANGED <<part, vars, tokenVars, payoutVars, replayVars, launchVars>>
  \/ /\ part = "replays"
     /\ Reruns!Next
     /\ UNCHANGED <<part, vars, tokenVars, payoutVars, depositVars, launchVars>>
  \/ /\ part = "launch"
     /\ Launches!Next
     /\ UNCHANGED <<part, vars, tokenVars, payoutVars, depositVars, replayVars>>

ServiceSpec == ServiceInit /\ [][ServiceNext]_serviceVars

(* The part that moves keeps its types.                                    *)
ServiceTypeOK ==
  /\ part = "chat"     => TypeOK
  /\ part = "tokens"   => Tokens!TypeOK
  /\ part = "funds"    => Withdrawing!TypeOK
  /\ part = "deposits" => Arrivals!TypeOK
  /\ part = "replays"  => Reruns!TypeOK
  /\ part = "launch"   => Launches!TypeOK

(* A handoff token binds one chat, once (Handoff; redeemHandoff).          *)
TokenBindsOnce == part = "tokens" => Tokens!TokenBindsOnce

(* A token that let nobody in stays usable (Handoff; redeemHandoff).       *)
TokensSurvive == part = "tokens" => Tokens!TokensSurvive

(* No chat is linked to an account that was suspended before (Handoff;     *)
(* redeemHandoff).                                                         *)
SuspendedStaysOut == Tokens!SuspendedStaysOut

(* The withdrawal address changes after the delay only (Payouts;           *)
(* applyAddressChange).                                                    *)
DelayIsServed == Withdrawing!DelayIsServed

(* Withdrawals are idempotent (Payouts; requestFullWithdrawal).            *)
OneOpenWithdrawal == part = "funds" => Withdrawing!OneOpenWithdrawal

(* What a poll has read is on record (Deposits; poll, append).             *)
DepositsRecorded == part = "deposits" => Arrivals!DepositsRecorded

(* No deposit is counted twice (Deposits; append).                         *)
CountedOnce == part = "deposits" => Arrivals!CountedOnce

(* The NAV of a replay is accounted for (Replay; positionNavUsd).          *)
BooksBalance == part = "replays" => Reruns!BooksBalance

(* Impermanent loss is never a gain (Replay; markPosition).                *)
NeverBeatsHolding == part = "replays" => Reruns!NeverBeatsHolding

(* The launch guard delays no exit (Replay; applyLaunchGuard).             *)
GuardDelaysNoExit == part = "replays" => Reruns!GuardDelaysNoExit

(* Replays of the same rows agree on the benchmarks (Replay; runVariant).  *)
BenchmarksAgree == part = "replays" => Reruns!BenchmarksAgree

(* Buyers find the depth they are promised (Replay; simulateBuyerSwap).    *)
DepthIsHonest == part = "replays" => Reruns!DepthIsHonest

(* A plan within the caps trips none (Launch; assessLaunchExecutionCaps).  *)
CapsForetell == part = "launch" => Launches!CapsForetell

(* The gas reserve is kept (Launch; launchPlanner.ts, checkReserve).       *)
WalletKeepsGas == part = "launch" => Launches!WalletKeepsGas

(* What is open was reviewed (Launch; draftLaunchExecution, open).         *)
OpenedAsReviewed == part = "launch" => Launches!OpenedAsReviewed

=============================================================================
