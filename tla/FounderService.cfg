\* The founder's side of the service: the chat with failing replies and
\* queries, crashes with redelivery and a second caller; handoff tokens;
\* withdrawals and address changes; deposits; replays; launches.
CONSTANTS
  p1 = p1
  p2 = p2
  p3 = p3
  thePool = thePool
  other = other
  small = small
  large = large
  NoRef = NoRef
  Pool = {p1, p2, p3}
  Size = {small, large}
  Name <- MCName
  InitialRuns <- MCInitialRuns
  Scenarios <- MCScenarios
  Typed <- MCTyped
  MaxUpdates <- MCMaxUpdates
  MaxQueued = 1
  MaxBatch = 2
  MaxRestarts = 1
  Account = {alice, bob}
  Chat = {chat1, chat2}
  Token = {token1, token2}
  Redeemer = {redeemer1, redeemer2}
  TokenScenarios = {{"db"}, {"lost"}, {"crash"}}
  MaxFailures = 1
  Address = {home, away}
  Registered = home
  Caller = {caller1, caller2}
  PayoutScenarios = {{}, {"race"}}
  Delay = 1
  MaxTime = 2
  MaxChanges = 2
  MaxWithdrawals = 2
  wallet1 = wallet1
  wallet2 = wallet2
  Wallet = {wallet1, wallet2}
  Poller = {poller1, poller2}
  MaxListed = 2
  HalfWidth = 1
  OorDwell = 1
  Overshoot = 1
  SettleTime = 1
  SettleBand = 0
  ExitDwell = 2
  MinFees = 20
  MinSamples = 1
  Slippage = 10
  Recapture = 10
  TxCount <- MCTxCount
  Weight <- MCWeight
  ReplayPrice <- MCReplayPrice
  ReplayRoot <- MCReplayRoot
  ReplayRows <- MCReplayRows
  Variants <- MCVariants
  Funds = 384
  Limits = {0, 100, 300}
  MaxRows = 5
  LaunchPrice <- MCLaunchPrice
  LaunchAmounts <- MCLaunchAmounts
  Widths = {1, 4}
  BinStep = 50
  BaseFee = 30
  Gas = 25
  Presets <- MCPresets
  ClassicWidth = 4
  BinsPerArray = 4
  PoolRent = 2
  ReserveRent = 1
  PositionRent = 3
  ArrayRent = 4
  TransactionCap = 900
  ProjectCap = 870
  GlobalCap = 1000
  NetworkFee = 1
  Balances = {285, 694}
  Spendings = {300}
  ForeignBins = {3}
  MaxDrafts = 2
  MaxForeign = 1
  None = None
  Transactions <- Chain
  Parts = {"chat", "tokens", "funds", "deposits", "replays", "launch"}

SPECIFICATION ServiceSpec

INVARIANT OneLiveRun
INVARIANT AddsAsShown
INVARIANT CardsActOnce
INVARIANT ServiceTypeOK
INVARIANT TokenBindsOnce
INVARIANT TokensSurvive
INVARIANT OneOpenWithdrawal
INVARIANT DepositsRecorded
INVARIANT CountedOnce
INVARIANT BooksBalance
INVARIANT NeverBeatsHolding
INVARIANT GuardDelaysNoExit
INVARIANT BenchmarksAgree
INVARIANT DepthIsHonest
INVARIANT CapsForetell
 
 
PROPERTY RemovesAsAsked
PROPERTY StoppedIsFinal
PROPERTY SuspendedStaysOut
PROPERTY DelayIsServed

CHECK_DEADLOCK FALSE
