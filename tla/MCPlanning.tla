----------------------------- MODULE MCPlanning -----------------------------
(***************************************************************************)
(* Values for two parts of the founder's service: what is replayed         *)
(* (Replay), and which launches are planned (Launch).                      *)
(***************************************************************************)
EXTENDS Integers, TLC

(* Parameters of a replayed strategy (ShadowStrategy, VirtualPosition)     *)
MCTxCount == [REBALANCE |-> 3, COMPOUND |-> 1, EXIT |-> 2]

(* exp(-d*d/2) and its inverse to the nearest eighth and half: what        *)
(* shapeWeight yields for up to five bins, whose standard deviation is 1.  *)
MCWeight ==
  [SPOT    |-> [d \in 0..7 |-> 2],
   CURVE   |-> 0 :> 8 @@ 1 :> 5 @@ 2 :> 1 @@ [d \in 3..7 |-> 0],
   BID_ASK |-> 0 :> 2 @@ 1 :> 3 @@ 2 :> 15 @@ [d \in 3..7 |-> 180]]

-----------------------------------------------------------------------------
(* Replays: prices are powers of four, so that their roots are whole.      *)

MCReplayPrice == [b \in 0..4 |-> 4^b]
MCReplayRoot  == [b \in 0..4 |-> 2^b]

Plain == [shape |-> "SPOT", policy |-> [base |-> 2, quote |-> 2], guard |-> 0, delay |-> 0,
          anchored |-> FALSE, hodl |-> 2, entryCost |-> 0, stop |-> 0, trail |-> 0, hold |-> 0,
          target |-> "BALANCED", atStart |-> FALSE, width |-> 0, passive |-> FALSE]

(* The stamped strategy, the same under a launch guard, a scenario of the  *)
(* lab with a reserve and an entry cost, one that waits and stops, the     *)
(* permanent position, and one that costs more to enter than it has.       *)
MCVariants ==
  {Plain,
   [Plain EXCEPT !.guard = 4],
   [Plain EXCEPT !.shape = "BID_ASK", !.policy = [base |-> 1, quote |-> 2], !.anchored = TRUE,
                 !.atStart = TRUE, !.entryCost = 8, !.hold = 4, !.target = "QUOTE"],
   [Plain EXCEPT !.shape = "CURVE", !.anchored = TRUE, !.delay = 2, !.stop = 20, !.trail = 10],
   [Plain EXCEPT !.atStart = TRUE, !.width = 3, !.passive = TRUE],
   [Plain EXCEPT !.entryCost = 400]}

Quoted   == [notional |-> 40, out |-> 36, impact |-> 10, fee |-> 1, rent |-> 2]
Impact   == [Quoted EXCEPT !.out = -1]
NoQuotes == [Impact EXCEPT !.impact = -1]

Sample(bin, fees, volume, tvl, apr, costs) ==
  [bin |-> bin, fees |-> fees, volume |-> volume, tvl |-> tvl, liq |-> 32, apr |-> apr,
   costs |-> costs]

(* Moves of one and of two bins, into and out of a range of three.         *)
MCReplayRows ==
  {Sample(1, 48, "healthy", 96, 400, Quoted),   Sample(3, 48, "healthy", 960, 400, Quoted),
   Sample(3, 0, "low", 0, -1, NoQuotes),        Sample(2, 48, "unknown", 960, 400, Impact),
   Sample(1, 48, "low", 96, 400, NoQuotes)}

-----------------------------------------------------------------------------
(* Launches: prices are powers of two, bin 0 at 4 units of SOL.            *)

MCLaunchPrice == [b \in -2..5 |-> 2^(b + 2)]

Deposit(token, sol) == [token |-> token, sol |-> sol]

(* A price that rounds down, funded by an account of two bin arrays, and   *)
(* one that rounds up, in the middle of one array                          *)
MCLaunchAmounts == {Deposit(60, 260), Deposit(30, 380)}

OnCluster(step, fee) ==
  [step |-> step, fee |-> fee, function |-> "LIQUIDITY_MINING", collects |-> "INPUT_ONLY"]

(* The service asks for the first; a pool that others make at the address  *)
(* without a preset may have the step of the second.                       *)
MCPresets == {OnCluster(50, 30), OnCluster(25, 30)}

=============================================================================
