----------------------------- MODULE LaunchProofs ------------------------------
(***************************************************************************)
(* What a founder who reviews a launch can rely on, for any prices of the  *)
(* bins, amounts, widths, presets, caps, rents and balances.  Launch is    *)
(* instantiated by its users, so its assumption is a hypothesis here.      *)
(***************************************************************************)
EXTENDS Launch, WellFoundedInduction, TLAPS

-----------------------------------------------------------------------------
(* Where the ranges of positionRange.ts lie, for every width of a position *)
(* account and every active bin.                                           *)

(* The check that ends centeredFundedRange never fails: whatever number of *)
(* bins is funded, up to the width of the account, they lie inside it, and *)
(* hold the active bin.                                                    *)
THEOREM FundedRangeFits ==
  ASSUME RangeAssumption, NEW active \in Int, NEW total \in 1..ClassicWidth
  PROVE  /\ Within(FundedRange(active, total), ClassicRange(active))
         /\ Holds(FundedRange(active, total), active)
         /\ FundedRange(active, total).upper - FundedRange(active, total).lower + 1 = total
<1>1. total \in Nat \ {0} /\ ClassicWidth \in Nat \ {0} /\ total <= ClassicWidth
  BY DEF RangeAssumption
<1>2. total \div 2 <= ClassicWidth \div 2 /\ total \div 2 \in Nat /\ ClassicWidth \div 2 \in Nat
  BY <1>1
<1>3. total - total \div 2 <= ClassicWidth - ClassicWidth \div 2 /\ total \div 2 <= total - 1
  BY <1>1
<1> QED
  BY <1>1, <1>2, <1>3 DEF Within, Holds, FundedRange, ClassicRange

(* The arrays of two bins lie in the order of the bins.                    *)
LEMMA ArraysInOrder ==
  ASSUME NEW width \in Nat \ {0}, NEW lower \in Int, NEW upper \in Int, lower <= upper
  PROVE  lower \div width <= upper \div width
<1> DEFINE l == lower \div width
<1> DEFINE u == upper \div width
<1>1. l \in Int /\ width * l <= lower /\ lower < width * l + width
  OBVIOUS
<1>2. u \in Int /\ width * u <= upper /\ upper < width * u + width
  OBVIOUS
<1> HIDE DEF l, u
<1>3. SUFFICES ASSUME u + 1 <= l PROVE FALSE
  BY <1>1, <1>2 DEF l, u
<1>4. width * (u + 1) <= width * l
  BY <1>3, <1>1, <1>2
<1> QED BY <1>4, <1>1, <1>2

(* Bins closer than the width of an array lie in one or in two.            *)
LEMMA ArraysOfNeighbours ==
  ASSUME NEW width \in Nat \ {0}, NEW lower \in Int, NEW upper \in Int,
         lower <= upper, upper - lower < width
  PROVE  /\ lower \div width <= upper \div width
         /\ upper \div width <= lower \div width + 1
<1> DEFINE l == lower \div width
<1> DEFINE u == upper \div width
<1>1. l \in Int /\ width * l <= lower /\ lower < width * l + width
  OBVIOUS
<1>2. u \in Int /\ width * u <= upper /\ upper < width * u + width
  OBVIOUS
<1> HIDE DEF l, u
<1>3. l <= u
  BY ArraysInOrder DEF l, u
<1>4. u <= l + 1
  <2>1. SUFFICES ASSUME l + 2 <= u PROVE FALSE
    BY <1>1, <1>2
  <2>2. width * (l + 2) <= width * u
    BY <2>1, <1>1, <1>2
  <2> QED BY <2>2, <1>1, <1>2
<1> QED BY <1>3, <1>4 DEF l, u

(* A position account touches one array or two, so that what opening a     *)
(* pool costs is bounded for every price (estimateInitialLiquidityCost):   *)
(* the bound LaunchAssumption puts under the cap of a transaction.         *)
THEOREM RentIsBounded ==
  ASSUME RangeAssumption, ClassicWidth <= BinsPerArray, NEW active \in Int
  PROVE  /\ BinArrays(ClassicRange(active)) \in {1, 2}
         /\ KnownRent(ClassicRange(active)) <= CreationRent + PositionRent + 2 * ArrayRent
<1> DEFINE lower == ClassicRange(active).lower
<1> DEFINE upper == ClassicRange(active).upper
<1>1. ClassicWidth \in Nat \ {0} /\ BinsPerArray \in Nat \ {0}
      /\ PoolRent \in Nat /\ ReserveRent \in Nat /\ PositionRent \in Nat /\ ArrayRent \in Nat
  BY DEF RangeAssumption
<1>2. lower \in Int /\ upper \in Int /\ lower <= upper /\ upper - lower < BinsPerArray
  BY <1>1 DEF ClassicRange
<1> HIDE DEF lower, upper
<1>3. /\ lower \div BinsPerArray <= upper \div BinsPerArray
      /\ upper \div BinsPerArray <= lower \div BinsPerArray + 1
  BY <1>1, <1>2, ArraysOfNeighbours
<1>4. lower \div BinsPerArray \in Int /\ upper \div BinsPerArray \in Int
  BY <1>1, <1>2
<1>5. BinArrays(ClassicRange(active)) \in {1, 2}
  BY <1>3, <1>4 DEF BinArrays, BinArrayIndex, lower, upper
<1>6. BinArrays(ClassicRange(active)) * ArrayRent <= 2 * ArrayRent
      /\ BinArrays(ClassicRange(active)) * ArrayRent \in Nat
  BY <1>5, <1>1
<1> HIDE DEF BinArrays
<1>7. CreationRent \in Nat
  BY <1>1 DEF CreationRent
<1> QED
  BY <1>1, <1>5, <1>6, <1>7 DEF KnownRent, OpeningRent

-----------------------------------------------------------------------------
(* Extremes of finite sets of integers *)

LEMMA LeastOf ==
  ASSUME NEW S \in SUBSET Nat, S # {}
  PROVE  \E x \in S : \A y \in S : x <= y
<1> DEFINE Before == {s \in Nat \X Nat : s[1] < s[2]}
<1>1. IsWellFoundedOn(Before, Nat)
  BY NatLessThanWellFounded DEF OpToRel
<1>2. \A x, y \in Nat : y < x => <<y, x>> \in Before
  OBVIOUS
<1> HIDE DEF Before
<1>3. PICK x \in S : \A y \in S : <<y, x>> \notin Before
  BY <1>1, WFMin
<1>4. x \in Nat /\ \A y \in S : y \in Nat /\ ~(y < x)
  BY <1>2, <1>3
<1>5. \A y \in S : x <= y
  BY <1>4
<1> QED BY <1>5

LEMMA Extremes ==
  ASSUME NEW low \in Int, NEW high \in Int, NEW S \in SUBSET (low..high), S # {}
  PROVE  /\ Max(S) \in S /\ \A y \in S : y <= Max(S)
         /\ Min(S) \in S /\ \A y \in S : Min(S) <= y
<1>1. \E x \in S : \A y \in S : x >= y
  <2> DEFINE T == {high - x : x \in S}
  <2>1. T \in SUBSET Nat /\ T # {}
    <3>1. \A x \in S : high - x \in Nat
      OBVIOUS
    <3> QED BY <3>1
  <2>2. PICK t \in T : \A u \in T : t <= u
    BY <2>1, LeastOf
  <2>3. PICK x \in S : t = high - x
    BY <2>2
  <2>4. \A y \in S : high - x <= high - y
    BY <2>2, <2>3
  <2> QED BY <2>4
<1>2. \E x \in S : \A y \in S : x <= y
  <2> DEFINE T == {x - low : x \in S}
  <2>1. T \in SUBSET Nat /\ T # {}
    OBVIOUS
  <2>2. PICK t \in T : \A u \in T : t <= u
    BY <2>1, LeastOf
  <2>3. PICK x \in S : t = x - low
    BY <2>2
  <2>4. \A y \in S : x - low <= y - low
    BY <2>2, <2>3
  <2> QED BY <2>4
<1>3. Max(S) \in S /\ \A y \in S : Max(S) >= y
  BY <1>1 DEF Max
<1>4. Min(S) \in S /\ \A y \in S : Min(S) <= y
  BY <1>2 DEF Min
<1> QED BY <1>3, <1>4

LEMMA Magnitude ==
  ASSUME NEW d \in Int
  PROVE  Max({d, -d}) = IF d >= 0 THEN d ELSE -d
<1>1. \A x \in {d, -d} : (\A y \in {d, -d} : x >= y) => x = IF d >= 0 THEN d ELSE -d
  OBVIOUS
<1>2. \E x \in {d, -d} : \A y \in {d, -d} : x >= y
  OBVIOUS
<1> QED BY <1>1, <1>2 DEF Max

-----------------------------------------------------------------------------
(* The reviewed plan *)

LEMMA Assumed ==
  ASSUME LaunchAssumption
  PROVE  /\ DOMAIN Price \subseteq Int
         /\ \A b \in DOMAIN Price : Price[b] \in Nat \ {0}
         /\ \A a, b \in DOMAIN Price : a <= b => Price[a] <= Price[b]
         /\ \E low, high \in Int : DOMAIN Price = low..high
<1>1. PICK low \in DOMAIN Price, high \in DOMAIN Price : Price \in [low..high -> Nat \ {0}]
  BY DEF LaunchAssumption
<1>2. \A a, b \in DOMAIN Price : a < b => Price[a] < Price[b]
  BY DEF LaunchAssumption
<1>3. DOMAIN Price = low..high /\ low \in Int /\ high \in Int /\ \A b \in DOMAIN Price : Price[b] \in Nat \ {0}
  BY <1>1 DEF LaunchAssumption
<1>4. ASSUME NEW a \in DOMAIN Price, NEW b \in DOMAIN Price, a <= b
      PROVE  Price[a] <= Price[b]
  BY <1>2, <1>3, <1>4
<1> QED BY <1>3, <1>4

(* planMeteoraBinPrice finds the representable price nearest to the        *)
(* intended one.                                                           *)
LEMMA ActiveIsNearest ==
  ASSUME LaunchAssumption, NEW amount \in Amounts, Priced(amount)
  PROVE  /\ ActiveBin(amount) \in DOMAIN Price
         /\ \A bin \in DOMAIN Price :
              Deviation(ActiveBin(amount), amount) <= Deviation(bin, amount)
<1> DEFINE lower == Max(BinsBelow(amount))
<1> DEFINE upper == Min(BinsAbove(amount))
<1> DEFINE Off(bin) == Price[bin] * amount.token - amount.sol
<1>1. PICK low \in Int, high \in Int : DOMAIN Price = low..high
  BY Assumed
<1>2. amount.token \in Nat \ {0} /\ amount.sol \in Nat \ {0}
  BY DEF LaunchAssumption
<1>3. /\ BinsBelow(amount) \in SUBSET (low..high) /\ BinsBelow(amount) # {}
      /\ BinsAbove(amount) \in SUBSET (low..high) /\ BinsAbove(amount) # {}
  BY <1>1 DEF BinsBelow, BinsAbove, Priced
<1>4. /\ lower \in BinsBelow(amount) /\ \A b \in BinsBelow(amount) : b <= lower
      /\ upper \in BinsAbove(amount) /\ \A b \in BinsAbove(amount) : upper <= b
  BY <1>3, Extremes
<1> HIDE DEF lower, upper
<1>5. \A bin \in DOMAIN Price : Off(bin) \in Int
  BY <1>2, Assumed
<1>6. \A bin \in DOMAIN Price :
        Deviation(bin, amount) = IF Off(bin) >= 0 THEN Off(bin) ELSE -Off(bin)
  BY <1>5, Magnitude DEF Deviation
<1>7. ASSUME NEW a \in DOMAIN Price, NEW b \in DOMAIN Price, a <= b
      PROVE  Off(a) <= Off(b)
  <2>1. Price[a] \in Nat /\ Price[b] \in Nat /\ Price[a] <= Price[b]
    BY <1>7, Assumed
  <2>2. Price[a] * amount.token <= Price[b] * amount.token
    BY <2>1, <1>2
  <2> QED BY <2>1, <2>2, <1>2
<1>8. /\ lower \in DOMAIN Price /\ upper \in DOMAIN Price
      /\ \A bin \in DOMAIN Price : Off(bin) <= 0 => bin <= lower
      /\ \A bin \in DOMAIN Price : Off(bin) >= 0 => upper <= bin
      /\ Off(lower) <= 0 /\ Off(upper) >= 0
  <2>1. \A bin \in DOMAIN Price :
          Price[bin] * amount.token \in Int /\ (bin \in BinsBelow(amount) <=> Off(bin) <= 0)
          /\ (bin \in BinsAbove(amount) <=> Off(bin) >= 0)
    BY <1>2, Assumed DEF BinsBelow, BinsAbove
  <2>2. BinsBelow(amount) \subseteq DOMAIN Price /\ BinsAbove(amount) \subseteq DOMAIN Price
    BY <1>1, <1>3
  <2> QED BY <2>1, <2>2, <1>4
<1> HIDE DEF Off
<1>9. ASSUME NEW bin \in DOMAIN Price
      PROVE  \/ Deviation(lower, amount) <= Deviation(bin, amount)
             \/ Deviation(upper, amount) <= Deviation(bin, amount)
  <2>1. CASE Off(bin) <= 0
    <3>1. Off(bin) <= Off(lower)
      BY <2>1, <1>7, <1>8
    <3> QED BY <3>1, <2>1, <1>5, <1>6, <1>8
  <2>2. CASE Off(bin) >= 0
    <3>1. Off(upper) <= Off(bin)
      BY <2>2, <1>7, <1>8
    <3> QED BY <3>1, <2>2, <1>5, <1>6, <1>8
  <2> QED BY <2>1, <2>2, <1>5
<1>10. \A bin \in DOMAIN Price : Deviation(bin, amount) \in Int
  BY <1>5, <1>6
<1>11. ActiveBin(amount) = IF Deviation(lower, amount) <= Deviation(upper, amount)
                           THEN lower ELSE upper
  BY DEF ActiveBin, lower, upper
<1> QED BY <1>8, <1>9, <1>10, <1>11

(* What a plan under review promises.                                      *)
Sound(p) ==
  /\ p.amount \in Amounts
  /\ p.active \in DOMAIN Price
  /\ p.account = ClassicRange(p.active)
  /\ p.rent = CreationRent + OpeningRent(p.account)
  /\ p.rent <= TransactionCap
  /\ p.value \in Nat
  /\ p.minimum = p.amount.sol + Gas + p.rent
  /\ p.within = ReadyFor(p.rent, p.value)
  /\ p.step \in Nat /\ p.fee \in Nat
  /\ \A bin \in DOMAIN Price : Deviation(p.active, p.amount) <= Deviation(bin, p.amount)
  /\ Holds(p.funded, p.active)
  /\ Within(p.funded, p.account)

LEMMA PlanIsSound ==
  ASSUME LaunchAssumption, NEW amount \in Amounts, NEW width \in Widths, Priced(amount)
  PROVE  Sound(LaunchPlan(amount, width))
<1> DEFINE p == LaunchPlan(amount, width)
<1> DEFINE active == ActiveBin(amount)
<1>1. /\ p.amount = amount /\ p.active = active /\ p.account = ClassicRange(active)
      /\ p.funded = FundedRange(active, width) /\ p.rent = KnownRent(ClassicRange(active))
      /\ p.value = Value(amount)
      /\ p.minimum = amount.sol + Gas + KnownRent(ClassicRange(active))
      /\ p.within = ReadyFor(KnownRent(ClassicRange(active)), Value(amount))
      /\ p.step = BinStep /\ p.fee = BaseFee
  BY DEF LaunchPlan
<1> HIDE DEF p
<1>2. active \in DOMAIN Price /\ active \in Int
  BY ActiveIsNearest, Assumed
<1>3. \A bin \in DOMAIN Price : Deviation(active, amount) <= Deviation(bin, amount)
  BY ActiveIsNearest
<1>4. KnownRent(ClassicRange(active)) <= TransactionCap /\ width \in 1..ClassicWidth
      /\ RangeAssumption /\ BinStep \in Nat /\ BaseFee \in Nat
  BY <1>2 DEF LaunchAssumption
<1>5. Holds(FundedRange(active, width), active)
      /\ Within(FundedRange(active, width), ClassicRange(active))
  BY <1>2, <1>4, FundedRangeFits
<1>6. Value(amount) \in Nat
  <2>1. amount.token \in Nat /\ amount.sol \in Nat /\ Price[active] \in Nat
    BY <1>2, Assumed DEF LaunchAssumption
  <2> QED BY <2>1 DEF Value
<1>7. KnownRent(ClassicRange(active)) = CreationRent + OpeningRent(ClassicRange(active))
  BY DEF KnownRent
<1> HIDE DEF active
<1> QED BY <1>1, <1>2, <1>3, <1>4, <1>5, <1>6, <1>7 DEF Sound, p

(* What the accounts cost is never negative.                               *)
LEMMA RentType ==
  ASSUME LaunchAssumption, NEW active \in Int
  PROVE  CreationRent \in Nat /\ OpeningRent(ClassicRange(active)) \in Nat
<1> DEFINE lower == ClassicRange(active).lower
<1> DEFINE upper == ClassicRange(active).upper
<1>1. /\ ClassicWidth \in Nat \ {0} /\ BinsPerArray \in Nat \ {0}
      /\ PoolRent \in Nat /\ ReserveRent \in Nat /\ PositionRent \in Nat /\ ArrayRent \in Nat
  BY DEF LaunchAssumption, RangeAssumption
<1>2. lower \in Int /\ upper \in Int /\ lower <= upper
  BY <1>1 DEF ClassicRange
<1> HIDE DEF lower, upper
<1>3. lower \div BinsPerArray <= upper \div BinsPerArray
  BY <1>1, <1>2, ArraysInOrder
<1>4. lower \div BinsPerArray \in Int /\ upper \div BinsPerArray \in Int
  BY <1>1, <1>2
<1>5. BinArrays(ClassicRange(active)) \in Nat
  BY <1>3, <1>4 DEF BinArrays, BinArrayIndex, lower, upper
<1>6. BinArrays(ClassicRange(active)) * ArrayRent \in Nat
  BY <1>5, <1>1
<1> HIDE DEF BinArrays
<1> QED BY <1>1, <1>6 DEF CreationRent, OpeningRent

-----------------------------------------------------------------------------
(* The launch in progress *)

Statuses == {"none", "STUCK", "RECONCILED"}
Answers == {"none", "unreserved", "capped", "failed"}

Counted ==
  /\ drafts \in 0..MaxDrafts /\ foreign \in 0..MaxForeign
  /\ requests \in [Kinds -> Statuses]
  /\ calling \in Kinds \cup {"no"} /\ answer \in Answers
  /\ spendable \in Nat /\ drained \in Nat
  /\ rolling \in [create : Nat, open : Nat, earlier : Nat, project : Nat, global : Nat]
  /\ pools \in [Addresses -> PoolAccount \cup {NoPool}]
  /\ disturbed \in BOOLEAN

(* A draft is the plan that was reviewed, with the amounts typed again.    *)
Faithful(d) ==
  /\ Sound(d.plan)
  /\ d # NoDraft
  /\ d.amount = d.plan.amount
  /\ d.step = d.plan.step /\ d.fee = d.plan.fee
  /\ d.wallet \in Nat
  /\ d.covers => d.wallet >= d.plan.minimum
  /\ d.pool \in Addresses
  /\ d.pool # Proxy => d.step = d.pool.step /\ d.fee = d.pool.fee

Drafted ==
  IF draft = NoDraft
  THEN drafts = 0 /\ calling = "no" /\ requests = [kind \in Kinds |-> "none"]
  ELSE Faithful(draft) /\ draft.number = drafts /\ drafts > 0

(* A position is only sent to a pool that is there, and of the latest      *)
(* draft there is only what it says.                                       *)
InFlight ==
  \A tx \in flying :
    /\ tx.kind \in Kinds /\ Faithful(tx.draft) /\ tx.draft.number \in 1..drafts
    /\ tx.draft.number = drafts => tx.draft = draft
    /\ tx.kind = "open" => pools[tx.draft.pool] # NoPool

(* A pool at the address of a preset is one of that preset.                *)
OnChain ==
  /\ \A position \in positions :
       /\ position.by \in 1..drafts
       /\ position.by = drafts => position = PositionOf(draft)
       /\ position.pool \in Addresses /\ pools[position.pool] # NoPool
  /\ \A address \in Addresses : pools[address].by <= drafts
  /\ \A address \in Presets :
       pools[address] # NoPool => pools[address].step = address.step
                                  /\ pools[address].fee = address.fee

(* The first request of a draft is only sent while there is no pool at its *)
(* address.  From then on nothing of an earlier draft can come to be in    *)
(* the pool, and the pool is the draft's unless others disturb it.         *)
Begun == requests["create"] # "none" \/ calling = "create"

Own ==
  /\ Begun => \A tx \in flying :
                tx.kind = "open" /\ tx.draft.pool = draft.pool => tx.draft = draft
  /\ Begun => \A position \in positions :
                position.pool = draft.pool => position = PositionOf(draft)
  /\ Begun /\ ~disturbed => pools[draft.pool] \in {NoPool, PoolOf(draft)}
  /\ calling = "open" \/ requests["open"] # "none" => requests["create"] = "RECONCILED"
  /\ calling = "create" => requests["create"] # "RECONCILED"
  /\ requests["create"] = "RECONCILED" => pools[draft.pool] # NoPool
  /\ Opened => \E position \in positions : position.pool = draft.pool

(* Every lamport that has left the wallet since the draft is accounted for. *)
CreationPaid == IF pools[draft.pool].by = drafts THEN CreationRent + NetworkFee ELSE 0

OpeningPaid ==
  IF \E position \in positions : position.by = drafts THEN OpeningCost(draft) ELSE 0

Paid ==
  draft # NoDraft => spendable + drained + CreationPaid + OpeningPaid = draft.wallet

(* A request that has no row is not counted, and the first one counts      *)
(* what the plan says.                                                     *)
Spent ==
  /\ requests["create"] = "none" => rolling.create = 0
  /\ requests["open"] = "none" => rolling.open = 0
  /\ draft # NoDraft => rolling.create \in {0, draft.plan.rent}
  /\ CapsForetell

(* A position is only asked for while the reserve is kept.                 *)
Reserved == calling = "open" \/ requests["open"] # "none" => KeepsReserve

LaunchInv ==
  Counted /\ Drafted /\ InFlight /\ OnChain /\ Own /\ Paid /\ Spent /\ Reserved

LEMMA LaunchStarts == ASSUME LaunchAssumption, Init PROVE LaunchInv
<1>1. Balances \subseteq Nat /\ MaxDrafts \in Nat /\ MaxForeign \in Nat
  BY DEF LaunchAssumption
<1>2. requests["create"] = "none" /\ requests["open"] = "none" /\ calling = "no" /\ ~Begun
      /\ ~Opened
  BY DEF Init, Kinds, Begun, Opened
<1>3. Counted
  <2>1. rolling \in [create : Nat, open : Nat, earlier : Nat, project : Nat, global : Nat]
    BY DEF Init, NothingRecorded
  <2>2. requests \in [Kinds -> Statuses] /\ pools \in [Addresses -> PoolAccount \cup {NoPool}]
    BY DEF Init, Statuses
  <2>3. disturbed \in BOOLEAN
    BY DEF Init
  <2>4. /\ drafts \in 0..MaxDrafts /\ foreign \in 0..MaxForeign
        /\ calling \in Kinds \cup {"no"} /\ answer \in Answers
        /\ spendable \in Nat /\ drained \in Nat
    BY <1>1 DEF Init, Answers
  <2> QED BY <2>1, <2>2, <2>3, <2>4 DEF Counted
<1>4. Drafted /\ InFlight /\ Paid
  BY DEF Init, Drafted, InFlight, Paid
<1>5. OnChain
  <2>1. \A address \in Addresses : pools[address] = NoPool
    BY DEF Init
  <2>2. Presets \subseteq Addresses /\ positions = {} /\ drafts = 0
    BY DEF Init, Addresses
  <2> QED BY <2>1, <2>2 DEF OnChain, NoPool
<1>6. Own
  BY <1>2 DEF Own, Opened
<1>7. Spent
  BY DEF Init, Spent, CapsForetell, NothingRecorded
<1>8. Reserved
  BY <1>2 DEF Reserved
<1> QED BY <1>3, <1>4, <1>5, <1>6, <1>7, <1>8 DEF LaunchInv

LEMMA Outline ==
  ASSUME [Next]_vars
  PROVE  \/ \E amount, typed \in Amounts, width \in Widths, preset \in Addresses :
              Draft(amount, width, typed, preset)
         \/ \E kind \in Kinds : SubmitFound(kind) \/ Reconciles(kind) \/ GetsStuck(kind)
         \/ \E kind \in Kinds : SubmitSent(kind) \/ Resends(kind)
         \/ \E kind \in Kinds : SubmitRefused(kind) \/ Throws(kind)
         \/ \E tx \in flying : Lands(tx)
         \/ \E tx \in flying : IsLost(tx)
         \/ \E address \in Addresses, bin \in ForeignBins :
              PoolMoves(address, bin) \/ \E like \in Presets : PoolAppears(address, like, bin)
         \/ \E notional \in Spendings : ProjectSpends(notional) \/ OthersSpend(notional)
         \/ WindowPasses
         \/ UNCHANGED vars
BY DEF Next

(* What a draft says of the amounts, as integers.                          *)
LEMMA FaithfulTypes ==
  ASSUME LaunchAssumption, NEW d, Faithful(d)
  PROVE  /\ CreationRent \in Nat /\ OpeningRent(d.plan.account) \in Nat
         /\ d.plan.rent \in Nat /\ d.plan.rent <= TransactionCap
         /\ d.plan.rent = CreationRent + OpeningRent(d.plan.account)
         /\ d.plan.value \in Nat /\ d.wallet \in Nat
         /\ d.amount.sol \in Nat /\ OpeningCost(d) \in Nat
         /\ {NetworkFee, Gas, TransactionCap, ProjectCap, GlobalCap} \subseteq Nat
         /\ \A kind : CostOf(kind, d) \in Nat
<1>1. /\ d.plan.active \in Int /\ d.plan.account = ClassicRange(d.plan.active)
      /\ d.amount \in Amounts
  BY Assumed DEF Faithful, Sound
<1>2. CreationRent \in Nat /\ OpeningRent(d.plan.account) \in Nat
  BY <1>1, RentType
<1>3. {NetworkFee, Gas, TransactionCap, ProjectCap, GlobalCap} \subseteq Nat
      /\ d.amount.sol \in Nat
  BY <1>1 DEF LaunchAssumption
<1>4. OpeningCost(d) \in Nat
  BY <1>2, <1>3 DEF OpeningCost
<1>5. \A kind : CostOf(kind, d) \in Nat
  BY <1>2, <1>3, <1>4 DEF CostOf
<1> QED BY <1>2, <1>3, <1>4, <1>5 DEF Faithful, Sound

LEMMA DraftStep ==
  ASSUME LaunchAssumption, LaunchInv, NEW amount \in Amounts, NEW typed \in Amounts,
         NEW width \in Widths, NEW preset \in Addresses, Draft(amount, width, typed, preset)
  PROVE  LaunchInv'
<1> DEFINE plan == LaunchPlan(amount, width)
<1>1. /\ drafts < MaxDrafts /\ Priced(amount) /\ typed = plan.amount
      /\ preset # Proxy => PresetMatches(plan, preset)
      /\ draft' = DraftOf(plan, typed, preset) /\ drafts' = drafts + 1
      /\ requests' = [kind \in Kinds |-> "none"] /\ answer' = "none" /\ calling' = "no"
      /\ rolling' = [rolling EXCEPT !.create = 0, !.open = 0,
                                    !.earlier = @ + rolling.create + rolling.open]
      /\ drained' = 0 /\ disturbed' = FALSE
      /\ UNCHANGED <<spendable, pools, positions, flying, foreign>>
  BY DEF Draft, Plannable, SameAmount
<1>2. Sound(plan)
  BY <1>1, PlanIsSound
<1> HIDE DEF plan
<1>3. Counted /\ spendable \in Nat /\ drafts \in Nat /\ MaxDrafts \in Nat
  <2>1. MaxDrafts \in Nat
    BY DEF LaunchAssumption
  <2>2. Counted
    BY DEF LaunchInv
  <2> QED BY <2>1, <2>2 DEF Counted
<1>4. /\ draft'.plan = plan /\ draft'.amount = typed /\ draft'.wallet = spendable
      /\ draft'.covers = (spendable >= plan.minimum) /\ draft'.pool = preset
      /\ draft'.step = (IF preset = Proxy THEN plan.step ELSE preset.step)
      /\ draft'.fee = (IF preset = Proxy THEN plan.fee ELSE preset.fee)
      /\ draft'.number = drafts + 1
  BY <1>1 DEF DraftOf
<1>5. draft' # NoDraft
  <2>1. "plan" \in DOMAIN draft' /\ "plan" \notin DOMAIN NoDraft
    BY <1>1 DEF NoDraft, DraftOf
  <2> QED BY <2>1
<1>6. Faithful(draft')
  BY <1>1, <1>2, <1>3, <1>4, <1>5 DEF Faithful, PresetMatches
<1>7. Counted'
  <2>1. rolling' \in [create : Nat, open : Nat, earlier : Nat, project : Nat, global : Nat]
    <3>1. rolling.earlier + rolling.create + rolling.open \in Nat
      BY <1>3 DEF Counted
    <3> HIDE DEF plan
    <3> QED BY <1>1, <1>3, <3>1 DEF Counted
  <2>2. requests' \in [Kinds -> Statuses]
    BY <1>1 DEF Statuses
  <2>3. drafts' \in 0..MaxDrafts /\ drained' \in Nat /\ calling' \in Kinds \cup {"no"}
        /\ answer' \in Answers
    BY <1>1, <1>3 DEF Counted, Answers
  <2>4. disturbed' \in BOOLEAN
    BY <1>1
  <2> QED BY <1>1, <1>3, <2>1, <2>2, <2>3, <2>4 DEF Counted
<1>8. Drafted'
  BY <1>1, <1>3, <1>4, <1>5, <1>6 DEF Drafted
<1>9. InFlight'
  BY <1>1, <1>3 DEF LaunchInv, InFlight
<1>10. OnChain'
  <2>1. \A address \in Addresses : pools[address].by \in Int /\ pools[address].by <= drafts
    BY <1>3 DEF LaunchInv, OnChain, Counted, PoolAccount, NoPool
  <2> QED BY <1>1, <1>3, <2>1 DEF LaunchInv, OnChain
<1>11. Own'
  <2>1. ~Begun' /\ ~Opened' /\ requests'["create"] = "none" /\ requests'["open"] = "none"
    BY <1>1 DEF Begun, Opened, Kinds
  <2> QED BY <1>1, <2>1 DEF Own
<1>12. Paid'
  <2>1. CreationPaid' = 0
    <3>1. pools[preset].by \in Int /\ pools[preset].by <= drafts
      BY <1>3 DEF LaunchInv, OnChain, Counted, PoolAccount, NoPool
    <3> QED BY <1>1, <1>3, <1>4, <3>1 DEF CreationPaid
  <2>2. OpeningPaid' = 0
    BY <1>1, <1>3 DEF LaunchInv, OnChain, OpeningPaid
  <2> QED BY <1>1, <1>3, <1>4, <2>1, <2>2 DEF Paid
<1>13. Spent'
  BY <1>1, <1>3 DEF Counted, Spent, CapsForetell
<1>14. Reserved'
  BY <1>1 DEF Reserved, Kinds
<1> QED BY <1>7, <1>8, <1>9, <1>10, <1>11, <1>12, <1>13, <1>14 DEF LaunchInv

(* A request within the caps of an empty window is within those of one     *)
(* that holds at most the rent of the pool; its own row is left out.       *)
LEMMA Foretold ==
  ASSUME LaunchAssumption, LaunchInv, draft # NoDraft, OnlyTheDraft, draft.plan.within,
         NEW kind \in Kinds, MaySubmit(kind)
  PROVE  WithinCaps(SpentBeside(kind), NotionalOf(kind))
<1>1. Faithful(draft)
  BY DEF LaunchInv, Drafted
<1>2. /\ draft.plan.rent \in Nat /\ draft.plan.rent <= TransactionCap /\ draft.plan.value \in Nat
      /\ {TransactionCap, ProjectCap, GlobalCap} \subseteq Nat
  BY <1>1, FaithfulTypes
<1>3. ReadyFor(draft.plan.rent, draft.plan.value)
  BY <1>1 DEF Faithful, Sound
<1>4. /\ rolling.create \in Nat /\ rolling.open \in Nat
      /\ rolling.earlier = 0 /\ rolling.project = 0 /\ rolling.global = 0
      /\ rolling.create <= draft.plan.rent
  BY <1>2 DEF LaunchInv, Counted, OnlyTheDraft, Spent
<1>5. CASE kind = "create"
  <2>1. rolling.open = 0
    BY <1>5 DEF LaunchInv, MaySubmit, Own, Spent
  <2>2. SpentBeside(kind) = 0
    BY <1>4, <1>5, <2>1 DEF SpentBeside, ProjectSpent
  <2> QED BY <1>2, <1>3, <1>4, <1>5, <2>2 DEF ReadyFor, WithinCaps, NotionalOf
<1>6. CASE kind = "open"
  <2>1. SpentBeside(kind) = rolling.create
    BY <1>4, <1>6 DEF SpentBeside, ProjectSpent
  <2> QED BY <1>2, <1>3, <1>4, <1>6, <2>1 DEF ReadyFor, WithinCaps, NotionalOf
<1> QED BY <1>5, <1>6 DEF Kinds

(* A row is written: the call ends RECONCILED, which it only does when the *)
(* account is there, or STUCK.                                             *)
LEMMA RecordStep ==
  ASSUME LaunchAssumption, LaunchInv, NEW kind \in Kinds,
         SubmitFound(kind) \/ Reconciles(kind) \/ GetsStuck(kind)
  PROVE  LaunchInv'
<1>1. PICK status \in {"STUCK", "RECONCILED"} :
        /\ requests' = [requests EXCEPT ![kind] = status]
        /\ rolling' = [rolling EXCEPT ![kind] =
                         IF requests[kind] = "none" THEN NotionalOf(kind) ELSE @]
        /\ calling' = "no" /\ answer' = "none"
        /\ status = "RECONCILED" => Occupied(kind, draft)
        /\ UNCHANGED <<draft, drafts, spendable, drained, pools, positions, flying, disturbed,
                       foreign>>
  BY DEF SubmitFound, Reconciles, GetsStuck, Records, Applied, chainVars
<1>2. /\ draft # NoDraft
      /\ kind = "create" => Begun /\ requests["create"] # "RECONCILED"
      /\ kind = "open" => requests["create"] = "RECONCILED"
  <2>1. SubmitFound(kind) => draft # NoDraft /\ requests[kind] = "STUCK"
                             /\ (kind = "open" => requests["create"] = "RECONCILED")
    BY DEF SubmitFound, MaySubmit, Applied, IsRead
  <2>2. ~SubmitFound(kind) => calling = kind /\ calling # "no"
    BY DEF Reconciles, GetsStuck, Kinds
  <2> QED BY <2>1, <2>2 DEF LaunchInv, Drafted, Own, Begun
<1>3. Counted /\ Faithful(draft) /\ draft.number = drafts /\ drafts > 0
  BY <1>2 DEF LaunchInv, Drafted
<1>4. NotionalOf(kind) \in Nat
  BY <1>3, FaithfulTypes DEF NotionalOf
<1>5. /\ rolling' \in [create : Nat, open : Nat, earlier : Nat, project : Nat, global : Nat]
      /\ kind = "create" => /\ rolling'.open = rolling.open
                            /\ rolling'.create \in {rolling.create, draft.plan.rent}
      /\ kind = "open" => rolling'.create = rolling.create
  BY <1>1, <1>3, <1>4 DEF Counted, Kinds, NotionalOf
<1>6. /\ requests' \in [Kinds -> Statuses] /\ requests'[kind] = status
      /\ \A other \in Kinds \ {kind} : requests'[other] = requests[other]
  BY <1>1, <1>3 DEF Counted, Statuses
<1>7. Counted'
  BY <1>1, <1>3, <1>5, <1>6 DEF Counted, Answers
<1>8. Drafted' /\ InFlight'
  BY <1>1, <1>2, <1>3 DEF LaunchInv, Drafted, InFlight
<1>9. OnChain' /\ Paid'
  BY <1>1 DEF LaunchInv, OnChain, Paid, CreationPaid, OpeningPaid
<1>10. Own'
  <2>1. Begun' => Begun
    BY <1>1, <1>2, <1>6 DEF Begun, Kinds
  <2>2. requests'["open"] # "none" => requests'["create"] = "RECONCILED"
    BY <1>1, <1>2, <1>6 DEF LaunchInv, Own, Kinds
  <2>3. requests'["create"] = "RECONCILED" => pools[draft.pool] # NoPool
    BY <1>1, <1>2, <1>6 DEF LaunchInv, Own, Kinds, Occupied
  <2>4. Opened' => \E position \in positions : position.pool = draft.pool
    BY <1>1, <1>2, <1>6 DEF LaunchInv, Own, Kinds, Occupied, AtAddress, Opened
  <2> QED BY <1>1, <2>1, <2>2, <2>3, <2>4 DEF LaunchInv, Own
<1>11. Spent'
  BY <1>1, <1>2, <1>5, <1>6 DEF LaunchInv, Spent, CapsForetell, Kinds
<1>12. Reserved'
  <2>1. kind = "open" => calling = "open" \/ requests["open"] # "none"
    BY DEF SubmitFound, Reconciles, GetsStuck, Applied, IsRead
  <2>2. requests'["open"] # "none" => KeepsReserve
    BY <1>1, <1>6, <2>1 DEF LaunchInv, Reserved, Kinds
  <2> QED BY <1>1, <2>2 DEF Reserved, KeepsReserve
<1> QED BY <1>7, <1>8, <1>9, <1>10, <1>11, <1>12 DEF LaunchInv

(* A request is sent, which is only done while there is no account.        *)
LEMMA SentStep ==
  ASSUME LaunchAssumption, LaunchInv, NEW kind \in Kinds, SubmitSent(kind) \/ Resends(kind)
  PROVE  LaunchInv'
<1> DEFINE new == [kind |-> kind, draft |-> draft]
<1>1. /\ flying' = flying \cup {new} /\ calling' = kind /\ answer' = "none"
      /\ ~Occupied(kind, draft)
      /\ UNCHANGED <<draft, drafts, requests, rolling, spendable, drained, pools, positions,
                     disturbed, foreign>>
  BY DEF SubmitSent, Resends, Simulates
<1>2. draft # NoDraft /\ (kind = "open" <=> requests["create"] = "RECONCILED")
  BY DEF SubmitSent, Resends, MaySubmit, LaunchInv, Drafted, Own, Kinds
<1>3. Faithful(draft) /\ draft.number = drafts /\ drafts > 0 /\ drafts \in Nat
  BY <1>2 DEF LaunchInv, Drafted, Counted
<1>4. new.kind = kind /\ new.draft = draft
  OBVIOUS
<1> HIDE DEF new
<1>5. kind = "create" => pools[draft.pool] = NoPool
  BY <1>1 DEF Occupied
<1>6. kind = "open" => pools[draft.pool] # NoPool /\ Begun
  BY <1>2 DEF LaunchInv, Own, Begun
<1>7. Counted' /\ Drafted'
  BY <1>1, <1>2 DEF LaunchInv, Counted, Drafted, Answers
<1>8. InFlight'
  BY <1>1, <1>3, <1>4, <1>6 DEF LaunchInv, InFlight
<1>9. OnChain' /\ Paid'
  BY <1>1 DEF LaunchInv, OnChain, Paid, CreationPaid, OpeningPaid
<1>10. Own'
  <2>1. CASE kind = "create"
    <3>1. \A tx \in flying' : tx.kind = "open" => tx.draft.pool # draft.pool
      BY <1>1, <1>4, <1>5, <2>1 DEF LaunchInv, InFlight
    <3>2. \A position \in positions : position.pool # draft.pool
      BY <1>5, <2>1 DEF LaunchInv, OnChain
    <3> QED BY <1>1, <1>5, <2>1, <3>1, <3>2 DEF LaunchInv, Own, Opened
  <2>2. CASE kind = "open"
    <3>1. \A tx \in flying' : tx.kind = "open" /\ tx.draft.pool = draft.pool => tx.draft = draft
      BY <1>1, <1>4, <1>6, <2>2 DEF LaunchInv, Own
    <3> QED BY <1>1, <1>2, <1>6, <2>2, <3>1 DEF LaunchInv, Own, Opened
  <2> QED BY <2>1, <2>2 DEF Kinds
<1>11. Spent'
  BY <1>1 DEF LaunchInv, Spent, CapsForetell
<1>12. Reserved'
  <2>1. kind = "open" => KeepsReserve
    BY DEF SubmitSent, Resends, Builds, LaunchInv, Reserved
  <2> QED BY <1>1, <2>1 DEF LaunchInv, Reserved, KeepsReserve
<1> QED BY <1>7, <1>8, <1>9, <1>10, <1>11, <1>12 DEF LaunchInv

(* A call throws, before it sends or after: its row is as it was.          *)
LEMMA ThrownStep ==
  ASSUME LaunchAssumption, LaunchInv, NEW kind \in Kinds, SubmitRefused(kind) \/ Throws(kind)
  PROVE  LaunchInv'
<1>1. /\ calling' = "no"
      /\ UNCHANGED <<draft, drafts, requests, rolling, spendable, drained, pools, positions,
                     flying, disturbed, foreign>>
  BY DEF SubmitRefused, Throws, MaySubmit, chainVars
<1>2. answer' \in Answers
  BY DEF SubmitRefused, Throws, Answers
<1>3. Counted' /\ Drafted' /\ InFlight' /\ OnChain' /\ Paid'
  BY <1>1, <1>2 DEF LaunchInv, Counted, Drafted, InFlight, OnChain, Paid, CreationPaid, OpeningPaid
<1>4. Own'
  BY <1>1 DEF LaunchInv, Own, Begun, Opened
<1>5. CapsForetell'
  <2>1. SUFFICES ASSUME answer' = "capped", OnlyTheDraft, draft.plan.within PROVE FALSE
    BY <1>1 DEF CapsForetell, OnlyTheDraft
  <2>2. MaySubmit(kind) /\ ~WithinCaps(SpentBeside(kind), NotionalOf(kind))
    BY <2>1 DEF SubmitRefused, Throws
  <2> QED BY <2>1, <2>2, Foretold DEF MaySubmit
<1>6. Spent'
  BY <1>1, <1>5 DEF LaunchInv, Spent
<1>7. Reserved'
  BY <1>1 DEF LaunchInv, Reserved, KeepsReserve
<1> QED BY <1>3, <1>4, <1>6, <1>7 DEF LaunchInv

(* A transaction lands: one of the draft leaves on the chain what the      *)
(* draft says, one of an earlier draft never reaches the pool of this one  *)
(* unless it makes it, which disturbs it.                                  *)
LEMMA LandsStep ==
  ASSUME LaunchAssumption, LaunchInv, NEW tx \in flying, Lands(tx)
  PROVE  LaunchInv'
<1> DEFINE d == tx.draft
<1>1. /\ ~Occupied(tx.kind, d) /\ CostOf(tx.kind, d) <= spendable
      /\ flying' = flying \ {tx}
      /\ spendable' = spendable - CostOf(tx.kind, d)
      /\ drained' = (IF d = draft THEN drained ELSE drained + CostOf(tx.kind, d))
      /\ disturbed' = (disturbed \/ (tx.kind = "create" /\ d # draft /\ d.pool = draft.pool))
      /\ pools' = (IF tx.kind = "create" THEN [pools EXCEPT ![d.pool] = PoolOf(d)] ELSE pools)
      /\ positions' = (IF tx.kind = "open" THEN positions \cup {PositionOf(d)} ELSE positions)
      /\ answer' = "none"
      /\ UNCHANGED <<draft, drafts, requests, calling, rolling, foreign>>
  BY DEF Lands
<1>2. /\ tx.kind \in Kinds /\ Faithful(d) /\ d.number \in 1..drafts
      /\ d.number = drafts <=> d = draft
      /\ tx.kind = "open" => pools[d.pool] # NoPool
      /\ draft # NoDraft /\ Faithful(draft) /\ draft.number = drafts /\ drafts > 0
      /\ Counted /\ drafts \in Nat
  <2>1. drafts \in Nat
    BY DEF LaunchInv, Counted
  <2>2. /\ tx.kind \in Kinds /\ Faithful(d) /\ d.number \in 1..drafts
        /\ d.number = drafts => d = draft
        /\ tx.kind = "open" => pools[d.pool] # NoPool
    BY DEF LaunchInv, InFlight
  <2>3. drafts # 0
    BY <2>1, <2>2
  <2> QED BY <2>1, <2>2, <2>3 DEF LaunchInv, Drafted
<1> HIDE DEF d
<1>3. /\ CostOf(tx.kind, d) \in Nat /\ spendable \in Nat /\ drained \in Nat
      /\ d.pool \in Addresses /\ d.plan.active \in DOMAIN Price
      /\ d.step \in Nat /\ d.fee \in Nat
      /\ d.pool # Proxy => d.step = d.pool.step /\ d.fee = d.pool.fee
  BY <1>2, FaithfulTypes DEF Counted, Faithful, Sound
<1>4. /\ PoolOf(d) \in PoolAccount /\ PoolOf(d) # NoPool /\ PoolOf(d).by = d.number
      /\ PoolOf(d).step = d.step /\ PoolOf(d).fee = d.fee
  BY <1>2, <1>3 DEF PoolOf, PoolAccount, NoPool
<1>5. PositionOf(d).by = d.number /\ PositionOf(d).pool = d.pool /\ AtAddress(PositionOf(d), d)
  BY DEF PositionOf, AtAddress
<1>6. /\ pools' \in [Addresses -> PoolAccount \cup {NoPool}]
      /\ \A address \in Addresses :
           \/ pools'[address] = pools[address]
           \/ tx.kind = "create" /\ address = d.pool /\ pools'[address] = PoolOf(d)
              /\ pools[address] = NoPool
  BY <1>1, <1>2, <1>3, <1>4 DEF Counted, Occupied
<1>7. \A address \in Addresses : pools[address] # NoPool => pools'[address] = pools[address]
  BY <1>6
<1>8. Counted'
  <2>1. spendable' \in Nat /\ drained' \in Nat
    BY <1>1, <1>3
  <2>2. disturbed' \in BOOLEAN
    BY <1>1, <1>2 DEF Counted
  <2> QED BY <1>1, <1>2, <1>6, <2>1, <2>2 DEF Counted, Answers
<1>9. Drafted'
  BY <1>1 DEF LaunchInv, Drafted
<1>10. InFlight'
  <2>1. \A other \in flying' : other \in flying /\ Faithful(other.draft)
                                /\ other.draft.pool \in Addresses
    BY <1>1 DEF LaunchInv, InFlight, Faithful
  <2> QED BY <1>1, <1>7, <2>1 DEF LaunchInv, InFlight
<1>11. OnChain'
  <2>1. ASSUME NEW position \in positions'
        PROVE  /\ position.by \in 1..drafts
               /\ position.by = drafts => position = PositionOf(draft)
               /\ position.pool \in Addresses /\ pools'[position.pool] # NoPool
    <3>1. CASE position \in positions
      BY <1>7, <3>1 DEF LaunchInv, OnChain
    <3>2. CASE position \notin positions
      <4>1. tx.kind = "open" /\ position = PositionOf(d)
        BY <1>1, <3>2
      <4> QED BY <1>2, <1>3, <1>5, <1>7, <4>1
    <3> QED BY <3>1, <3>2
  <2>2. ASSUME NEW address \in Addresses PROVE pools'[address].by <= drafts
    BY <1>2, <1>4, <1>6 DEF LaunchInv, OnChain
  <2>3. ASSUME NEW address \in Presets, pools'[address] # NoPool
        PROVE  pools'[address].step = address.step /\ pools'[address].fee = address.fee
    <3>1. address \in Addresses /\ address # Proxy
      BY DEF LaunchAssumption, Addresses
    <3> QED BY <1>3, <1>4, <1>6, <2>3, <3>1 DEF LaunchInv, OnChain
  <2> QED BY <1>1, <2>1, <2>2, <2>3 DEF OnChain
<1>12. Own'
  <2>1. Begun' <=> Begun
    BY <1>1 DEF Begun
  <2>2. Begun => \A other \in flying' :
                  other.kind = "open" /\ other.draft.pool = draft.pool => other.draft = draft
    BY <1>1 DEF LaunchInv, Own
  <2>3. ASSUME Begun, NEW position \in positions', position.pool = draft.pool
        PROVE  position = PositionOf(draft)
    <3>1. CASE position \in positions
      BY <2>3, <3>1 DEF LaunchInv, Own
    <3>2. CASE position \notin positions
      <4>1. tx.kind = "open" /\ position = PositionOf(d)
        BY <1>1, <3>2
      <4>2. d = draft
        BY <1>5, <2>3, <4>1 DEF LaunchInv, Own, d
      <4> QED BY <4>1, <4>2
    <3> QED BY <3>1, <3>2
  <2>4. ASSUME Begun, ~disturbed' PROVE pools'[draft.pool] \in {NoPool, PoolOf(draft)}
    <3>1. draft.pool \in Addresses /\ ~disturbed
      BY <1>1, <1>2, <2>4 DEF Faithful
    <3>2. CASE pools'[draft.pool] = pools[draft.pool]
      BY <2>4, <3>1, <3>2 DEF LaunchInv, Own
    <3>3. CASE pools'[draft.pool] # pools[draft.pool]
      <4>1. tx.kind = "create" /\ draft.pool = d.pool /\ pools'[draft.pool] = PoolOf(d)
        BY <1>6, <3>1, <3>3
      <4>2. d = draft
        BY <1>1, <2>4, <4>1
      <4> QED BY <4>1, <4>2
    <3> QED BY <3>2, <3>3
  <2>5. /\ calling = "open" \/ requests["open"] # "none" => requests["create"] = "RECONCILED"
        /\ calling = "create" => requests["create"] # "RECONCILED"
    BY DEF LaunchInv, Own
  <2>6. requests["create"] = "RECONCILED" => pools'[draft.pool] # NoPool
    BY <1>2, <1>7 DEF LaunchInv, Own, Faithful
  <2>7. Opened => \E position \in positions' : position.pool = draft.pool
    BY <1>1 DEF LaunchInv, Own
  <2> QED BY <1>1, <2>1, <2>2, <2>3, <2>4, <2>5, <2>6, <2>7 DEF Own, Opened
<1>13. Paid'
  <2>1. draft.pool \in Addresses /\ CreationRent \in Nat /\ NetworkFee \in Nat
        /\ OpeningCost(draft) \in Nat
    BY <1>2, FaithfulTypes DEF Faithful
  <2>2. /\ spendable + drained + CreationPaid + OpeningPaid = draft.wallet
        /\ CreationPaid \in Nat /\ OpeningPaid \in Nat
    BY <1>2, <2>1 DEF LaunchInv, Paid, CreationPaid, OpeningPaid
  <2>3. CASE d # draft
    <3>1. CreationPaid' = CreationPaid
      <4>1. pools'[draft.pool].by = drafts <=> pools[draft.pool].by = drafts
        <5>1. NoPool.by # drafts /\ d.number # drafts
          BY <1>2, <2>3 DEF NoPool
        <5> QED BY <1>4, <1>6, <2>1, <5>1
      <4> QED BY <1>1, <4>1 DEF CreationPaid
    <3>2. OpeningPaid' = OpeningPaid
      <4>1. (\E position \in positions' : position.by = drafts)
            <=> \E position \in positions : position.by = drafts
        BY <1>1, <1>2, <1>5, <2>3
      <4> QED BY <1>1, <4>1 DEF OpeningPaid, OpeningCost
    <3> QED BY <1>1, <1>3, <2>2, <2>3, <3>1, <3>2 DEF Paid
  <2>4. CASE d = draft /\ tx.kind = "create"
    <3>1. pools[draft.pool] = NoPool /\ pools'[draft.pool] = PoolOf(draft)
      BY <1>1, <1>2, <2>1, <2>4 DEF Occupied, Counted
    <3>2. CreationPaid = 0 /\ CreationPaid' = CreationRent + NetworkFee
      <4>1. NoPool.by # drafts /\ PoolOf(draft).by = drafts
        BY <1>2, <1>4, <2>4 DEF NoPool
      <4> QED BY <1>1, <3>1, <4>1 DEF CreationPaid
    <3>3. OpeningPaid' = OpeningPaid
      BY <1>1, <2>4 DEF OpeningPaid, OpeningCost
    <3>4. CostOf(tx.kind, d) = CreationRent + NetworkFee
      BY <2>4 DEF CostOf
    <3> QED BY <1>1, <1>3, <2>1, <2>2, <2>4, <3>2, <3>3, <3>4 DEF Paid
  <2>5. CASE d = draft /\ tx.kind = "open"
    <3>1. CreationPaid' = CreationPaid
      BY <1>1, <2>5 DEF CreationPaid
    <3>2. ~\E position \in positions : position.by = drafts
      <4>1. ASSUME NEW position \in positions, position.by = drafts PROVE FALSE
        <5>1. position = PositionOf(d)
          BY <2>5, <4>1 DEF LaunchInv, OnChain
        <5> QED BY <1>1, <1>5, <2>5, <5>1 DEF Occupied
      <4> QED BY <4>1
    <3>3. PositionOf(d) \in positions' /\ PositionOf(d).by = drafts
      BY <1>1, <1>2, <1>5, <2>5
    <3>4. OpeningPaid = 0 /\ OpeningPaid' = OpeningCost(draft)
      BY <1>1, <3>2, <3>3 DEF OpeningPaid, OpeningCost
    <3>5. CostOf(tx.kind, d) = OpeningCost(draft)
      BY <2>5 DEF CostOf
    <3> QED BY <1>1, <1>3, <2>1, <2>2, <2>5, <3>1, <3>4, <3>5 DEF Paid
  <2> QED BY <1>2, <2>3, <2>4, <2>5 DEF Kinds
<1>14. Spent'
  BY <1>1 DEF LaunchInv, Spent, CapsForetell
<1>15. Reserved'
  BY <1>1 DEF LaunchInv, Reserved, KeepsReserve
<1> QED BY <1>8, <1>9, <1>10, <1>11, <1>12, <1>13, <1>14, <1>15 DEF LaunchInv

LEMMA LostStep ==
  ASSUME LaunchAssumption, LaunchInv, NEW tx \in flying, IsLost(tx)
  PROVE  LaunchInv'
<1>1. /\ flying' \subseteq flying /\ answer' = "none"
      /\ UNCHANGED <<draft, drafts, requests, calling, rolling, spendable, drained, pools,
                     positions, disturbed, foreign>>
  BY DEF IsLost
<1>2. Counted' /\ Drafted' /\ InFlight' /\ OnChain' /\ Paid' /\ Spent'
  BY <1>1 DEF LaunchInv, Counted, Drafted, InFlight, OnChain, Paid, CreationPaid, OpeningPaid,
              Spent, CapsForetell, Answers
<1>3. Own'
  BY <1>1 DEF LaunchInv, Own, Begun, Opened
<1>4. Reserved'
  BY <1>1 DEF LaunchInv, Reserved, KeepsReserve
<1> QED BY <1>2, <1>3, <1>4 DEF LaunchInv

(* Others make a pool or move one; at the address of the draft this        *)
(* disturbs it.                                                            *)
LEMMA PoolStep ==
  ASSUME LaunchAssumption, LaunchInv, NEW address \in Addresses, NEW bin \in ForeignBins,
         PoolMoves(address, bin) \/ \E like \in Presets : PoolAppears(address, like, bin)
  PROVE  LaunchInv'
<1>1. /\ disturbed' = (disturbed \/ (draft # NoDraft /\ address = draft.pool))
      /\ foreign' = foreign + 1 /\ foreign < MaxForeign /\ answer' = "none"
      /\ UNCHANGED <<draft, drafts, requests, calling, rolling, spendable, drained, positions,
                     flying>>
  BY DEF PoolMoves, PoolAppears, Foreign, Disturbs
<1>2. Counted /\ bin \in DOMAIN Price /\ Presets \subseteq Preset /\ MaxForeign \in Nat
      /\ drafts \in Nat
  BY DEF LaunchInv, Counted, LaunchAssumption
<1>3. PICK made \in PoolAccount :
        /\ pools' = [pools EXCEPT ![address] = made]
        /\ pools[address] # NoPool => made.by = pools[address].by
                                      /\ made.step = pools[address].step
                                      /\ made.fee = pools[address].fee
        /\ pools[address] = NoPool => /\ made.by = 0
                                      /\ address # Proxy => made.step = address.step
                                                            /\ made.fee = address.fee
  <2>1. CASE PoolMoves(address, bin)
    <3> DEFINE made == [pools[address] EXCEPT !.bin = bin]
    <3>1. pools[address] \in PoolAccount
      BY <1>2, <2>1 DEF PoolMoves, Counted
    <3>2. /\ made \in PoolAccount /\ made.by = pools[address].by
          /\ made.step = pools[address].step /\ made.fee = pools[address].fee
      BY <1>2, <3>1 DEF PoolAccount
    <3>3. pools' = [pools EXCEPT ![address] = made] /\ pools[address] # NoPool
      BY <2>1 DEF PoolMoves
    <3> QED BY <3>2, <3>3
  <2>2. CASE ~PoolMoves(address, bin)
    <3>1. PICK like \in Presets : PoolAppears(address, like, bin)
      BY <2>2
    <3> DEFINE made == [bin |-> bin, step |-> like.step, fee |-> like.fee, by |-> 0]
    <3>2. made \in PoolAccount /\ made.by = 0 /\ made.step = like.step /\ made.fee = like.fee
      BY <1>2 DEF PoolAccount, Preset
    <3>3. /\ pools' = [pools EXCEPT ![address] = made] /\ pools[address] = NoPool
          /\ address # Proxy => like = address
      BY <3>1 DEF PoolAppears
    <3> QED BY <3>2, <3>3
  <2> QED BY <2>1, <2>2
<1>4. /\ pools' \in [Addresses -> PoolAccount \cup {NoPool}]
      /\ pools'[address] = made /\ made # NoPool
      /\ \A other \in Addresses \ {address} : pools'[other] = pools[other]
  BY <1>2, <1>3 DEF Counted, PoolAccount, NoPool
<1>5. \A other \in Addresses : pools[other] # NoPool => pools'[other] # NoPool
  BY <1>4
<1>6. Counted'
  <2>1. disturbed' \in BOOLEAN
    BY <1>1, <1>2 DEF Counted
  <2> QED BY <1>1, <1>2, <1>4, <2>1 DEF Counted, Answers
<1>7. Drafted'
  BY <1>1 DEF LaunchInv, Drafted
<1>8. InFlight'
  BY <1>1, <1>5 DEF LaunchInv, InFlight, Faithful
<1>9. OnChain'
  <2>1. made.by <= drafts
    BY <1>2, <1>3 DEF LaunchInv, OnChain
  <2>2. address \in Presets => made.step = address.step /\ made.fee = address.fee
    BY <1>3 DEF LaunchInv, OnChain, LaunchAssumption
  <2>3. Presets \subseteq Addresses
    BY DEF Addresses
  <2> QED BY <1>1, <1>4, <1>5, <2>1, <2>2, <2>3 DEF LaunchInv, OnChain
<1>10. Own'
  <2>1. draft # NoDraft => draft.pool \in Addresses
    BY DEF LaunchInv, Drafted, Faithful
  <2>2. Begun => draft # NoDraft
    BY DEF LaunchInv, Drafted, Begun, Kinds
  <2>3. ASSUME Begun, ~disturbed' PROVE pools'[draft.pool] \in {NoPool, PoolOf(draft)}
    <3>1. draft.pool \in Addresses /\ draft.pool # address /\ ~disturbed
      BY <1>1, <2>1, <2>2, <2>3
    <3> QED BY <1>4, <2>3, <3>1 DEF LaunchInv, Own
  <2>4. requests["create"] = "RECONCILED" => pools'[draft.pool] # NoPool
    BY <1>5, <2>1, <2>2 DEF LaunchInv, Own, Begun
  <2>5. Begun' <=> Begun
    BY <1>1 DEF Begun
  <2> QED BY <1>1, <2>3, <2>4, <2>5 DEF LaunchInv, Own, Opened
<1>11. Paid'
  <2>1. ASSUME draft # NoDraft PROVE CreationPaid' = CreationPaid
    <3>1. draft.pool \in Addresses /\ drafts > 0
      BY <2>1 DEF LaunchInv, Drafted, Faithful
    <3>2. pools'[draft.pool].by = drafts <=> pools[draft.pool].by = drafts
      BY <1>2, <1>3, <1>4, <3>1 DEF NoPool
    <3> QED BY <1>1, <3>2 DEF CreationPaid
  <2>2. OpeningPaid' = OpeningPaid
    BY <1>1 DEF OpeningPaid, OpeningCost
  <2> QED BY <1>1, <2>1, <2>2 DEF LaunchInv, Paid
<1>12. Spent'
  BY <1>1 DEF LaunchInv, Spent, CapsForetell
<1>13. Reserved'
  BY <1>1 DEF LaunchInv, Reserved, KeepsReserve
<1> QED BY <1>6, <1>7, <1>8, <1>9, <1>10, <1>11, <1>12, <1>13 DEF LaunchInv

(* The executions of others, and the passing of a day.                     *)
LEMMA ElsewhereStep ==
  ASSUME LaunchAssumption, LaunchInv,
         \/ \E notional \in Spendings : ProjectSpends(notional) \/ OthersSpend(notional)
         \/ WindowPasses
  PROVE  LaunchInv'
<1>1. /\ UNCHANGED <<draft, drafts, requests, calling, pools, positions, flying, disturbed>>
      /\ foreign' = foreign + 1 /\ foreign < MaxForeign /\ answer' = "none"
  BY DEF ProjectSpends, OthersSpend, WindowPasses, Foreign, chainVars
<1>2. Spendings \subseteq Nat /\ MaxForeign \in Nat
  BY DEF LaunchAssumption
<1>3. Counted
  BY DEF LaunchInv
<1>4. /\ spendable' \in Nat /\ drained' \in Nat /\ spendable' + drained' = spendable + drained
  BY <1>2, <1>3 DEF Counted, ProjectSpends, OthersSpend, WindowPasses, chainVars
<1>5. /\ rolling' \in [create : Nat, open : Nat, earlier : Nat, project : Nat, global : Nat]
      /\ rolling'.create \in {0, rolling.create} /\ rolling'.open \in {0, rolling.open}
  BY <1>2, <1>3 DEF Counted, ProjectSpends, OthersSpend, WindowPasses, NothingRecorded
<1>6. Counted'
  BY <1>1, <1>2, <1>3, <1>4, <1>5 DEF Counted, Answers
<1>7. Drafted' /\ InFlight' /\ OnChain'
  BY <1>1 DEF LaunchInv, Drafted, InFlight, OnChain
<1>8. Own'
  BY <1>1 DEF LaunchInv, Own, Begun, Opened
<1>9. Paid'
  <2>1. CreationPaid' = CreationPaid /\ OpeningPaid' = OpeningPaid
    BY <1>1 DEF CreationPaid, OpeningPaid, OpeningCost
  <2>2. draft # NoDraft => CreationPaid \in Int /\ OpeningPaid \in Int
    BY FaithfulTypes DEF LaunchInv, Drafted, CreationPaid, OpeningPaid
  <2> QED BY <1>1, <1>3, <1>4, <2>1, <2>2 DEF LaunchInv, Paid, Counted
<1>10. Spent'
  BY <1>1, <1>5 DEF LaunchInv, Spent, CapsForetell
<1>11. Reserved'
  BY <1>1 DEF LaunchInv, Reserved, KeepsReserve
<1> QED BY <1>6, <1>7, <1>8, <1>9, <1>10, <1>11 DEF LaunchInv

LEMMA LaunchStep == ASSUME LaunchAssumption, LaunchInv, [Next]_vars PROVE LaunchInv'
<1>1. CASE UNCHANGED vars
  BY <1>1 DEF vars, requestVars, chainVars, LaunchInv, Counted, Drafted, InFlight, OnChain, Own,
              Begun, Opened, Paid, CreationPaid, OpeningPaid, OpeningCost, Spent, CapsForetell,
              OnlyTheDraft, Reserved, KeepsReserve
<1> QED
  BY <1>1, Outline, DraftStep, RecordStep, SentStep, ThrownStep, LandsStep, LostStep, PoolStep,
     ElsewhereStep

LEMMA LaunchInvariant == ASSUME LaunchAssumption PROVE Spec => []LaunchInv
BY LaunchStarts, LaunchStep, PTL DEF Spec

(* Every variable keeps its type (Launch, TypeOK).                         *)
THEOREM LaunchTypeOK == ASSUME LaunchAssumption PROVE Spec => []TypeOK
<1>1. ASSUME LaunchInv PROVE TypeOK
  <2>1. /\ drafts \in 0..MaxDrafts /\ foreign \in 0..MaxForeign
        /\ requests \in [Kinds -> {"none", "STUCK", "RECONCILED"}]
        /\ calling \in Kinds \cup {"no"} /\ answer \in {"none", "unreserved", "capped", "failed"}
        /\ {spendable, drained} \subseteq Nat
        /\ rolling \in [create : Nat, open : Nat, earlier : Nat, project : Nat, global : Nat]
        /\ pools \in [Addresses -> PoolAccount \cup {NoPool}]
    BY <1>1 DEF LaunchInv, Counted, Statuses, Answers
  <2>2. disturbed \in BOOLEAN
    BY <1>1 DEF LaunchInv, Counted
  <2>3. /\ \A tx \in flying : tx.kind \in Kinds /\ tx.draft.number \in 1..drafts
        /\ \A position \in positions : position.by \in 1..drafts
    BY <1>1 DEF LaunchInv, InFlight, OnChain
  <2>4. calling # "no" \/ flying # {} \/ positions # {} => draft # NoDraft
    <3>1. draft = NoDraft => drafts = 0 /\ calling = "no"
      BY <1>1 DEF LaunchInv, Drafted
    <3>2. 1..0 = {}
      OBVIOUS
    <3> QED BY <2>3, <3>1, <3>2
  <2> QED BY <2>1, <2>2, <2>3, <2>4 DEF TypeOK
<1> QED BY <1>1, LaunchInvariant, PTL

(* A plan that is WITHIN_CONFIGURED_CAPS trips none of them as long as     *)
(* nothing else is spent, also when its requests are submitted again,      *)
(* although the service compares it with an empty window                   *)
(* (assessLaunchExecutionCaps against checkCaps).                          *)
THEOREM PlansForetellCaps == ASSUME LaunchAssumption PROVE Spec => []CapsForetell
<1>1. LaunchInv => CapsForetell
  BY DEF LaunchInv, Spent
<1> QED BY <1>1, LaunchInvariant, PTL

(* The draft whose position is open, and the position.                     *)
LEMMA OpenedDraft ==
  ASSUME LaunchAssumption, LaunchInv, Opened
  PROVE  /\ draft # NoDraft /\ Faithful(draft) /\ draft.number = drafts
         /\ pools[draft.pool] # NoPool /\ Begun
         /\ \E position \in positions : position = PositionOf(draft)
<1>1. requests["open"] = "RECONCILED"
  BY DEF Opened
<1>2. Begun /\ pools[draft.pool] # NoPool
  BY <1>1 DEF LaunchInv, Own, Begun
<1>3. draft # NoDraft
  BY <1>1 DEF LaunchInv, Drafted, Kinds
<1> QED BY <1>2, <1>3 DEF LaunchInv, Drafted, Own

(* The known minimum is enough: a wallet that covered it still holds the   *)
(* gas reserve once the position is open, but for the network fees         *)
(* (minimumWalletSolWithKnownAccountRent); any other lacks no more than    *)
(* the rent, because the reserve was checked (checkReserve).               *)
THEOREM MinimumKeepsGas == ASSUME LaunchAssumption PROVE Spec => []WalletKeepsGas
<1>1. ASSUME LaunchInv PROVE WalletKeepsGas
  <2>1. SUFFICES ASSUME Opened
                 PROVE  /\ draft.covers => spendable + drained + 3 * NetworkFee >= Gas
                        /\ spendable + drained + draft.plan.rent + 3 * NetworkFee >= Gas
    BY DEF WalletKeepsGas
  <2>2. /\ Faithful(draft) /\ draft # NoDraft /\ draft.number = drafts
        /\ \E position \in positions : position = PositionOf(draft)
    BY <1>1, <2>1, OpenedDraft
  <2>3. /\ spendable + drained + CreationPaid + OpeningPaid = draft.wallet
        /\ OpeningPaid = OpeningCost(draft) /\ CreationPaid \in {0, CreationRent + NetworkFee}
    <3>1. PositionOf(draft).by = drafts
      BY <2>2 DEF PositionOf
    <3> QED BY <1>1, <2>2, <3>1 DEF LaunchInv, Paid, OpeningPaid, CreationPaid
  <2>4. draft.amount.sol + Gas <= draft.wallet
    BY <1>1, <2>1 DEF LaunchInv, Reserved, Opened, KeepsReserve
  <2>5. draft.covers =>
          draft.wallet >= draft.amount.sol + Gas + (CreationRent + OpeningRent(draft.plan.account))
    BY <2>2 DEF Faithful, Sound
  <2>6. /\ CreationRent \in Nat /\ NetworkFee \in Nat /\ draft.wallet \in Nat /\ Gas \in Nat
        /\ OpeningRent(draft.plan.account) \in Nat /\ draft.amount.sol \in Nat
        /\ draft.plan.rent = CreationRent + OpeningRent(draft.plan.account)
        /\ spendable \in Nat /\ drained \in Nat
    BY <1>1, <2>2, FaithfulTypes DEF LaunchInv, Counted
  <2> QED BY <2>3, <2>4, <2>5, <2>6 DEF OpeningCost
<1> QED BY <1>1, LaunchInvariant, PTL

(* What is open is what was last reviewed: the draft's amounts in the      *)
(* draft's bins and account, in a pool of the preset that was asked for;   *)
(* and unless others disturbed the pool, at the representable price        *)
(* nearest to the amounts and around it (draftLaunchExecution, open).      *)
THEOREM PositionsAreReviewed == ASSUME LaunchAssumption PROVE Spec => []OpenedAsReviewed
<1>1. ASSUME LaunchInv PROVE OpenedAsReviewed
  <2> DEFINE pool == pools[draft.pool]
  <2>1. SUFFICES ASSUME Opened
                 PROVE  \E position \in positions :
          /\ position.pool = draft.pool /\ position.funded = draft.plan.funded
          /\ position.token = draft.plan.amount.token /\ position.sol = draft.plan.amount.sol
          /\ Within(position.funded, position.account)
          /\ draft.pool # Proxy \/ ~disturbed =>
                pool.step = draft.plan.step /\ pool.fee = draft.plan.fee
          /\ ~disturbed =>
               /\ \A bin \in DOMAIN Price :
                    Deviation(pool.bin, position) <= Deviation(bin, position)
               /\ Holds(position.funded, pool.bin)
    BY DEF OpenedAsReviewed
  <2>2. /\ Faithful(draft) /\ Begun /\ pool # NoPool
        /\ \E position \in positions : position = PositionOf(draft)
    BY <1>1, <2>1, OpenedDraft
  <2> DEFINE position == PositionOf(draft)
  <2>3. /\ position \in positions
        /\ position.pool = draft.pool /\ position.funded = draft.plan.funded
        /\ position.token = draft.plan.amount.token /\ position.sol = draft.plan.amount.sol
        /\ position.account = draft.plan.account
    BY <2>2 DEF PositionOf, Faithful, Sound
  <2> HIDE DEF position
  <2>4. Within(position.funded, position.account)
    BY <2>2, <2>3 DEF Faithful, Sound
  <2>5. ASSUME ~disturbed
        PROVE  /\ pool.bin = draft.plan.active /\ pool.step = draft.step /\ pool.fee = draft.fee
    BY <1>1, <2>2, <2>5 DEF LaunchInv, Own, PoolOf
  <2>6. draft.pool # Proxy => pool.step = draft.step /\ pool.fee = draft.fee
    BY <1>1, <2>2 DEF LaunchInv, OnChain, Faithful, Addresses
  <2>7. draft.step = draft.plan.step /\ draft.fee = draft.plan.fee
    BY <2>2 DEF Faithful
  <2>8. ASSUME ~disturbed
        PROVE  /\ \A bin \in DOMAIN Price :
                    Deviation(pool.bin, position) <= Deviation(bin, position)
               /\ Holds(position.funded, pool.bin)
    <3>1. \A bin : Deviation(bin, position) = Deviation(bin, draft.plan.amount)
      BY <2>3 DEF Deviation
    <3> QED BY <2>2, <2>3, <2>5, <2>8, <3>1 DEF Faithful, Sound
  <2> HIDE DEF pool
  <2> QED BY <2>3, <2>4, <2>5, <2>6, <2>7, <2>8
<1> QED BY <1>1, LaunchInvariant, PTL

=============================================================================
