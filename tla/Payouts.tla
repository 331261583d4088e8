------------------------------ MODULE Payouts -------------------------------
(***************************************************************************)
(* Where a project's funds go: changes of the withdrawal address           *)
(* (service/addressChanges.ts) and withdrawal requests                     *)
(* (service/withdrawals.ts) of one project wallet.  Each await ends a      *)
(* step; applyAddressChange is one database transaction, of which only its *)
(* read and its commit are seen by others.                                 *)
(***************************************************************************)
EXTENDS Naturals, Sequences

CONSTANTS
  Address,         \* addresses
  Registered,      \* the address the wallet starts with
  Caller,          \* callers of these functions
  Scenarios,       \* whether callers overlap, one set per behaviour
  Delay,           \* ADDRESS_CHANGE_DELAY_MS
  MaxTime,         \* bound: ticks of the clock
  MaxChanges,      \* bound: requests for a change
  MaxWithdrawals   \* bound: withdrawal requests

(* What the constants have to be: assumed by whoever instantiates this.    *)
PayoutsAssumption ==
  /\ Registered \in Address
  /\ Scenarios \subseteq SUBSET {"race"}
  /\ {Delay, MaxTime, MaxChanges, MaxWithdrawals} \subseteq Nat

VARIABLES
  env,          \* the scenario
  now,          \* the clock
  wallet,       \* withdrawalAddress of the project wallet
  changes,      \* AddressChangeRequest rows
  withdrawals,  \* WithdrawalRequest rows
  call          \* the calls in progress

vars == <<env, now, wallet, changes, withdrawals, call>>

(* asked (history): when the request was made; confirmed: confirmedAt is   *)
(* set, which nothing clears.                                              *)
Change == [to : Address, asked : Nat, effectiveAfter : Nat, confirmed : BOOLEAN,
           status : {"PENDING_CONFIRMATION", "PENDING_DELAY", "APPLIED"}]

Withdrawal == [address : Address, status : {"REQUESTED", "PROCESSING", "COMPLETED"}]

(* at: when a request for a change was made.                               *)
Call == [step : {"idle", "create-change", "apply", "find", "create-withdrawal"},
         address : Address, change : Nat, at : Nat]

Idle == [step |-> "idle", address |-> Registered, change |-> 0, at |-> 0]

TypeOK ==
  /\ env \in Scenarios
  /\ now \in 0..MaxTime
  /\ wallet \in Address
  /\ changes \in Seq(Change)
  /\ withdrawals \in Seq(Withdrawal)
  /\ call \in [Caller -> Call]

Init ==
  /\ env \in Scenarios
  /\ now = 0
  /\ wallet = Registered
  /\ changes = <<>>
  /\ withdrawals = <<>>
  /\ call = [c \in Caller |-> Idle]

-----------------------------------------------------------------------------

Tick ==
  /\ now < MaxTime
  /\ now' = now + 1
  /\ UNCHANGED <<env, wallet, changes, withdrawals, call>>

(* Unless callers overlap, a call starts after the last one has ended.     *)
MayStart(c) ==
  /\ call[c] = Idle
  /\ "race" \in env \/ call = [d \in Caller |-> Idle]

At(c, step) == call[c].step = step

Return(c) == call' = [call EXCEPT ![c] = Idle]

(* Any await throws, or the process dies there: an answer that is lost     *)
(* after its effect is the effect, followed by the retry of the caller.    *)
Throw(c) ==
  /\ call[c] # Idle
  /\ Return(c)
  /\ UNCHANGED <<env, now, wallet, changes, withdrawals>>

-----------------------------------------------------------------------------
(* Address changes *)

RequestAddressChange(c, to) ==
  /\ MayStart(c)
  /\ to # wallet
  /\ call' = [call EXCEPT ![c] = [step |-> "create-change", address |-> to,
                                  change |-> 0, at |-> now]]
  /\ UNCHANGED <<env, now, wallet, changes, withdrawals>>

CreateChange(c) ==
  /\ At(c, "create-change")
  /\ Len(changes) < MaxChanges
  /\ changes' = Append(changes, [to |-> call[c].address, asked |-> call[c].at,
                                 effectiveAfter |-> call[c].at + Delay,
                                 status |-> "PENDING_CONFIRMATION", confirmed |-> FALSE])
  /\ Return(c)
  /\ UNCHANGED <<env, now, wallet, withdrawals>>

(* One update by id, whatever state the request is in.                     *)
ConfirmAddressChange(i) ==
  /\ changes' = [changes EXCEPT ![i].status = "PENDING_DELAY", ![i].confirmed = TRUE]
  /\ UNCHANGED <<env, now, wallet, withdrawals, call>>

(* Mutation of MayApply: a confirmation is enough.                         *)
MayApplyAtOnce(i) == changes[i].status = "PENDING_DELAY" /\ changes[i].confirmed

MayApply(i) ==
  /\ changes[i].status = "PENDING_DELAY" /\ changes[i].confirmed
  /\ now >= changes[i].effectiveAfter

ReadChange(c, i) ==
  /\ MayStart(c)
  /\ MayApply(i)
  /\ call' = [call EXCEPT ![c] = [step |-> "apply", address |-> changes[i].to,
                                  change |-> i, at |-> 0]]
  /\ UNCHANGED <<env, now, wallet, changes, withdrawals>>

(* Both updates of the transaction; the lock on the wallet's row makes     *)
(* overlapping transactions commit one after the other.                    *)
CommitChange(c) ==
  /\ At(c, "apply")
  /\ wallet' = call[c].address
  /\ changes' = [changes EXCEPT ![call[c].change].status = "APPLIED"]
  /\ Return(c)
  /\ UNCHANGED <<env, now, withdrawals>>

-----------------------------------------------------------------------------
(* requestFullWithdrawal *)

Withdraw(c) ==
  /\ MayStart(c)
  /\ call' = [call EXCEPT ![c] = [step |-> "find", address |-> wallet, change |-> 0, at |-> 0]]
  /\ UNCHANGED <<env, now, wallet, changes, withdrawals>>

(* Mutation of OpenStatuses: a request being processed is not open.        *)
OpenRequested == {"REQUESTED"}

OpenStatuses == {"REQUESTED", "PROCESSING"}

Open == {i \in DOMAIN withdrawals : withdrawals[i].status \in OpenStatuses}

(* An open request is answered again, with the address it has.             *)
FindOpen(c) ==
  /\ At(c, "find")
  /\ IF Open # {} THEN Return(c) ELSE call' = [call EXCEPT ![c].step = "create-withdrawal"]
  /\ UNCHANGED <<env, now, wallet, changes, withdrawals>>

CreateWithdrawal(c) ==
  /\ At(c, "create-withdrawal")
  /\ Len(withdrawals) < MaxWithdrawals
  /\ withdrawals' = Append(withdrawals, [address |-> call[c].address, status |-> "REQUESTED"])
  /\ Return(c)
  /\ UNCHANGED <<env, now, wallet, changes>>

(* The withdrawal worker (external: not in the repository yet).            *)
Process(i) ==
  /\ withdrawals[i].status # "COMPLETED"
  /\ withdrawals' = [withdrawals EXCEPT ![i].status =
                       IF @ = "REQUESTED" THEN "PROCESSING" ELSE "COMPLETED"]
  /\ UNCHANGED <<env, now, wallet, changes, call>>

Next ==
  \/ Tick
  \/ \E i \in DOMAIN changes : ConfirmAddressChange(i)
  \/ \E i \in DOMAIN withdrawals : Process(i)
  \/ \E c \in Caller :
       \/ \E to \in Address : RequestAddressChange(c, to)
       \/ CreateChange(c)
       \/ \E i \in DOMAIN changes : ReadChange(c, i)
       \/ CommitChange(c)
       \/ Withdraw(c)
       \/ FindOpen(c)
       \/ CreateWithdrawal(c)
       \/ Throw(c)

Spec == Init /\ [][Next]_vars

-----------------------------------------------------------------------------
(* Correctness *)

(* The withdrawal address only ever changes to one that somebody asked for *)
(* at least a full delay ago and has confirmed, however requests overlap,  *)
(* are confirmed again, or are applied by two callers at once.             *)
DelayIsServed ==
  [][wallet' # wallet =>
       \E i \in DOMAIN changes :
         /\ changes[i].to = wallet'
         /\ changes[i].confirmed
         /\ now >= changes[i].asked + Delay]_vars

(* As long as its callers do not overlap, asking for a withdrawal again,   *)
(* after a lost answer or a crash too, never opens a second one            *)
(* (requestFullWithdrawal is idempotent).                                  *)
OneOpenWithdrawal ==
  "race" \notin env =>
    \A i, j \in DOMAIN withdrawals :
      withdrawals[i].status # "COMPLETED" /\ withdrawals[j].status # "COMPLETED" => i = j

=============================================================================
