---------------------------- MODULE PayoutsProofs ----------------------------
(***************************************************************************)
(* Theorems about withdrawals and changes of their address, for any number *)
(* of addresses, callers, requests and ticks and any delay.  Payouts is    *)
(* instantiated by its users, so its assumption is a hypothesis here.      *)
(***************************************************************************)
EXTENDS Payouts, SequenceTheorems, TLAPS

-----------------------------------------------------------------------------
(* Types.  TypeOK alone does not say that a call applies a request that is *)
(* there.                                                                  *)

Applying == \A c \in Caller : At(c, "apply") => call[c].change \in DOMAIN changes

Typed == TypeOK /\ Applying

(* What the three actions that touch a row make of it.                     *)
ConfirmedRow(r) == [r EXCEPT !.status = "PENDING_DELAY", !.confirmed = TRUE]
AppliedRow(r) == [r EXCEPT !.status = "APPLIED"]
ProcessedRow(r) == [r EXCEPT !.status = IF @ = "REQUESTED" THEN "PROCESSING" ELSE "COMPLETED"]
NewRow(k) == [to |-> k.address, asked |-> k.at, effectiveAfter |-> k.at + Delay,
              status |-> "PENDING_CONFIRMATION", confirmed |-> FALSE]
NewWithdrawal(k) == [address |-> k.address, status |-> "REQUESTED"]

LEMMA RowTypes ==
  ASSUME PayoutsAssumption
  PROVE  /\ \A r \in Change : ConfirmedRow(r) \in Change /\ AppliedRow(r) \in Change
         /\ \A r \in Withdrawal : ProcessedRow(r) \in Withdrawal
         /\ \A k \in Call : NewRow(k) \in Change /\ NewWithdrawal(k) \in Withdrawal
<1>1. Delay \in Nat
  BY DEF PayoutsAssumption
<1>2. ASSUME NEW r \in Change
      PROVE  ConfirmedRow(r) \in Change /\ AppliedRow(r) \in Change
  BY DEF ConfirmedRow, AppliedRow, Change
<1>3. ASSUME NEW r \in Withdrawal
      PROVE  ProcessedRow(r) \in Withdrawal
  BY DEF ProcessedRow, Withdrawal
<1>4. ASSUME NEW k \in Call
      PROVE  NewRow(k) \in Change /\ NewWithdrawal(k) \in Withdrawal
  BY <1>1 DEF NewRow, NewWithdrawal, Change, Withdrawal, Call
<1> QED BY <1>2, <1>3, <1>4

(* One row of a sequence is replaced, or one is added.                     *)
LEMMA RowReplaced ==
  ASSUME NEW S, NEW s \in Seq(S), NEW i \in DOMAIN s, NEW r \in S
  PROVE  /\ [s EXCEPT ![i] = r] \in Seq(S)
         /\ DOMAIN [s EXCEPT ![i] = r] = DOMAIN s
         /\ [s EXCEPT ![i] = r][i] = r
         /\ \A j \in DOMAIN s : j # i => [s EXCEPT ![i] = r][j] = s[j]
BY ExceptSeq

LEMMA RowAdded ==
  ASSUME NEW S, NEW s \in Seq(S), NEW r \in S
  PROVE  /\ Append(s, r) \in Seq(S)
         /\ DOMAIN Append(s, r) = DOMAIN s \cup {Len(s) + 1}
         /\ Append(s, r)[Len(s) + 1] = r
         /\ \A j \in DOMAIN s : Append(s, r)[j] = s[j] /\ j # Len(s) + 1
<1>1. /\ Append(s, r) \in Seq(S)
      /\ Len(Append(s, r)) = Len(s) + 1
      /\ \A i \in 1..Len(s) : Append(s, r)[i] = s[i]
      /\ Append(s, r)[Len(s) + 1] = r
  BY AppendProperties
<1> QED BY <1>1

(* What each action does to the rows.                                      *)
LEMMA ConfirmEffect ==
  ASSUME Typed, NEW i \in DOMAIN changes, ConfirmAddressChange(i)
  PROVE  /\ changes[i] \in Change
         /\ changes' = [changes EXCEPT ![i] = ConfirmedRow(changes[i])]
         /\ UNCHANGED <<env, now, wallet, withdrawals, call>>
<1>1. changes \in Seq(Change) /\ changes[i] \in Change
  BY DEF Typed, TypeOK
<1>2. changes' = [[changes EXCEPT ![i] = [changes[i] EXCEPT !.status = "PENDING_DELAY"]]
                    EXCEPT ![i] = [[changes[i] EXCEPT !.status = "PENDING_DELAY"]
                                     EXCEPT !.confirmed = TRUE]]
  BY <1>1 DEF ConfirmAddressChange
<1>3. changes' = [changes EXCEPT ![i] = [[changes[i] EXCEPT !.status = "PENDING_DELAY"]
                                           EXCEPT !.confirmed = TRUE]]
  BY <1>2
<1>4. ConfirmedRow(changes[i]) = [[changes[i] EXCEPT !.status = "PENDING_DELAY"]
                                    EXCEPT !.confirmed = TRUE]
  BY DEF ConfirmedRow
<1> QED BY <1>1, <1>3, <1>4 DEF ConfirmAddressChange

LEMMA CommitEffect ==
  ASSUME Typed, NEW c \in Caller, CommitChange(c)
  PROVE  /\ call[c].change \in DOMAIN changes /\ changes[call[c].change] \in Change
         /\ changes' = [changes EXCEPT ![call[c].change] = AppliedRow(changes[call[c].change])]
         /\ wallet' = call[c].address /\ call' = [call EXCEPT ![c] = Idle]
         /\ UNCHANGED <<env, now, withdrawals>>
<1>1. call[c].change \in DOMAIN changes
  BY DEF CommitChange, Typed, Applying
<1> QED BY <1>1 DEF Typed, TypeOK, CommitChange, AppliedRow, Return

LEMMA CreateEffect ==
  ASSUME Typed, NEW c \in Caller, CreateChange(c)
  PROVE  /\ call[c] \in Call
         /\ changes' = Append(changes, NewRow(call[c]))
         /\ call' = [call EXCEPT ![c] = Idle]
         /\ UNCHANGED <<env, now, wallet, withdrawals>>
BY DEF Typed, TypeOK, CreateChange, NewRow, Return

LEMMA ProcessEffect ==
  ASSUME Typed, NEW i \in DOMAIN withdrawals, Process(i)
  PROVE  /\ withdrawals[i] \in Withdrawal
         /\ withdrawals' = [withdrawals EXCEPT ![i] = ProcessedRow(withdrawals[i])]
         /\ UNCHANGED <<env, now, wallet, changes, call>>
BY DEF Typed, TypeOK, Process, ProcessedRow

LEMMA CreateWithdrawalEffect ==
  ASSUME Typed, NEW c \in Caller, CreateWithdrawal(c)
  PROVE  /\ call[c] \in Call
         /\ withdrawals' = Append(withdrawals, NewWithdrawal(call[c]))
         /\ call' = [call EXCEPT ![c] = Idle]
         /\ UNCHANGED <<env, now, wallet, changes>>
BY DEF Typed, TypeOK, CreateWithdrawal, NewWithdrawal, Return

LEMMA TypedStep ==
  ASSUME PayoutsAssumption, Typed, [Next]_vars
  PROVE  Typed'
<1> USE DEF Typed, TypeOK, Applying, At
<1>0. Idle \in Call /\ Idle.step = "idle" /\ Registered \in Address
  BY DEF Idle, Call, PayoutsAssumption
<1>1. CASE Tick
  BY <1>1 DEF Tick, PayoutsAssumption
<1>2. ASSUME NEW i \in DOMAIN changes, ConfirmAddressChange(i)
      PROVE  Typed'
  <2>1. /\ changes[i] \in Change
        /\ changes' = [changes EXCEPT ![i] = ConfirmedRow(changes[i])]
        /\ UNCHANGED <<env, now, wallet, withdrawals, call>>
    BY <1>2, ConfirmEffect
  <2>2. changes' \in Seq(Change) /\ DOMAIN changes' = DOMAIN changes
    BY <2>1, RowTypes, RowReplaced
  <2> QED BY <2>1, <2>2
<1>3. ASSUME NEW i \in DOMAIN withdrawals, Process(i)
      PROVE  Typed'
  <2>1. /\ withdrawals[i] \in Withdrawal
        /\ withdrawals' = [withdrawals EXCEPT ![i] = ProcessedRow(withdrawals[i])]
        /\ UNCHANGED <<env, now, wallet, changes, call>>
    BY <1>3, ProcessEffect
  <2>2. withdrawals' \in Seq(Withdrawal)
    BY <2>1, RowTypes, RowReplaced
  <2> QED BY <2>1, <2>2
<1>4. ASSUME NEW c \in Caller, NEW to \in Address, RequestAddressChange(c, to)
      PROVE  Typed'
  BY <1>4 DEF RequestAddressChange, MayStart, Call
<1>5. ASSUME NEW c \in Caller, CreateChange(c)
      PROVE  Typed'
  <2>1. /\ call[c] \in Call
        /\ changes' = Append(changes, NewRow(call[c]))
        /\ call' = [call EXCEPT ![c] = Idle]
        /\ UNCHANGED <<env, now, wallet, withdrawals>>
    BY <1>5, CreateEffect
  <2>2. changes' \in Seq(Change) /\ DOMAIN changes \subseteq DOMAIN changes'
    BY <2>1, RowTypes, RowAdded
  <2> QED BY <1>0, <2>1, <2>2
<1>6. ASSUME NEW c \in Caller, NEW i \in DOMAIN changes, ReadChange(c, i)
      PROVE  Typed'
  <2> DEFINE k == [step |-> "apply", address |-> changes[i].to, change |-> i, at |-> 0]
  <2>1. changes[i] \in Change /\ i \in Nat
    OBVIOUS
  <2>2. k \in Call /\ k.step = "apply" /\ k.change = i
    BY <2>1 DEF Call, Change
  <2>3. call' = [call EXCEPT ![c] = k] /\ UNCHANGED <<env, now, wallet, changes, withdrawals>>
    BY <1>6 DEF ReadChange
  <2> HIDE DEF k
  <2> QED BY <2>2, <2>3
<1>7. ASSUME NEW c \in Caller, CommitChange(c)
      PROVE  Typed'
  <2>1. /\ call[c].change \in DOMAIN changes /\ changes[call[c].change] \in Change
        /\ changes' = [changes EXCEPT ![call[c].change] = AppliedRow(changes[call[c].change])]
        /\ wallet' = call[c].address /\ call' = [call EXCEPT ![c] = Idle]
        /\ UNCHANGED <<env, now, withdrawals>>
    BY <1>7, CommitEffect
  <2>2. changes' \in Seq(Change) /\ DOMAIN changes' = DOMAIN changes
    BY <2>1, RowTypes, RowReplaced
  <2>3. call[c].address \in Address
    BY DEF Call
  <2> QED BY <1>0, <2>1, <2>2, <2>3
<1>8. ASSUME NEW c \in Caller, Withdraw(c) \/ FindOpen(c) \/ Throw(c)
      PROVE  Typed'
  <2>1. PICK k \in Call : k.step # "apply" /\ call' = [call EXCEPT ![c] = k]
    BY <1>0, <1>8 DEF Withdraw, FindOpen, Throw, Return, Call
  <2>2. UNCHANGED <<env, now, wallet, changes, withdrawals>>
    BY <1>8 DEF Withdraw, FindOpen, Throw
  <2> QED BY <2>1, <2>2
<1>9. ASSUME NEW c \in Caller, CreateWithdrawal(c)
      PROVE  Typed'
  <2>1. /\ call[c] \in Call
        /\ withdrawals' = Append(withdrawals, NewWithdrawal(call[c]))
        /\ call' = [call EXCEPT ![c] = Idle]
        /\ UNCHANGED <<env, now, wallet, changes>>
    BY <1>9, CreateWithdrawalEffect
  <2>2. withdrawals' \in Seq(Withdrawal)
    BY <2>1, RowTypes, RowAdded
  <2> QED BY <1>0, <2>1, <2>2
<1>10. CASE UNCHANGED vars
  BY <1>10 DEF vars
<1> QED
  BY <1>1, <1>2, <1>3, <1>4, <1>5, <1>6, <1>7, <1>8, <1>9, <1>10, Zenon DEF Next

LEMMA TypedInvariant ==
  ASSUME PayoutsAssumption
  PROVE  /\ Init => Typed
         /\ Typed /\ [Next]_vars => Typed'
<1>1. Init => Typed
  BY DEF Init, Typed, TypeOK, Applying, At, Idle, Call, PayoutsAssumption
<1> QED BY <1>1, TypedStep

(* Every variable keeps its type, with callers that overlap or throw       *)
(* anywhere (Payouts; addressChanges.ts, withdrawals.ts).                  *)
THEOREM PayoutsTypeOK ==
  ASSUME PayoutsAssumption
  PROVE  Spec => []TypeOK
<1>1. Typed => TypeOK
  BY DEF Typed
<1> QED BY <1>1, TypedInvariant, PTL DEF Spec

-----------------------------------------------------------------------------
(* The delay.  A request carries the end of its delay from the start, a    *)
(* confirmation is never withdrawn, and a call that has read a request it  *)
(* may apply may still apply it when it commits.                           *)

DelayNoted == \A i \in DOMAIN changes : changes[i].effectiveAfter = changes[i].asked + Delay

Ripe(i) == changes[i].confirmed /\ now >= changes[i].asked + Delay

AppliesRipe ==
  \A c \in Caller : At(c, "apply") =>
    Ripe(call[c].change) /\ call[c].address = changes[call[c].change].to

DelayInv == Typed /\ DelayNoted /\ AppliesRipe

(* Rows are only ever added and confirmed.                                 *)
RowsStay ==
  /\ DOMAIN changes \subseteq DOMAIN changes'
  /\ \A i \in DOMAIN changes :
       /\ changes'[i].to = changes[i].to
       /\ changes'[i].asked = changes[i].asked
       /\ changes'[i].effectiveAfter = changes[i].effectiveAfter
       /\ changes[i].confirmed => changes'[i].confirmed
  /\ \A i \in DOMAIN changes' \ DOMAIN changes :
       changes'[i].effectiveAfter = changes'[i].asked + Delay

LEMMA RowsStayStep ==
  ASSUME PayoutsAssumption, Typed, [Next]_vars
  PROVE  RowsStay /\ now' \in Nat /\ now <= now'
<1> USE DEF RowsStay
<1>1. now \in Nat /\ changes \in Seq(Change) /\ call \in [Caller -> Call]
  BY DEF Typed, TypeOK, PayoutsAssumption
<1>2. UNCHANGED changes => RowsStay
  OBVIOUS
<1>3. ASSUME NEW i \in DOMAIN changes, ConfirmAddressChange(i)
      PROVE  RowsStay /\ UNCHANGED now
  <2>1. /\ changes[i] \in Change
        /\ changes' = [changes EXCEPT ![i] = ConfirmedRow(changes[i])]
        /\ UNCHANGED now
    BY <1>3, ConfirmEffect
  <2>2. /\ DOMAIN changes' = DOMAIN changes /\ changes'[i] = ConfirmedRow(changes[i])
        /\ \A j \in DOMAIN changes : j # i => changes'[j] = changes[j]
    BY <1>1, <2>1, RowTypes, RowReplaced
  <2>3. LET r == changes[i]
        IN  /\ ConfirmedRow(r).to = r.to /\ ConfirmedRow(r).asked = r.asked
            /\ ConfirmedRow(r).effectiveAfter = r.effectiveAfter /\ ConfirmedRow(r).confirmed
    BY <2>1 DEF ConfirmedRow, Change
  <2> QED BY <2>1, <2>2, <2>3
<1>4. ASSUME NEW c \in Caller, CreateChange(c)
      PROVE  RowsStay /\ UNCHANGED now
  <2>1. call[c] \in Call /\ changes' = Append(changes, NewRow(call[c])) /\ UNCHANGED now
    BY <1>4, CreateEffect
  <2>2. /\ DOMAIN changes' = DOMAIN changes \cup {Len(changes) + 1}
        /\ changes'[Len(changes) + 1] = NewRow(call[c])
        /\ \A j \in DOMAIN changes : changes'[j] = changes[j]
    BY <1>1, <2>1, RowTypes, RowAdded
  <2>3. NewRow(call[c]).effectiveAfter = NewRow(call[c]).asked + Delay
    BY DEF NewRow
  <2> QED BY <2>1, <2>2, <2>3
<1>5. ASSUME NEW c \in Caller, CommitChange(c)
      PROVE  RowsStay /\ UNCHANGED now
  <2> DEFINE i == call[c].change
  <2>1. /\ i \in DOMAIN changes /\ changes[i] \in Change
        /\ changes' = [changes EXCEPT ![i] = AppliedRow(changes[i])]
        /\ UNCHANGED now
    BY <1>5, CommitEffect
  <2>2. /\ DOMAIN changes' = DOMAIN changes /\ changes'[i] = AppliedRow(changes[i])
        /\ \A j \in DOMAIN changes : j # i => changes'[j] = changes[j]
    BY <1>1, <2>1, RowTypes, RowReplaced
  <2>3. LET r == changes[i]
        IN  /\ AppliedRow(r).to = r.to /\ AppliedRow(r).asked = r.asked
            /\ AppliedRow(r).effectiveAfter = r.effectiveAfter
            /\ AppliedRow(r).confirmed = r.confirmed
    BY <2>1 DEF AppliedRow, Change
  <2> HIDE DEF i
  <2> QED BY <2>1, <2>2, <2>3
<1>6. CASE Tick
  BY <1>1, <1>6, <1>2 DEF Tick
<1>7. CASE \/ \E i \in DOMAIN withdrawals : Process(i)
           \/ \E c \in Caller :
                \/ \E to \in Address : RequestAddressChange(c, to)
                \/ \E i \in DOMAIN changes : ReadChange(c, i)
                \/ Withdraw(c) \/ FindOpen(c) \/ CreateWithdrawal(c) \/ Throw(c)
           \/ UNCHANGED vars
  <2>1. UNCHANGED <<changes, now>>
    BY <1>7 DEF Process, RequestAddressChange, ReadChange, Withdraw, FindOpen,
                CreateWithdrawal, Throw, vars
  <2> QED BY <1>1, <1>2, <2>1
<1>8. UNCHANGED now => now' \in Nat /\ now <= now'
  BY <1>1
<1> HIDE DEF RowsStay
<1> QED BY <1>3, <1>4, <1>5, <1>6, <1>7, <1>8, Zenon DEF Next

(* A call is new, as it was, or over.                                      *)
LEMMA CallStep ==
  ASSUME Typed, [Next]_vars, NEW c \in Caller, call'[c].step = "apply"
  PROVE  \/ At(c, "apply") /\ call'[c] = call[c]
         \/ \E i \in DOMAIN changes :
              /\ MayApply(i)
              /\ call'[c].change = i /\ call'[c].address = changes[i].to
<1> USE DEF At, Return, Idle
<1>1. call \in [Caller -> Call]
  BY DEF Typed, TypeOK
<1>2. ASSUME NEW d \in Caller, NEW i \in DOMAIN changes, ReadChange(d, i)
      PROVE  \/ call'[c] = call[c]
             \/ /\ MayApply(i)
                /\ call'[c].change = i /\ call'[c].address = changes[i].to
  BY <1>1, <1>2 DEF ReadChange
<1>3. ASSUME NEW d \in Caller, NEW to \in Address, RequestAddressChange(d, to)
      PROVE  call'[c] = call[c]
  BY <1>1, <1>3 DEF RequestAddressChange
<1>4. ASSUME NEW d \in Caller, CreateChange(d) \/ CommitChange(d) \/ Withdraw(d) \/ FindOpen(d)
                               \/ CreateWithdrawal(d) \/ Throw(d)
      PROVE  call'[c] = call[c]
  <2>1. PICK k : k.step # "apply" /\ call' = [call EXCEPT ![d] = k]
    BY <1>1, <1>4 DEF CreateChange, CommitChange, Withdraw, FindOpen, CreateWithdrawal, Throw, Call
  <2> QED BY <1>1, <2>1
<1>5. CASE \/ Tick \/ (\E i \in DOMAIN changes : ConfirmAddressChange(i))
           \/ (\E i \in DOMAIN withdrawals : Process(i)) \/ UNCHANGED vars
  BY <1>5 DEF Tick, ConfirmAddressChange, Process, vars
<1> QED BY <1>2, <1>3, <1>4, <1>5 DEF Next

LEMMA DelayStep ==
  ASSUME PayoutsAssumption, DelayInv, [Next]_vars
  PROVE  DelayNoted' /\ AppliesRipe'
<1>1. Typed /\ now \in Nat /\ Delay \in Nat /\ \A i \in DOMAIN changes : changes[i] \in Change
  BY DEF DelayInv, Typed, TypeOK, PayoutsAssumption
<1>2. RowsStay /\ now' \in Nat /\ now <= now'
  BY <1>1, RowsStayStep
<1>3. DelayNoted'
  BY <1>2 DEF DelayInv, DelayNoted, RowsStay
<1>4. ASSUME NEW i \in DOMAIN changes, Ripe(i)
      PROVE  /\ i \in DOMAIN changes' /\ changes'[i].to = changes[i].to
             /\ changes'[i].confirmed /\ now' >= changes'[i].asked + Delay
  <2>1. changes[i].asked \in Nat
    BY <1>1 DEF Change
  <2> QED BY <1>1, <1>2, <1>4, <2>1 DEF RowsStay, Ripe
<1>5. ASSUME NEW i \in DOMAIN changes, MayApply(i)
      PROVE  Ripe(i)
  BY <1>5 DEF MayApply, Ripe, DelayInv, DelayNoted
<1>6. ASSUME NEW c \in Caller, call'[c].step = "apply"
      PROVE  /\ changes'[call'[c].change].confirmed
             /\ now' >= changes'[call'[c].change].asked + Delay
             /\ call'[c].address = changes'[call'[c].change].to
  <2>1. CASE At(c, "apply") /\ call'[c] = call[c]
    <3>1. /\ call[c].change \in DOMAIN changes /\ Ripe(call[c].change)
          /\ call[c].address = changes[call[c].change].to
      BY <2>1 DEF DelayInv, AppliesRipe, Typed, Applying
    <3> QED BY <1>4, <2>1, <3>1
  <2>2. CASE \E i \in DOMAIN changes :
               MayApply(i) /\ call'[c].change = i /\ call'[c].address = changes[i].to
    <3>1. PICK i \in DOMAIN changes :
            MayApply(i) /\ call'[c].change = i /\ call'[c].address = changes[i].to
      BY <2>2
    <3> QED BY <1>4, <1>5, <3>1
  <2> QED BY <1>1, <1>6, <2>1, <2>2, CallStep
<1> QED BY <1>3, <1>6 DEF AppliesRipe, At, Ripe

(* The withdrawal address only moves to one that was asked for a full      *)
(* delay ago and confirmed, whatever overlaps (applyAddressChange). This   *)
(* is DelayIsServed of the runs.                                           *)
THEOREM DelaysAreServed ==
  ASSUME PayoutsAssumption
  PROVE  Spec => DelayIsServed
<1>1. Init => DelayInv
  <2>1. Init => DelayNoted /\ AppliesRipe
    BY DEF Init, DelayNoted, AppliesRipe, At, Idle
  <2> QED BY <2>1, TypedInvariant DEF DelayInv
<1>2. DelayInv /\ [Next]_vars => DelayInv'
  BY DelayStep, TypedInvariant DEF DelayInv
<1>3. DelayInv /\ [Next]_vars =>
        [wallet' # wallet =>
           \E i \in DOMAIN changes :
             /\ changes[i].to = wallet'
             /\ changes[i].confirmed
             /\ now >= changes[i].asked + Delay]_vars
  <2> SUFFICES ASSUME DelayInv, [Next]_vars, wallet' # wallet
               PROVE  \E i \in DOMAIN changes :
                        /\ changes[i].to = wallet'
                        /\ changes[i].confirmed
                        /\ now >= changes[i].asked + Delay
    OBVIOUS
  <2>1. PICK c \in Caller : CommitChange(c)
    BY DEF Next, Tick, ConfirmAddressChange, Process, RequestAddressChange, CreateChange,
           ReadChange, Withdraw, FindOpen, CreateWithdrawal, Throw, vars
  <2>2. At(c, "apply") /\ wallet' = call[c].address
    BY <2>1 DEF CommitChange
  <2> QED BY <2>2 DEF DelayInv, AppliesRipe, Ripe, Typed, Applying
<1> QED BY <1>1, <1>2, <1>3, PTL DEF Spec, DelayIsServed

-----------------------------------------------------------------------------
(* One open withdrawal.  While callers do not overlap, nobody else creates *)
(* a request between the search of one and its insert.                     *)

OneCall == \A c, d \in Caller : call[c] # Idle /\ call[d] # Idle => c = d

FoundNone == \A c \in Caller : At(c, "create-withdrawal") =>
  \A i \in DOMAIN withdrawals : withdrawals[i].status = "COMPLETED"

OpenInv == Typed /\ OneOpenWithdrawal /\ ("race" \notin env => OneCall /\ FoundNone)

LEMMA OneCallStep ==
  ASSUME Typed, "race" \notin env, OneCall, [Next]_vars
  PROVE  OneCall'
<1> USE DEF OneCall, Return, MayStart
<1>1. call \in [Caller -> Call]
  BY DEF Typed, TypeOK
<1>2. ASSUME NEW c \in Caller, MayStart(c), \A d \in Caller : d # c => call'[d] = call[d]
      PROVE  OneCall'
  BY <1>1, <1>2
<1>3. ASSUME NEW c \in Caller, call[c] # Idle, \A d \in Caller : d # c => call'[d] = call[d]
      PROVE  OneCall'
  BY <1>1, <1>3
<1>4. ASSUME NEW c \in Caller, NEW to \in Address, RequestAddressChange(c, to)
      PROVE  OneCall'
  BY <1>1, <1>2, <1>4 DEF RequestAddressChange
<1>5. ASSUME NEW c \in Caller, NEW i \in DOMAIN changes, ReadChange(c, i)
      PROVE  OneCall'
  BY <1>1, <1>2, <1>5 DEF ReadChange
<1>6. ASSUME NEW c \in Caller, Withdraw(c)
      PROVE  OneCall'
  BY <1>1, <1>2, <1>6 DEF Withdraw
<1>7. ASSUME NEW c \in Caller, CreateChange(c) \/ CommitChange(c) \/ FindOpen(c)
                               \/ CreateWithdrawal(c) \/ Throw(c)
      PROVE  OneCall'
  <2>1. call[c] # Idle /\ \A d \in Caller : d # c => call'[d] = call[d]
    BY <1>1, <1>7 DEF CreateChange, CommitChange, FindOpen, CreateWithdrawal, Throw, At, Idle
  <2> QED BY <1>3, <2>1
<1>8. CASE \/ Tick \/ (\E i \in DOMAIN changes : ConfirmAddressChange(i))
           \/ (\E i \in DOMAIN withdrawals : Process(i)) \/ UNCHANGED vars
  BY <1>8 DEF Tick, ConfirmAddressChange, Process, vars
<1> QED BY <1>4, <1>5, <1>6, <1>7, <1>8, Zenon DEF Next

LEMMA OpenStep ==
  ASSUME PayoutsAssumption, OpenInv, [Next]_vars, "race" \notin env'
  PROVE  OneOpenWithdrawal' /\ OneCall' /\ FoundNone'
<1> USE DEF At
<1>1. /\ Typed /\ call \in [Caller -> Call] /\ withdrawals \in Seq(Withdrawal)
  BY DEF OpenInv, Typed, TypeOK
<1>2. UNCHANGED env
  BY DEF Next, Tick, ConfirmAddressChange, Process, RequestAddressChange, CreateChange,
         ReadChange, CommitChange, Withdraw, FindOpen, CreateWithdrawal, Throw, vars
<1>3. /\ "race" \notin env /\ OneCall /\ FoundNone
      /\ \A i, j \in DOMAIN withdrawals :
           withdrawals[i].status # "COMPLETED" /\ withdrawals[j].status # "COMPLETED" => i = j
  BY <1>2 DEF OpenInv, OneOpenWithdrawal
<1>4. OneCall'
  BY <1>1, <1>3, OneCallStep
<1>5. ASSUME NEW c \in Caller, CreateWithdrawal(c)
      PROVE  OneOpenWithdrawal' /\ FoundNone'
  <2>1. /\ call[c].step = "create-withdrawal" /\ call'[c] = Idle
        /\ \A d \in Caller : d # c => call'[d] = call[d]
        /\ call[c] \in Call /\ withdrawals' = Append(withdrawals, NewWithdrawal(call[c]))
    BY <1>1, <1>5, CreateWithdrawalEffect DEF CreateWithdrawal
  <2>2. \A d \in Caller : call'[d].step # "create-withdrawal"
    BY <1>3, <2>1 DEF OneCall, Idle
  <2>3. \A i \in DOMAIN withdrawals : withdrawals[i].status = "COMPLETED"
    BY <1>3, <2>1 DEF FoundNone
  <2>4. NewWithdrawal(call[c]) \in Withdrawal
    BY <2>1, RowTypes
  <2>5. /\ DOMAIN withdrawals' = DOMAIN withdrawals \cup {Len(withdrawals) + 1}
        /\ \A i \in DOMAIN withdrawals : withdrawals'[i] = withdrawals[i]
    BY <1>1, <2>1, <2>4, RowAdded
  <2> QED BY <2>2, <2>3, <2>5 DEF OneOpenWithdrawal, FoundNone
<1>6. ASSUME NEW i \in DOMAIN withdrawals, Process(i)
      PROVE  OneOpenWithdrawal' /\ FoundNone'
  <2>1. /\ UNCHANGED call /\ DOMAIN withdrawals' = DOMAIN withdrawals
        /\ \A j \in DOMAIN withdrawals : withdrawals[j].status = "COMPLETED"
             => withdrawals'[j].status = "COMPLETED"
    <3>1. /\ withdrawals[i] \in Withdrawal /\ withdrawals[i].status # "COMPLETED"
          /\ withdrawals' = [withdrawals EXCEPT ![i] = ProcessedRow(withdrawals[i])]
          /\ UNCHANGED call
      BY <1>1, <1>6, ProcessEffect DEF Process
    <3> QED BY <1>1, <3>1, RowTypes, RowReplaced
  <2> QED BY <1>3, <2>1 DEF OneOpenWithdrawal, FoundNone
<1>7. ASSUME UNCHANGED withdrawals, NEW c \in Caller,
             \A d \in Caller : d # c => call'[d] = call[d],
             call'[c].step = "create-withdrawal" => Open = {}
      PROVE  OneOpenWithdrawal' /\ FoundNone'
  <2>1. \A i \in DOMAIN withdrawals :
          withdrawals[i].status \in {"REQUESTED", "PROCESSING", "COMPLETED"}
    <3>1. \A i \in DOMAIN withdrawals : withdrawals[i] \in Withdrawal
      BY <1>1
    <3> QED BY <3>1 DEF Withdrawal
  <2>2. Open = {} => \A i \in DOMAIN withdrawals : withdrawals[i].status = "COMPLETED"
    BY <2>1 DEF Open, OpenStatuses
  <2> QED BY <1>3, <1>7, <2>2 DEF OneOpenWithdrawal, FoundNone
<1>8. ASSUME NEW c \in Caller, FindOpen(c)
      PROVE  OneOpenWithdrawal' /\ FoundNone'
  <2>1. /\ UNCHANGED withdrawals /\ \A d \in Caller : d # c => call'[d] = call[d]
        /\ call'[c].step = "create-withdrawal" => Open = {}
    BY <1>1, <1>8 DEF FindOpen, Return, Idle
  <2> QED BY <1>7, <2>1
<1>9. ASSUME NEW c \in Caller,
             \/ \E to \in Address : RequestAddressChange(c, to)
             \/ \E i \in DOMAIN changes : ReadChange(c, i)
             \/ CreateChange(c) \/ CommitChange(c) \/ Withdraw(c) \/ Throw(c)
      PROVE  OneOpenWithdrawal' /\ FoundNone'
  <2>1. /\ UNCHANGED withdrawals /\ \A d \in Caller : d # c => call'[d] = call[d]
        /\ call'[c].step # "create-withdrawal"
    BY <1>1, <1>9 DEF RequestAddressChange, ReadChange, CreateChange, CommitChange, Withdraw,
                      Throw, Return, Idle
  <2> QED BY <1>7, <2>1
<1>10. CASE \/ Tick \/ (\E i \in DOMAIN changes : ConfirmAddressChange(i)) \/ UNCHANGED vars
  <2>1. withdrawals' = withdrawals /\ call' = call
    BY <1>10 DEF Tick, ConfirmAddressChange, vars
  <2>2. OneOpenWithdrawal'
    BY <1>3, <2>1 DEF OneOpenWithdrawal
  <2>3. FoundNone'
    BY <1>3, <2>1 DEF FoundNone
  <2> QED BY <1>4, <2>2, <2>3
<1> QED BY <1>4, <1>5, <1>6, <1>8, <1>9, <1>10, Zenon DEF Next

(* Asking again never opens a second withdrawal, as long as callers do not *)
(* overlap: after a call that threw at any await too                       *)
(* (requestFullWithdrawal).  This is OneOpenWithdrawal of the runs.        *)
THEOREM WithdrawalsAreIdempotent ==
  ASSUME PayoutsAssumption
  PROVE  Spec => []OneOpenWithdrawal
<1>1. Init => OpenInv
  <2>1. Init => OneOpenWithdrawal /\ OneCall /\ FoundNone
    BY DEF Init, OneOpenWithdrawal, OneCall, FoundNone
  <2> QED BY <2>1, TypedInvariant DEF OpenInv
<1>2. OpenInv /\ [Next]_vars => OpenInv'
  <2> SUFFICES ASSUME OpenInv, [Next]_vars PROVE OpenInv'
    OBVIOUS
  <2>1. Typed'
    BY TypedInvariant DEF OpenInv
  <2>2. CASE "race" \notin env'
    BY <2>1, <2>2, OpenStep DEF OpenInv
  <2>3. CASE "race" \in env'
    BY <2>1, <2>3 DEF OpenInv, OneOpenWithdrawal
  <2> QED BY <2>2, <2>3
<1>3. OpenInv => OneOpenWithdrawal
  BY DEF OpenInv
<1> QED BY <1>1, <1>2, <1>3, PTL DEF Spec

=============================================================================
