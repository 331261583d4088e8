------------------------------ MODULE Deposits ------------------------------
(***************************************************************************)
(* Observed deposits (deposit/poller.ts): pollers list the signatures of a *)
(* project wallet, read the transactions one after the other, oldest       *)
(* first, and record each positive change of a balance once.  There is no  *)
(* cursor: a poll starts over, and the unique key of DepositEvent drops    *)
(* what an earlier or overlapping poll has recorded.                       *)
(***************************************************************************)
EXTENDS Naturals, Sequences, FiniteSets

CONSTANTS
  Wallet,    \* project wallets
  Poller,    \* processes that poll
  Effect,    \* Effect[t]: the balances the t-th transaction changes
  Limit      \* signatures one query answers (1000)

(* Signatures, in the order in which they are confirmed                    *)
Tx == DOMAIN Effect

(* What the constants have to be: assumed by whoever instantiates this.    *)
(* lamports: before and after, of the wallets among its account keys;      *)
(* tokens: token accounts by index, one that did not exist counting as 0.  *)
DepositsAssumption ==
  /\ Limit \in Nat
  /\ Len(Effect) \in Nat /\ Tx = 1..Len(Effect)
  /\ \A t \in Tx :
       /\ DOMAIN Effect[t].lamports \subseteq Wallet
       /\ \A w \in DOMAIN Effect[t].lamports :
            Effect[t].lamports[w] \in [pre : Nat, post : Nat]
       /\ DOMAIN Effect[t].tokens \subseteq Nat
       /\ \A i \in DOMAIN Effect[t].tokens :
            /\ {"owner", "pre", "post"} \subseteq DOMAIN Effect[t].tokens[i]
            /\ {Effect[t].tokens[i].pre, Effect[t].tokens[i].post} \subseteq Nat

VARIABLES
  confirmed,  \* how many transactions are confirmed
  rows,       \* DepositEvent rows
  poll,       \* the polls in progress
  reported,   \* history: rows the polls that returned say they inserted
  promised    \* history: what those polls have listed and read

vars == <<confirmed, rows, poll, reported, promised>>

Row == [wallet : Wallet, signature : Tx, eventIndex : Nat, amount : Nat \ {0}]

(* todo: signatures not yet read; events: those of the transaction just    *)
(* read that are not yet appended; read (history): what has been read.     *)
Poll == [running : BOOLEAN, wallet : Wallet, todo : SUBSET Tx, events : SUBSET Row,
         inserted : Nat, read : SUBSET Tx]

NoPoll == [running |-> FALSE, wallet |-> CHOOSE w \in Wallet : TRUE, todo |-> {},
           events |-> {}, inserted |-> 0, read |-> {}]

TypeOK ==
  /\ confirmed \in Tx \cup {0}
  /\ \A r \in rows : r \in Row
  /\ \A p \in Poller :
       /\ poll[p].todo \subseteq Tx
       /\ \A e \in poll[p].events : e \in Row
       /\ poll[p].inserted \in Nat
  /\ reported \in Nat
  /\ promised \subseteq Wallet \X Tx

Init ==
  /\ confirmed = 0
  /\ rows = {}
  /\ poll = [p \in Poller |-> NoPoll]
  /\ reported = 0
  /\ promised = {}

-----------------------------------------------------------------------------
(* extractDepositEvents *)

(* Mutation of Increases: every change is recorded.                        *)
IncreasesOrNot(change) == change.post # change.pre

Increases(change) == change.post > change.pre

Amount(change) == change.post - change.pre

(* Mutation of TokenIndex: the index of the account is the event's.        *)
TokenIndexUnshifted(i) == i

(* 0 is the wallet's SOL.                                                  *)
TokenIndex(i) == i + 1

SolDeposits(w, t) ==
  {[wallet |-> w, signature |-> t, eventIndex |-> 0, amount |-> Amount(Effect[t].lamports[v])] :
     v \in {v \in DOMAIN Effect[t].lamports : v = w /\ Increases(Effect[t].lamports[v])}}

TokenDeposits(w, t) ==
  LET accounts == {i \in DOMAIN Effect[t].tokens :
                     Effect[t].tokens[i].owner = w /\ Increases(Effect[t].tokens[i])}
  IN  {[wallet |-> w, signature |-> t, eventIndex |-> TokenIndex(i),
        amount |-> Amount(Effect[t].tokens[i])] : i \in accounts}

ExtractDepositEvents(w, t) == SolDeposits(w, t) \cup TokenDeposits(w, t)

-----------------------------------------------------------------------------
(* The chain and its RPC (external) *)

Confirm ==
  /\ confirmed + 1 \in Tx
  /\ confirmed' = confirmed + 1
  /\ UNCHANGED <<rows, poll, reported, promised>>

(* A query by wallet finds the newest transactions its address occurs in.  *)
Signatures(w) ==
  LET mentions == {t \in 1..confirmed : w \in DOMAIN Effect[t].lamports}
  IN  {t \in mentions : Cardinality({u \in mentions : u > t}) < Limit}

-----------------------------------------------------------------------------
(* DepositPoller.poll and PrismaDepositEventStore.append *)

BeginPoll(p, w) ==
  /\ ~poll[p].running
  /\ poll' = [poll EXCEPT ![p] = [NoPoll EXCEPT !.running = TRUE, !.wallet = w,
                                                !.todo = Signatures(w)]]
  /\ UNCHANGED <<confirmed, rows, reported, promised>>

(* The poller turns the newest-first answer around, and reads the oldest   *)
(* first. A node may not have the transaction yet: it is skipped.          *)
ReadTransaction(p) ==
  /\ poll[p].running /\ poll[p].events = {}
  /\ \E t \in poll[p].todo :
       /\ \A u \in poll[p].todo : t <= u
       /\ \/ poll' = [poll EXCEPT ![p].todo = @ \ {t}]
          \/ poll' = [poll EXCEPT ![p].todo = @ \ {t}, ![p].read = @ \cup {t},
                                  ![p].events = ExtractDepositEvents(poll[p].wallet, t)]
  /\ UNCHANGED <<confirmed, rows, reported, promised>>

(* signature and eventIndex are the key.                                   *)
IsDuplicate(e) ==
  \E r \in rows : r.signature = e.signature /\ r.eventIndex = e.eventIndex

(* Mutation of Inserted: the number of rows given, not of rows created.    *)
InsertedGiven(e) == 1

Inserted(e) == IF IsDuplicate(e) THEN 0 ELSE 1

(* One insert for each event, in order of their index.                     *)
AppendEvent(p) ==
  \E e \in poll[p].events :
    /\ \A f \in poll[p].events : e.eventIndex <= f.eventIndex
    /\ rows' = IF IsDuplicate(e) THEN rows ELSE rows \cup {e}
    /\ poll' = [poll EXCEPT ![p].events = @ \ {e}, ![p].inserted = @ + Inserted(e)]
    /\ UNCHANGED <<confirmed, reported, promised>>

EndPoll(p) ==
  /\ poll[p].running /\ poll[p].events = {} /\ poll[p].todo = {}
  /\ poll' = [poll EXCEPT ![p] = NoPoll]
  /\ reported' = reported + poll[p].inserted
  /\ promised' = promised \cup ({poll[p].wallet} \X poll[p].read)
  /\ UNCHANGED <<confirmed, rows>>

(* A request or an insert fails, or the process dies.                      *)
AbandonPoll(p) ==
  /\ poll[p].running
  /\ poll' = [poll EXCEPT ![p] = NoPoll]
  /\ UNCHANGED <<confirmed, rows, reported, promised>>

Next ==
  \/ Confirm
  \/ \E p \in Poller :
       \/ \E w \in Wallet : BeginPoll(p, w)
       \/ ReadTransaction(p)
       \/ AppendEvent(p)
       \/ EndPoll(p)
       \/ AbandonPoll(p)

Spec == Init /\ [][Next]_vars

-----------------------------------------------------------------------------
(* Correctness *)

(* Once a poll has returned, every deposit to its wallet in the            *)
(* transactions it read is on record, of that wallet, whatever other polls *)
(* were doing and where earlier ones were cut off.                         *)
DepositsRecorded ==
  \A wt \in promised : ExtractDepositEvents(wt[1], wt[2]) \subseteq rows

(* The counts the polls return add up to no more than was recorded: no     *)
(* deposit is announced by two polls.                                      *)
CountedOnce == reported <= Cardinality(rows)

=============================================================================
