--------------------------- MODULE DepositsProofs ---------------------------
(***************************************************************************)
(* Theorems about observed deposits, for any number of wallets, pollers    *)
(* and transactions and any limit of a query.  Deposits is instantiated by *)
(* its users, so its assumption is a hypothesis here.                      *)
(***************************************************************************)
EXTENDS Deposits, FiniteSetTheorems, TLAPS

(* No transaction pays SOL to two wallets: their events would share a key, *)
(* as the run deposit_shared shows.                                        *)
PaysOneWallet ==
  \A t \in Tx : \A v, w \in DOMAIN Effect[t].lamports :
    Increases(Effect[t].lamports[v]) /\ Increases(Effect[t].lamports[w]) => v = w

(* A recorded or extracted event is one of its wallet and transaction.     *)
Genuine(e) == e.signature \in Tx /\ e \in ExtractDepositEvents(e.wallet, e.signature)

(* So the key of an event identifies it.                                   *)
LEMMA KeyIdentifies ==
  ASSUME DepositsAssumption, PaysOneWallet, NEW e, NEW f, Genuine(e), Genuine(f),
         e.signature = f.signature, e.eventIndex = f.eventIndex
  PROVE  e = f
<1> DEFINE t == e.signature
           Sol(g) == \E v \in DOMAIN Effect[t].lamports :
                       /\ Increases(Effect[t].lamports[v])
                       /\ g = [wallet |-> v, signature |-> t, eventIndex |-> 0,
                               amount |-> Amount(Effect[t].lamports[v])]
           Token(g) == \E i \in DOMAIN Effect[t].tokens :
                         g = [wallet |-> Effect[t].tokens[i].owner, signature |-> t,
                              eventIndex |-> i + 1, amount |-> Amount(Effect[t].tokens[i])]
<1>1. t \in Tx /\ DOMAIN Effect[t].tokens \subseteq Nat
  BY DEF Genuine, DepositsAssumption
<1>2. ASSUME NEW g, Genuine(g), g.signature = t
      PROVE  Sol(g) \/ Token(g)
  <2>1. g \in SolDeposits(g.wallet, t) \/ g \in TokenDeposits(g.wallet, t)
    BY <1>2 DEF Genuine, ExtractDepositEvents
  <2>2. g \in SolDeposits(g.wallet, t) => Sol(g)
    BY DEF SolDeposits
  <2>3. g \in TokenDeposits(g.wallet, t) => Token(g)
    BY DEF TokenDeposits, TokenIndex
  <2> QED BY <2>1, <2>2, <2>3
<1>3. (Sol(e) \/ Token(e)) /\ (Sol(f) \/ Token(f))
  BY <1>2
<1>4. CASE Sol(e) /\ Sol(f)
  BY <1>1, <1>4 DEF PaysOneWallet
<1>5. CASE Token(e) /\ Token(f)
  BY <1>1, <1>5
<1>6. ~(Sol(e) /\ Token(f)) /\ ~(Token(e) /\ Sol(f))
  BY <1>1
<1> QED BY <1>3, <1>4, <1>5, <1>6

(* What one extraction yields is genuine.                                  *)
LEMMA ExtractedIsGenuine ==
  ASSUME NEW w, NEW t \in Tx, NEW e \in ExtractDepositEvents(w, t)
  PROVE  Genuine(e) /\ e.wallet = w /\ e.signature = t
<1>1. e.wallet = w /\ e.signature = t
  BY DEF ExtractDepositEvents, SolDeposits, TokenDeposits
<1> QED BY <1>1 DEF Genuine

-----------------------------------------------------------------------------
(* Types, and what each action makes of one poll *)

AnyWallet == Wallet \cup {NoPoll.wallet}

Events == UNION {ExtractDepositEvents(w, t) : w \in Wallet, t \in Tx}

Polling ==
  {q \in [running : BOOLEAN, wallet : AnyWallet, todo : SUBSET Tx, events : SUBSET Events,
          inserted : Nat, read : SUBSET Tx] : q.running => q.wallet \in Wallet}

PollTyped ==
  /\ confirmed \in Tx \cup {0}
  /\ poll \in [Poller -> Polling]
  /\ rows \subseteq Events /\ IsFiniteSet(rows)
  /\ reported \in Nat
  /\ promised \subseteq Wallet \X Tx

Others(p) == \A o \in Poller \ {p} : poll'[o] = poll[o]

LEMMA EventsAreGenuine == \A e \in Events : Genuine(e)
BY ExtractedIsGenuine DEF Events

LEMMA EventsAreRows == ASSUME DepositsAssumption PROVE Events \subseteq Row
<1>1. ASSUME NEW w \in Wallet, NEW t \in Tx, NEW e \in SolDeposits(w, t) PROVE e \in Row
  <2>1. PICK v \in DOMAIN Effect[t].lamports :
          /\ Increases(Effect[t].lamports[v])
          /\ e = [wallet |-> w, signature |-> t, eventIndex |-> 0,
                  amount |-> Amount(Effect[t].lamports[v])]
    BY <1>1 DEF SolDeposits
  <2>2. Effect[t].lamports[v].pre \in Nat /\ Effect[t].lamports[v].post \in Nat
    BY DEF DepositsAssumption
  <2>3. Amount(Effect[t].lamports[v]) \in Nat \ {0}
    BY <2>1, <2>2 DEF Amount, Increases
  <2> QED BY <2>1, <2>3 DEF Row
<1>2. ASSUME NEW w \in Wallet, NEW t \in Tx, NEW e \in TokenDeposits(w, t) PROVE e \in Row
  <2>1. PICK i \in DOMAIN Effect[t].tokens :
          /\ Increases(Effect[t].tokens[i])
          /\ e = [wallet |-> w, signature |-> t, eventIndex |-> TokenIndex(i),
                  amount |-> Amount(Effect[t].tokens[i])]
    BY <1>2 DEF TokenDeposits
  <2>2. /\ Effect[t].tokens[i].pre \in Nat /\ Effect[t].tokens[i].post \in Nat
        /\ TokenIndex(i) \in Nat
    BY DEF DepositsAssumption, TokenIndex
  <2>3. Amount(Effect[t].tokens[i]) \in Nat \ {0}
    BY <2>1, <2>2 DEF Amount, Increases
  <2> QED BY <2>1, <2>2, <2>3 DEF Row
<1> QED BY <1>1, <1>2 DEF Events, ExtractDepositEvents

LEMMA NoPollIsPolling ==
  NoPoll \in Polling /\ NoPoll.read = {} /\ NoPoll.inserted = 0 /\ NoPoll.events = {}
BY DEF NoPoll, Polling, AnyWallet

LEMMA BeginEffect ==
  ASSUME DepositsAssumption, PollTyped, NEW p \in Poller, NEW w \in Wallet, BeginPoll(p, w)
  PROVE  /\ poll' \in [Poller -> Polling] /\ Others(p)
         /\ poll'[p].read = {} /\ poll'[p].inserted = 0
         /\ UNCHANGED <<confirmed, rows, reported, promised>>
<1> DEFINE q == [NoPoll EXCEPT !.running = TRUE, !.wallet = w, !.todo = Signatures(w)]
<1>1. Signatures(w) \subseteq Tx
  BY DEF Signatures, DepositsAssumption, PollTyped
<1>2. q \in Polling /\ q.read = {} /\ q.inserted = 0
  BY <1>1 DEF Polling, AnyWallet, NoPoll
<1>3. poll' = [poll EXCEPT ![p] = q] /\ UNCHANGED <<confirmed, rows, reported, promised>>
  BY DEF BeginPoll
<1> HIDE DEF q
<1> QED BY <1>2, <1>3 DEF PollTyped, Others

LEMMA ReadEffect ==
  ASSUME PollTyped, NEW p \in Poller, ReadTransaction(p)
  PROVE  /\ poll' \in [Poller -> Polling] /\ Others(p)
         /\ poll'[p].wallet = poll[p].wallet /\ poll'[p].inserted = poll[p].inserted
         /\ poll[p].events = {}
         /\ \/ poll'[p].read = poll[p].read
            \/ \E t \in Tx :
                 /\ poll'[p].read = poll[p].read \cup {t}
                 /\ poll'[p].events = ExtractDepositEvents(poll[p].wallet, t)
         /\ UNCHANGED <<confirmed, rows, reported, promised>>
<1>1. PICK t \in poll[p].todo :
        \/ poll' = [poll EXCEPT ![p].todo = @ \ {t}]
        \/ poll' = [poll EXCEPT ![p].todo = @ \ {t}, ![p].read = @ \cup {t},
                                ![p].events = ExtractDepositEvents(poll[p].wallet, t)]
  BY DEF ReadTransaction
<1>2. /\ poll \in [Poller -> Polling] /\ poll[p] \in Polling /\ t \in Tx
      /\ poll[p].running /\ poll[p].events = {}
      /\ UNCHANGED <<confirmed, rows, reported, promised>>
  BY DEF ReadTransaction, PollTyped, Polling
<1> DEFINE skipped == [poll[p] EXCEPT !.todo = @ \ {t}]
           read == [poll[p] EXCEPT !.todo = @ \ {t}, !.read = @ \cup {t},
                                   !.events = ExtractDepositEvents(poll[p].wallet, t)]
<1>3. CASE poll' = [poll EXCEPT ![p].todo = @ \ {t}]
  <2>1. /\ skipped \in Polling /\ skipped.read = poll[p].read
        /\ skipped.wallet = poll[p].wallet /\ skipped.inserted = poll[p].inserted
        /\ poll' = [poll EXCEPT ![p] = skipped]
    BY <1>2, <1>3 DEF Polling
  <2> HIDE DEF skipped
  <2> QED BY <1>2, <2>1 DEF Others
<1>4. CASE poll' = [poll EXCEPT ![p].todo = @ \ {t}, ![p].read = @ \cup {t},
                                ![p].events = ExtractDepositEvents(poll[p].wallet, t)]
  <2>1. ExtractDepositEvents(poll[p].wallet, t) \subseteq Events
    BY <1>2 DEF Events, Polling
  <2>2. /\ read \in Polling /\ read.wallet = poll[p].wallet
        /\ read.read = poll[p].read \cup {t} /\ read.inserted = poll[p].inserted
        /\ read.events = ExtractDepositEvents(poll[p].wallet, t)
    BY <1>2, <2>1 DEF Polling
  <2>3. poll' = [poll EXCEPT ![p] = read]
    BY <1>2, <1>4 DEF Polling
  <2> HIDE DEF read
  <2> QED BY <1>2, <2>2, <2>3 DEF Others
<1> QED BY <1>1, <1>3, <1>4

LEMMA AppendEffect ==
  ASSUME PollTyped, NEW p \in Poller, AppendEvent(p)
  PROVE  \E e \in poll[p].events :
           /\ e \in Events
           /\ poll' \in [Poller -> Polling] /\ Others(p)
           /\ poll'[p].wallet = poll[p].wallet /\ poll'[p].read = poll[p].read
           /\ poll'[p].events = poll[p].events \ {e}
           /\ poll'[p].inserted = poll[p].inserted + Inserted(e)
           /\ rows' = IF IsDuplicate(e) THEN rows ELSE rows \cup {e}
           /\ UNCHANGED <<confirmed, reported, promised>>
<1>1. PICK e \in poll[p].events :
        /\ rows' = IF IsDuplicate(e) THEN rows ELSE rows \cup {e}
        /\ poll' = [poll EXCEPT ![p].events = @ \ {e}, ![p].inserted = @ + Inserted(e)]
        /\ UNCHANGED <<confirmed, reported, promised>>
  BY DEF AppendEvent
<1>2. poll \in [Poller -> Polling] /\ poll[p] \in Polling /\ Inserted(e) \in Nat
  BY DEF PollTyped, Inserted
<1>3. /\ poll[p].events \ {e} \in SUBSET Events /\ poll[p].inserted + Inserted(e) \in Nat
      /\ e \in Events
  BY <1>2 DEF Polling
<1> DEFINE q == [poll[p] EXCEPT !.events = @ \ {e}, !.inserted = @ + Inserted(e)]
<1>4. /\ q.running = poll[p].running /\ q.wallet = poll[p].wallet /\ q.todo = poll[p].todo
      /\ q.read = poll[p].read /\ q.events = poll[p].events \ {e}
      /\ q.inserted = poll[p].inserted + Inserted(e)
  BY <1>2 DEF Polling
<1>5. q \in Polling
  BY <1>2, <1>3, <1>4 DEF Polling
<1>6. poll' = [poll EXCEPT ![p] = q]
  BY <1>1, <1>2 DEF Polling
<1> HIDE DEF q
<1>7. poll' \in [Poller -> Polling] /\ poll'[p] = q /\ Others(p)
  BY <1>2, <1>5, <1>6 DEF Others
<1> QED BY <1>1, <1>2, <1>3, <1>4, <1>7

(* A poll that ends, or is abandoned                                       *)
LEMMA EndEffect ==
  ASSUME PollTyped, NEW p \in Poller, EndPoll(p) \/ AbandonPoll(p)
  PROVE  /\ poll' \in [Poller -> Polling] /\ Others(p) /\ poll'[p] = NoPoll
         /\ poll[p].wallet \in Wallet
         /\ UNCHANGED <<confirmed, rows>>
<1>1. poll' = [poll EXCEPT ![p] = NoPoll] /\ UNCHANGED <<confirmed, rows>> /\ poll[p].running
  BY DEF EndPoll, AbandonPoll
<1>2. poll[p].wallet \in Wallet
  BY <1>1 DEF PollTyped, Polling
<1> QED BY <1>1, <1>2, NoPollIsPolling DEF PollTyped, Others

LEMMA TypedStep ==
  ASSUME DepositsAssumption, PollTyped, [Next]_vars
  PROVE  PollTyped'
<1>1. CASE Confirm
  BY <1>1 DEF Confirm, PollTyped
<1>2. ASSUME NEW p \in Poller, NEW w \in Wallet, BeginPoll(p, w) PROVE PollTyped'
  BY <1>2, BeginEffect DEF PollTyped
<1>3. ASSUME NEW p \in Poller, ReadTransaction(p) PROVE PollTyped'
  BY <1>3, ReadEffect DEF PollTyped
<1>4. ASSUME NEW p \in Poller, AppendEvent(p) PROVE PollTyped'
  BY <1>4, AppendEffect, FS_AddElement DEF PollTyped
<1>5. ASSUME NEW p \in Poller, EndPoll(p) PROVE PollTyped'
  <2>1. /\ reported' = reported + poll[p].inserted
        /\ promised' = promised \cup ({poll[p].wallet} \X poll[p].read)
    BY <1>5 DEF EndPoll
  <2>2. poll[p].inserted \in Nat /\ poll[p].read \subseteq Tx
    BY DEF PollTyped, Polling
  <2> QED BY <1>5, <2>1, <2>2, EndEffect DEF PollTyped
<1>6. ASSUME NEW p \in Poller, AbandonPoll(p) PROVE PollTyped'
  BY <1>6, EndEffect DEF PollTyped, AbandonPoll
<1>7. CASE UNCHANGED vars
  BY <1>7 DEF vars, PollTyped
<1> QED BY <1>1, <1>2, <1>3, <1>4, <1>5, <1>6, <1>7 DEF Next

LEMMA TypedInvariant == ASSUME DepositsAssumption PROVE Spec => []PollTyped
<1>1. Init => PollTyped
  BY NoPollIsPolling, FS_EmptySet DEF Init, PollTyped
<1> QED BY <1>1, TypedStep, PTL DEF Spec

(* Every variable keeps its type: only wallets that are polled receive     *)
(* rows, and an amount is never zero (Deposits, TypeOK).                   *)
THEOREM DepositsTypeOK == ASSUME DepositsAssumption PROVE Spec => []TypeOK
<1>1. PollTyped => TypeOK
  BY EventsAreRows DEF PollTyped, Polling, TypeOK
<1> QED BY <1>1, TypedInvariant, PTL

-----------------------------------------------------------------------------
(* What a poll has read is recorded, or still to be. *)

Accounted(q, recorded) ==
  \A t \in q.read : ExtractDepositEvents(q.wallet, t) \subseteq recorded \cup q.events

RecordInv == (\A p \in Poller : Accounted(poll[p], rows)) /\ DepositsRecorded

LEMMA RecordStep ==
  ASSUME DepositsAssumption, PaysOneWallet, PollTyped, RecordInv, [Next]_vars
  PROVE  RecordInv'
<1> USE DEF RecordInv, Accounted, DepositsRecorded, Others
<1>1. CASE Confirm
  BY <1>1 DEF Confirm
<1>2. ASSUME NEW p \in Poller, NEW w \in Wallet, BeginPoll(p, w) PROVE RecordInv'
  BY <1>2, BeginEffect
<1>3. ASSUME NEW p \in Poller, ReadTransaction(p) PROVE RecordInv'
  BY <1>3, ReadEffect
<1>4. ASSUME NEW p \in Poller, AppendEvent(p) PROVE RecordInv'
  <2>1. PICK e \in poll[p].events :
          /\ e \in Events /\ Others(p)
          /\ poll'[p].wallet = poll[p].wallet /\ poll'[p].read = poll[p].read
          /\ poll'[p].events = poll[p].events \ {e}
          /\ rows' = IF IsDuplicate(e) THEN rows ELSE rows \cup {e}
          /\ UNCHANGED promised
    BY <1>4, AppendEffect
  <2>2. IsDuplicate(e) => e \in rows
    BY <2>1, EventsAreGenuine, KeyIdentifies DEF IsDuplicate, PollTyped
  <2> QED BY <2>1, <2>2
<1>5. ASSUME NEW p \in Poller, EndPoll(p) PROVE RecordInv'
  <2>1. poll[p].events = {} /\ promised' = promised \cup ({poll[p].wallet} \X poll[p].read)
    BY <1>5 DEF EndPoll
  <2>2. DepositsRecorded'
    BY <1>5, <2>1, EndEffect
  <2> QED BY <1>5, <2>2, EndEffect, NoPollIsPolling
<1>6. ASSUME NEW p \in Poller, AbandonPoll(p) PROVE RecordInv'
  BY <1>6, EndEffect, NoPollIsPolling DEF AbandonPoll
<1>7. CASE UNCHANGED vars
  BY <1>7 DEF vars
<1> QED BY <1>1, <1>2, <1>3, <1>4, <1>5, <1>6, <1>7 DEF Next

(* While no transaction pays SOL to two wallets, every deposit that a      *)
(* returned poll has read is on record, of its wallet, whatever other      *)
(* polls do and where earlier ones were cut off (poll and append of        *)
(* poller.ts and store.ts).                                                *)
THEOREM DepositsAreRecorded ==
  ASSUME DepositsAssumption, PaysOneWallet
  PROVE  Spec => []DepositsRecorded
<1>1. Init => RecordInv
  BY NoPollIsPolling DEF Init, RecordInv, Accounted, DepositsRecorded
<1>2. RecordInv => DepositsRecorded
  BY DEF RecordInv
<1> QED BY <1>1, <1>2, RecordStep, TypedInvariant, PTL DEF Spec

-----------------------------------------------------------------------------
(* What the polls report *)

(* Each row can be attributed to the poll that inserted it: to one that is *)
(* running, to one that has reported it, or to one that was abandoned.     *)
Attributed ==
  \E mine \in [Poller -> SUBSET rows], told \in SUBSET rows :
    /\ Cardinality(told) = reported
    /\ \A p \in Poller : Cardinality(mine[p]) = poll[p].inserted /\ mine[p] \cap told = {}
    /\ \A p, o \in Poller : p # o => mine[p] \cap mine[o] = {}

LEMMA CountStep ==
  ASSUME DepositsAssumption, PollTyped, Attributed, [Next]_vars
  PROVE  Attributed'
<1>1. PICK mine \in [Poller -> SUBSET rows], told \in SUBSET rows :
        /\ Cardinality(told) = reported
        /\ \A p \in Poller : Cardinality(mine[p]) = poll[p].inserted /\ mine[p] \cap told = {}
        /\ \A p, o \in Poller : p # o => mine[p] \cap mine[o] = {}
  BY DEF Attributed
<1>2. \A p \in Poller : IsFiniteSet(mine[p]) /\ mine[p] \subseteq rows
  BY <1>1, FS_Subset DEF PollTyped
<1>3. IsFiniteSet(told) /\ Cardinality({}) = 0
  BY <1>1, FS_Subset, FS_EmptySet DEF PollTyped
<1>4. ASSUME NEW p \in Poller, Others(p), poll'[p].inserted = 0, UNCHANGED <<rows, reported>>
      PROVE  Attributed'
  <2> DEFINE forgotten == [mine EXCEPT ![p] = {}]
  <2>1. /\ forgotten \in [Poller -> SUBSET rows'] /\ forgotten[p] = {}
        /\ \A o \in Poller \ {p} : forgotten[o] = mine[o]
    BY <1>1, <1>4
  <2> HIDE DEF forgotten
  <2>2. /\ \A o \in Poller : Cardinality(forgotten[o]) = poll'[o].inserted
                             /\ forgotten[o] \cap told = {}
        /\ \A q, o \in Poller : q # o => forgotten[q] \cap forgotten[o] = {}
    BY <1>1, <1>3, <1>4, <2>1 DEF Others
  <2> QED BY <1>1, <1>4, <2>1, <2>2 DEF Attributed
<1>5. ASSUME UNCHANGED <<rows, reported>>, \A p \in Poller : poll'[p].inserted = poll[p].inserted
      PROVE  Attributed'
  BY <1>1, <1>5 DEF Attributed
<1>6. CASE Confirm
  BY <1>5, <1>6 DEF Confirm
<1>7. ASSUME NEW p \in Poller, NEW w \in Wallet, BeginPoll(p, w) PROVE Attributed'
  BY <1>4, <1>7, BeginEffect
<1>8. ASSUME NEW p \in Poller, ReadTransaction(p) PROVE Attributed'
  BY <1>5, <1>8, ReadEffect DEF Others
<1>9. ASSUME NEW p \in Poller, AppendEvent(p) PROVE Attributed'
  <2>1. PICK e \in poll[p].events :
          /\ Others(p)
          /\ poll'[p].inserted = poll[p].inserted + Inserted(e)
          /\ rows' = IF IsDuplicate(e) THEN rows ELSE rows \cup {e}
          /\ UNCHANGED reported
    BY <1>9, AppendEffect
  <2>2. poll[p].inserted \in Nat
    BY DEF PollTyped, Polling
  <2>3. CASE IsDuplicate(e)
    BY <1>5, <2>1, <2>2, <2>3 DEF Others, Inserted
  <2>4. CASE ~IsDuplicate(e)
    <3> DEFINE more == [mine EXCEPT ![p] = @ \cup {e}]
    <3>1. e \notin rows /\ rows' = rows \cup {e} /\ poll'[p].inserted = poll[p].inserted + 1
      BY <2>1, <2>4 DEF IsDuplicate, Inserted
    <3>2. /\ more \in [Poller -> SUBSET rows'] /\ more[p] = mine[p] \cup {e}
          /\ \A o \in Poller \ {p} : more[o] = mine[o]
      BY <1>1, <3>1
    <3> HIDE DEF more
    <3>3. e \notin mine[p] /\ Cardinality(more[p]) = Cardinality(mine[p]) + 1
      BY <1>2, <3>1, <3>2, FS_AddElement
    <3>4. \A o \in Poller : Cardinality(more[o]) = poll'[o].inserted /\ more[o] \cap told = {}
      <4>1. Cardinality(more[p]) = poll'[p].inserted /\ more[p] \cap told = {}
        BY <1>1, <3>1, <3>2, <3>3
      <4>2. \A o \in Poller \ {p} : Cardinality(more[o]) = poll'[o].inserted
                                    /\ more[o] \cap told = {}
        BY <1>1, <2>1, <3>2 DEF Others
      <4> QED BY <4>1, <4>2
    <3>5. \A q, o \in Poller : q # o => more[q] \cap more[o] = {}
      BY <1>1, <1>2, <3>1, <3>2
    <3>6. told \in SUBSET rows' /\ Cardinality(told) = reported'
      BY <1>1, <2>1, <3>1
    <3> QED BY <3>2, <3>4, <3>5, <3>6 DEF Attributed
  <2> QED BY <2>3, <2>4
<1>10. ASSUME NEW p \in Poller, EndPoll(p) PROVE Attributed'
  <2> DEFINE forgotten == [mine EXCEPT ![p] = {}]
  <2>1. reported' = reported + poll[p].inserted
    BY <1>10 DEF EndPoll
  <2>2. Others(p) /\ poll'[p].inserted = 0 /\ UNCHANGED rows
    BY <1>10, EndEffect, NoPollIsPolling
  <2>3. /\ forgotten \in [Poller -> SUBSET rows'] /\ forgotten[p] = {}
        /\ \A o \in Poller \ {p} : forgotten[o] = mine[o]
    BY <1>1, <2>2
  <2> HIDE DEF forgotten
  <2>4. Cardinality(told \cup mine[p]) = Cardinality(told) + Cardinality(mine[p])
    <3>1. told \cap mine[p] = {} /\ IsFiniteSet(mine[p])
      BY <1>1, <1>2
    <3>2. Cardinality(told \cup mine[p]) = Cardinality(told) + Cardinality(mine[p])
                                           - Cardinality(told \cap mine[p])
      BY <1>3, <3>1, FS_Union
    <3>3. Cardinality(told) \in Nat /\ Cardinality(mine[p]) \in Nat
      BY <1>3, <3>1, FS_CardinalityType
    <3>4. Cardinality(told \cap mine[p]) = 0
      BY <1>3, <3>1
    <3> QED BY <3>2, <3>3, <3>4
  <2>5. told \cup mine[p] \in SUBSET rows' /\ Cardinality(told \cup mine[p]) = reported'
    BY <1>1, <2>1, <2>2, <2>4
  <2>6. \A o \in Poller : /\ Cardinality(forgotten[o]) = poll'[o].inserted
                          /\ forgotten[o] \cap (told \cup mine[p]) = {}
    BY <1>1, <1>3, <2>2, <2>3 DEF Others
  <2>7. \A q, o \in Poller : q # o => forgotten[q] \cap forgotten[o] = {}
    BY <1>1, <2>3
  <2> QED BY <2>3, <2>5, <2>6, <2>7 DEF Attributed
<1>11. ASSUME NEW p \in Poller, AbandonPoll(p) PROVE Attributed'
  BY <1>4, <1>11, EndEffect, NoPollIsPolling DEF AbandonPoll
<1>12. CASE UNCHANGED vars
  BY <1>5, <1>12 DEF vars
<1> QED BY <1>6, <1>7, <1>8, <1>9, <1>10, <1>11, <1>12 DEF Next

(* The polls together never report more deposits than there are rows: what *)
(* overlapping polls both read is counted by one of them, even where one   *)
(* transaction pays two wallets (append).                                  *)
THEOREM DepositsAreCountedOnce ==
  ASSUME DepositsAssumption
  PROVE  Spec => []CountedOnce
<1>1. Init => Attributed
  <2>1. SUFFICES ASSUME Init PROVE Attributed
    OBVIOUS
  <2> DEFINE none == [p \in Poller |-> {}]
  <2>2. none \in [Poller -> SUBSET rows] /\ \A p \in Poller : none[p] = {}
    OBVIOUS
  <2>3. \A p \in Poller : poll[p].inserted = 0
    BY <2>1, NoPollIsPolling DEF Init
  <2>4. {} \in SUBSET rows /\ Cardinality({}) = reported
    BY <2>1, FS_EmptySet DEF Init
  <2> HIDE DEF none
  <2> QED BY <2>1, <2>2, <2>3, <2>4 DEF Attributed, Init
<1>2. PollTyped /\ Attributed => CountedOnce
  BY FS_Subset DEF PollTyped, Attributed, CountedOnce
<1> QED BY <1>1, <1>2, CountStep, TypedInvariant, PTL DEF Spec

=============================================================================
