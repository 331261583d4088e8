------------------------- MODULE FounderServiceProofs -------------------------
(***************************************************************************)
(* Proofs about FounderService: what was proved of each part holds of the  *)
(* service that composes them, for all values of its constants.  The facts *)
(* are those of the part's own module of proofs, instantiated as           *)
(* FounderService instantiates the part: a behaviour of the service is a   *)
(* behaviour of the part, which stutters while another one moves.          *)
(***************************************************************************)
EXTENDS FounderService, FiniteSetTheorems, SequenceTheorems, TLAPS

-----------------------------------------------------------------------------
(* The chat: for all pools, sizes and scenarios, any number of updates,    *)
(* crashes and redeliveries.                                               *)

(* The steps, one disjunct each.                                           *)
LEMMA BotOutline ==
  ASSUME [Next]_vars
  PROVE  \/ \E u \in Typed \cup Taps : SendUpdate(u)
         \/ Acknowledge \/ Restart \/ Drop \/ Add \/ LaunchPlan \/ Remove
         \/ TypeSize \/ PlanLaunch \/ IgnoreText \/ StaleTap \/ CancelTap
         \/ ConfirmAdd \/ ConfirmRemove \/ PauseOrResume \/ FinishMove
         \/ OpsRead \/ OpsWrite
         \/ UNCHANGED vars
BY DEF Next

-----------------------------------------------------------------------------
(* What the steps do to the cards and to the updates *)

(* A card keeps what it says: only its buttons and its count change.       *)
Reworded(cs) ==
  /\ cs \in Seq(Card)
  /\ Len(cs) = Len(cards)
  /\ \A c \in DOMAIN cards : /\ cs[c].kind = cards[c].kind
                             /\ cs[c].nonce = cards[c].nonce
                             /\ cs[c].pool = cards[c].pool
                             /\ cs[c].size = cards[c].size

(* What a step may make of one card                                        *)
SameText(new, old) ==
  /\ new \in Card
  /\ new.kind = old.kind
  /\ new.nonce = old.nonce
  /\ new.pool = old.pool
  /\ new.size = old.size

LEMMA OneReworded ==
  ASSUME cards \in Seq(Card), NEW cs, Reworded(cs), NEW c,
         NEW card, c \in DOMAIN cards => SameText(card, cs[c])
  PROVE  Reworded([cs EXCEPT ![c] = card])
<1>1. cs \in Seq(Card) /\ DOMAIN cs = 1..Len(cs) /\ DOMAIN cards = DOMAIN cs
  BY LenProperties DEF Reworded
<1>2. CASE c \in DOMAIN cs
  <2>1. card \in Card
    BY <1>1, <1>2 DEF SameText
  <2>2. /\ [cs EXCEPT ![c] = card] \in Seq(Card)
        /\ Len([cs EXCEPT ![c] = card]) = Len(cs)
        /\ \A d \in 1..Len(cs) : [cs EXCEPT ![c] = card][d] = IF d = c THEN card ELSE cs[d]
    BY <1>1, <1>2, <2>1, ExceptSeq
  <2> QED BY <1>1, <1>2, <2>2 DEF Reworded, SameText
<1>3. CASE c \notin DOMAIN cs
  <2>1. [cs EXCEPT ![c] = card] = cs
    BY <1>1, <1>3
  <2> QED BY <2>1
<1> QED BY <1>2, <1>3

LEMMA OneCard ==
  ASSUME NEW card \in Card
  PROVE  /\ SameText([card EXCEPT !.buttons = FALSE], card)
         /\ SameText([card EXCEPT !.acted = card.acted + 1], card)
<1>1. card.acted + 1 \in Nat
  BY DEF Card
<1> QED BY <1>1 DEF SameText, Card

LEMMA CardsReworded ==
  ASSUME cards \in Seq(Card), NEW c
  PROVE  /\ Reworded(cards)
         /\ Reworded(ClearButtons(c))
         /\ Reworded(Acted(c))
         /\ Reworded([Acted(c) EXCEPT ![c].buttons = FALSE])
<1>1. Reworded(cards)
  BY DEF Reworded
<1>2. \A cs : Reworded(cs) => Reworded([cs EXCEPT ![c] = [cs[c] EXCEPT !.buttons = FALSE]])
  <2> SUFFICES ASSUME NEW cs, Reworded(cs)
               PROVE  Reworded([cs EXCEPT ![c] = [cs[c] EXCEPT !.buttons = FALSE]])
    OBVIOUS
  <2>1. c \in DOMAIN cards => cs[c] \in Card
    BY LenProperties, ElementOfSeq DEF Reworded
  <2> QED BY <2>1, OneCard, OneReworded
<1>3. Reworded([cards EXCEPT ![c] = [cards[c] EXCEPT !.acted = cards[c].acted + 1]])
  <2>1. c \in DOMAIN cards => cards[c] \in Card
    OBVIOUS
  <2> QED BY <1>1, <2>1, OneCard, OneReworded
<1> QED BY <1>1, <1>2, <1>3 DEF ClearButtons, Acted

LEMMA ActsRewords ==
  ASSUME cards \in Seq(Card), NEW c, Acts(c)
  PROVE  Reworded(cards')
BY CardsReworded DEF Acts

LEMMA NeutralizeRewords ==
  ASSUME cards \in Seq(Card), Neutralize
  PROVE  Reworded(cards')
BY CardsReworded DEF Neutralize

(* A run found is a run there is.                                          *)
LEMMA ResolveKnown ==
  ASSUME NEW ref
  PROVE  Resolve(ref) \subseteq DOMAIN runs
<1>1. \A ids \in SUBSET DOMAIN runs : PickOne(ids) \subseteq DOMAIN runs
  BY DEF PickOne
<1>2. /\ Active \subseteq DOMAIN runs
      /\ ByAddress(ref) \subseteq DOMAIN runs
      /\ ByLabel(ref) \subseteq DOMAIN runs
  BY DEF Active, ByAddress, ByLabel
<1> QED BY <1>1, <1>2 DEF Resolve

(* An update that is handled moves from one sequence to the other.         *)
LEMMA HandledUpdate ==
  ASSUME inbox \in Seq(Update), done \in Seq(Update), NEW cmd, Receives(cmd), Handled
  PROVE  /\ Head(inbox) \in Update
         /\ Head(inbox).cmd = cmd
         /\ move = NoMove
         /\ inbox' \in Seq(Update)
         /\ done' \in Seq(Update)
BY DEF Receives, Handled

-----------------------------------------------------------------------------
(* Types *)

(* A prompt and the card that goes with it, as the messages make them.     *)
LEMMA ArmType ==
  ASSUME TypeOK, NEW size \in Size, NEW shown \in BOOLEAN,
         pending.kind \in {"add-size", "add-confirm"}
  PROVE  /\ pending.pool \in Pool
         /\ Arm(size) \in Pending
         /\ Arm(size).kind = "add-confirm"
         /\ Arm(size).nonce = Len(cards) + 1
         /\ Arm(size).pool = pending.pool
         /\ Arm(size).size = size
         /\ AddCard(size, shown) \in Card
         /\ AddCard(size, shown).nonce = Len(cards) + 1
         /\ AddCard(size, shown).pool = pending.pool
         /\ AddCard(size, shown).size = size
<1>1. Len(cards) + 1 \in Nat
  BY LenProperties DEF TypeOK
<1>2. pending \in [kind : {"add-size", "add-confirm"}, pool : Pool, size : Size \cup {NoRef},
                   ref : {NoRef}, nonce : Nat, card : Nat]
  BY DEF TypeOK, Pending, NoPending
<1>3. /\ Arm(size) \in [kind : {"add-confirm"}, pool : Pool, size : Size, ref : {NoRef},
                        nonce : Nat, card : Nat]
      /\ Arm(size).nonce = Len(cards) + 1
      /\ Arm(size).pool = pending.pool
      /\ Arm(size).size = size
  BY <1>1, <1>2 DEF Arm, NewNonce
<1>4. Arm(size) \in Pending /\ Arm(size).kind = "add-confirm"
  BY <1>3 DEF Pending
<1>5. AddCard(size, shown) = [kind |-> "add", nonce |-> Len(cards) + 1, pool |-> pending.pool,
                              size |-> size, buttons |-> shown, acted |-> 0, asked |-> 0]
  BY <1>3 DEF AddCard
<1>6. AddCard(size, shown) \in Card
  BY <1>1, <1>2, <1>5 DEF Card
<1> QED BY <1>2, <1>3, <1>4, <1>5, <1>6

LEMMA RemoveCardType ==
  ASSUME TypeOK, NEW ref, NEW shown \in BOOLEAN
  PROVE  /\ RemoveCard(ref, shown) \in Card
         /\ RemoveCard(ref, shown).nonce = Len(cards) + 1
<1>1. Len(cards) + 1 \in Nat
  BY LenProperties DEF TypeOK
<1>2. DOMAIN runs \subseteq Nat
  BY LenProperties DEF TypeOK
<1>3. (IF Resolve(ref) = {} THEN 0 ELSE CHOOSE i \in Resolve(ref) : TRUE) \in Nat
  BY <1>2, ResolveKnown
<1> QED BY <1>1, <1>3 DEF RemoveCard, NewNonce, Card

(* What a step may leave of runs: SetPoolMode, or one run more.            *)
LEMMA SetPoolModeType ==
  ASSUME runs \in Seq(Run), NEW i \in DOMAIN runs, NEW action \in {"pause", "resume", "remove"},
         SetPoolMode(i, To(action))
  PROVE  /\ runs' \in Seq(Run)
         /\ DOMAIN runs' = DOMAIN runs
         /\ runs'[i] = [runs[i] EXCEPT !.mode = To(action), !.live = (To(action) # "STOPPED")]
         /\ \A j \in DOMAIN runs : j # i => runs'[j] = runs[j]
<1> DEFINE run == [runs[i] EXCEPT !.mode = To(action), !.live = (To(action) # "STOPPED")]
<1>1. To(action) \in Mode
  BY DEF To, Mode
<1>2. runs[i] \in Run
  BY LenProperties, ElementOfSeq
<1>3. run \in Run
  BY <1>1, <1>2 DEF Run
<1>4. runs' = [runs EXCEPT ![i] = run]
  BY DEF SetPoolMode
<1> HIDE DEF run
<1>5. DOMAIN runs = 1..Len(runs) /\ i \in 1..Len(runs)
  BY LenProperties
<1> QED BY <1>3, <1>4, <1>5, ExceptSeq, LenProperties DEF run

LEMMA AddPoolType ==
  ASSUME runs \in Seq(Run), NEW address \in Pool, NEW size \in Size, NEW card \in Nat,
         AddPool(address, size, card)
  PROVE  /\ runs' \in Seq(Run)
         /\ Len(runs') = Len(runs) + 1
         /\ \A i \in 1..Len(runs) : runs'[i] = runs[i]
         /\ runs'[Len(runs) + 1] = [pool |-> address, mode |-> "SHADOW", size |-> size,
                                    live |-> TRUE, card |-> card]
<1>1. [pool |-> address, mode |-> "SHADOW", size |-> size, live |-> TRUE, card |-> card] \in Run
  BY DEF Run, Mode
<1> QED BY <1>1, AppendProperties DEF AddPool

MovesInRange ==
  /\ move = NoMove \/ (move.row \in DOMAIN runs /\ inbox # <<>>)
  /\ ops = NoMove \/ ops.row \in DOMAIN runs

LEMMA HandlerType ==
  ASSUME TypeOK, MovesInRange, NEW cmd, Receives(cmd), Handled, UNCHANGED move,
         pending' \in Pending, cards' \in Seq(Card), runs' \in Seq(Run),
         DOMAIN runs \subseteq DOMAIN runs'
  PROVE  TypeOK' /\ MovesInRange'
<1>1. move = NoMove /\ inbox' \in Seq(Update) /\ done' \in Seq(Update)
  BY HandledUpdate DEF TypeOK
<1>2. UNCHANGED <<env, sent, restarts, ops>>
  BY DEF Handled
<1>3. TypeOK'
  BY <1>1, <1>2 DEF TypeOK
<1>4. MovesInRange'
  BY <1>1, <1>2 DEF MovesInRange
<1> QED BY <1>3, <1>4

LEMMA TypeStep ==
  ASSUME TypeOK, MovesInRange, [Next]_vars
  PROVE  TypeOK' /\ MovesInRange'
<1> USE DEF TypeOK, MovesInRange
<1>0. /\ Len(cards) \in Nat /\ Len(runs) \in Nat /\ DOMAIN runs = 1..Len(runs)
      /\ MaxUpdates[env] \in Nat /\ MaxRestarts \in Nat
  BY LenProperties, BotAssumption
<1>1. ASSUME NEW u \in Typed \cup Taps, SendUpdate(u)
      PROVE  TypeOK' /\ MovesInRange'
  <2>1. DOMAIN cards \subseteq Nat
    BY LenProperties
  <2>2. u \in Update
    BY <2>1, TypedAssumption DEF Taps, Update
  <2>3. inbox' \in Seq(Update) /\ inbox' # <<>>
    BY <1>1, <2>2, AppendProperties DEF SendUpdate
  <2>4. /\ sent' \in 0..MaxUpdates[env]'
        /\ UNCHANGED <<env, done, cards, pending, move, ops, runs, restarts>>
    BY <1>0, <1>1 DEF SendUpdate
  <2> QED BY <2>3, <2>4
<1>2. CASE Acknowledge
  BY <1>2 DEF Acknowledge
<1>3. CASE Restart
  <2>1. inbox' \in Seq(Update)
    BY <1>3, ConcatProperties DEF Restart
  <2>2. restarts' \in 0..MaxRestarts
    BY <1>0, <1>3 DEF Restart
  <2>3. NoPending \in Pending /\ NoMove \in Move
    BY DEF Pending, NoMove, Move
  <2> QED BY <1>3, <2>1, <2>2, <2>3 DEF Restart
<1>4. CASE Drop
  <2>1. pending' \in Pending
    BY <1>4 DEF Drop, Pending
  <2> QED BY <1>4, <2>1, HandlerType DEF Drop
<1>5. CASE Add
  <2>0. Head(inbox) \in Update /\ Head(inbox).cmd = "add"
    BY <1>5, HandledUpdate DEF Add
  <2>1. Arg \in Pool
    BY <2>0 DEF Update, Commands, Arg
  <2>2. pending' \in Pending
    BY <1>5, <2>1 DEF Add, Pending, NoPending, Forgets
  <2> QED BY <1>5, <2>2, HandlerType DEF Add
<1>6. CASE LaunchPlan
  <2>1. pending' \in Pending
    BY <1>6 DEF LaunchPlan, Pending, NoPending, Forgets
  <2> QED BY <1>6, <2>1, HandlerType DEF LaunchPlan
<1>7. CASE Remove
  <2>0. Head(inbox) \in Update /\ Head(inbox).cmd = "remove"
    BY <1>7, HandledUpdate DEF Remove
  <2>1. Arg \in Ref
    BY <2>0 DEF Update, Commands, Arg
  <2>2. pending' \in Pending
    <3>1. [NoPending EXCEPT !.kind = "remove-confirm", !.ref = Arg, !.nonce = NewNonce]
            \in [kind : {"remove-confirm"}, pool : {NoRef}, size : {NoRef}, ref : Ref,
                 nonce : Nat, card : {0}]
      BY <1>0, <2>1, Len(cards) + 1 \in Nat DEF NoPending, NewNonce
    <3> QED BY <1>7, <3>1 DEF Remove, Pending, Forgets
  <2>3. cards' \in Seq(Card)
    <3>1. CASE UNCHANGED cards
      BY <3>1
    <3>2. CASE \E shown \in {TRUE, "net" \notin env} :
                 cards' = Append(cards, RemoveCard(Arg, shown))
      <4>1. PICK shown \in BOOLEAN : cards' = Append(cards, RemoveCard(Arg, shown))
        BY <3>2
      <4> QED BY <4>1, RemoveCardType, AppendProperties
    <3> QED BY <1>7, <3>1, <3>2 DEF Remove
  <2> QED BY <1>7, <2>2, <2>3, HandlerType DEF Remove
<1>8. CASE TypeSize
  <2>1. Arg \in Size
    BY <1>8 DEF TypeSize, IsAmount
  <2>2. pending' \in Pending
    BY <1>8, <2>1, ArmType DEF TypeSize
  <2>3. cards' \in Seq(Card)
    <3>1. PICK cleared \in {ClearButtons(pending.card), cards}, shown \in BOOLEAN :
            cards' = Append(cleared, AddCard(Arg, shown))
      BY <1>8 DEF TypeSize
    <3>2. cleared \in Seq(Card)
      BY ZenonT(30), CardsReworded DEF Reworded
    <3>3. AddCard(Arg, shown) \in Card
      BY <1>8, <2>1, ArmType DEF TypeSize
    <3> QED BY <3>1, <3>2, <3>3, AppendProperties
  <2> QED BY <1>8, <2>2, <2>3, HandlerType DEF TypeSize
<1>9. CASE PlanLaunch
  <2>1. pending' \in Pending
    BY <1>9 DEF PlanLaunch, Pending
  <2> QED BY <1>9, <2>1, HandlerType DEF PlanLaunch
<1>10. CASE IgnoreText
  BY <1>10, HandlerType DEF IgnoreText
<1>11. CASE StaleTap
  <2>1. cards' \in Seq(Card)
    BY <1>11, NeutralizeRewords DEF StaleTap, Reworded
  <2>3. \E cmd : Receives(cmd)
    BY <1>11 DEF StaleTap
  <2> QED BY <1>11, <2>1, <2>3, HandlerType DEF StaleTap
<1>12. CASE CancelTap
  <2>1. cards' \in Seq(Card)
    BY <1>12, NeutralizeRewords DEF CancelTap, Reworded
  <2>2. pending' \in Pending
    BY <1>12 DEF CancelTap, Pending
  <2>3. \E cmd : Receives(cmd)
    BY <1>12 DEF CancelTap
  <2> QED BY <1>12, <2>1, <2>2, <2>3, HandlerType DEF CancelTap
<1>13. CASE ConfirmAdd
  <2>1. pending.pool \in Pool /\ pending.size \in Size
    BY <1>13 DEF ConfirmAdd, IsArmed, Pending, NoPending
  <2>2. Tapped \in Nat
    <3>1. Head(inbox) \in Update /\ Head(inbox).cmd = "confirm"
      BY <1>13, HandledUpdate DEF ConfirmAdd
    <3> QED BY <3>1 DEF Tapped, Update, Commands
  <2>3. cards' \in Seq(Card)
    BY <1>13, ActsRewords, CardsReworded DEF ConfirmAdd, Reworded
  <2>4. /\ runs' \in Seq(Run)
        /\ DOMAIN runs \subseteq DOMAIN runs'
    <3>1. CASE AddPool(pending.pool, pending.size, Tapped)
      <4>1. runs' \in Seq(Run) /\ Len(runs') = Len(runs) + 1
        BY <2>1, <2>2, <3>1, AddPoolType
      <4>2. DOMAIN runs' = 1..Len(runs')
        BY <4>1, LenProperties
      <4> QED BY <1>0, <4>1, <4>2
    <3>2. CASE UNCHANGED runs
      BY <3>2
    <3> QED BY <1>13, <3>1, <3>2 DEF ConfirmAdd
  <2>5. pending' \in Pending
    BY <1>13 DEF ConfirmAdd, Pending
  <2> QED BY <1>13, <2>3, <2>4, <2>5, HandlerType DEF ConfirmAdd
<1>14. CASE ConfirmRemove
  <2>1. Tapped \in Nat
    BY <1>14, HandledUpdate DEF ConfirmRemove, Tapped, Update, Commands, Receives
  <2>2. CASE StartMove("remove", pending.ref, Tapped)
    <3>1. PICK i \in DOMAIN runs : move' = [row |-> i, action |-> "remove", by |-> Tapped]
      BY <2>2, ResolveKnown DEF StartMove
    <3>2. inbox # <<>>
      BY <1>14 DEF ConfirmRemove, Receives
    <3> QED BY <1>0, <2>1, <2>2, <3>1, <3>2 DEF StartMove, chatVars, Move
  <2>3. CASE RefuseMove("remove", pending.ref)
    BY <1>14, <2>3, HandlerType DEF ConfirmRemove, RefuseMove
  <2> QED BY <1>14, <2>2, <2>3 DEF ConfirmRemove
<1>15. CASE PauseOrResume
  <2>1. PICK action \in {"pause", "resume"} :
          Receives(action) /\ (StartMove(action, Arg, 0) \/ RefuseMove(action, Arg))
    BY <1>15 DEF PauseOrResume
  <2>2. CASE StartMove(action, Arg, 0)
    <3>1. PICK i \in DOMAIN runs : move' = [row |-> i, action |-> action, by |-> 0]
      BY <2>2, ResolveKnown DEF StartMove
    <3>2. inbox # <<>>
      BY <2>1 DEF Receives
    <3> QED BY <1>0, <2>2, <3>1, <3>2 DEF StartMove, chatVars, Move
  <2>3. CASE RefuseMove(action, Arg)
    BY <2>1, <2>3, HandlerType DEF RefuseMove
  <2> QED BY <2>1, <2>2, <2>3
<1>16. CASE FinishMove
  <2>1. move.row \in DOMAIN runs /\ move.action \in {"pause", "resume", "remove"}
    BY <1>16 DEF FinishMove, Move
  <2>2. runs' \in Seq(Run) /\ DOMAIN runs' = DOMAIN runs
    BY <1>16, <2>1, SetPoolModeType DEF FinishMove
  <2>3. cards' \in Seq(Card)
    BY <1>16, ActsRewords, CardsReworded DEF FinishMove, Reworded
  <2>4. pending' \in Pending
    BY <1>16 DEF FinishMove, Pending
  <2>5. inbox' \in Seq(Update) /\ done' \in Seq(Update)
    <3>1. Head(inbox) \in Update /\ Tail(inbox) \in Seq(Update)
      BY <1>16, HeadTailProperties DEF FinishMove
    <3> QED BY <1>16, <3>1 DEF FinishMove, Handled
  <2>6. NoMove \in Move
    BY DEF NoMove, Move
  <2> QED BY <1>16, <2>2, <2>3, <2>4, <2>5, <2>6 DEF FinishMove, Handled
<1>17. CASE OpsRead
  <2>1. PICK i \in DOMAIN runs, action \in {"pause", "resume", "remove"} :
          ops' = [row |-> i, action |-> action, by |-> 0]
    BY <1>17 DEF OpsRead
  <2> QED BY <1>0, <1>17, <2>1 DEF OpsRead, chatVars, Move
<1>18. CASE OpsWrite
  <2>1. ops.row \in DOMAIN runs /\ ops.action \in {"pause", "resume", "remove"}
    BY <1>18 DEF OpsWrite, Move
  <2>2. runs' \in Seq(Run) /\ DOMAIN runs' = DOMAIN runs
    BY <1>18, <2>1, SetPoolModeType DEF OpsWrite
  <2>3. NoMove \in Move
    BY DEF NoMove, Move
  <2> QED BY <1>18, <2>2, <2>3 DEF OpsWrite, chatVars
<1>19. CASE UNCHANGED vars
  BY <1>19 DEF vars, chatVars
<1> QED
  BY <1>1, <1>2, <1>3, <1>4, <1>5, <1>6, <1>7, <1>8, <1>9, <1>10, <1>11, <1>12, <1>13,
     <1>14, <1>15, <1>16, <1>17, <1>18, <1>19, BotOutline

-----------------------------------------------------------------------------
(* Slots *)

(* The only steps that touch runs.                                         *)
LEMMA RunSteps ==
  ASSUME TypeOK, MovesInRange, [Next]_vars
  PROVE  \/ UNCHANGED runs
         \/ ConfirmAdd /\ AddPool(pending.pool, pending.size, Tapped)
         \/ FinishMove /\ SetPoolMode(move.row, To(move.action))
         \/ OpsWrite /\ SetPoolMode(ops.row, To(ops.action))
BY BotOutline
   DEF SendUpdate, Acknowledge, Restart, Drop, Add, LaunchPlan, Remove, TypeSize, PlanLaunch,
       IgnoreText, StaleTap, CancelTap, ConfirmAdd, ConfirmRemove, PauseOrResume, StartMove,
       RefuseMove, FinishMove, OpsRead, OpsWrite, vars

LEMMA AddPoolSlot ==
  ASSUME runs \in Seq(Run), Slotted(runs), NEW address \in Pool, NEW size \in Size,
         NEW card \in Nat, AddPool(address, size, card)
  PROVE  Slotted(runs')
<1>1. /\ runs' \in Seq(Run)
      /\ Len(runs') = Len(runs) + 1
      /\ \A i \in 1..Len(runs) : runs'[i] = runs[i]
      /\ runs'[Len(runs) + 1] = [pool |-> address, mode |-> "SHADOW", size |-> size,
                                 live |-> TRUE, card |-> card]
  BY AddPoolType
<1>2. /\ DOMAIN runs = 1..Len(runs) /\ Len(runs) \in Nat
      /\ DOMAIN runs' = 1..(Len(runs) + 1)
  BY <1>1, LenProperties
<1>3. \A i \in 1..Len(runs) : ~(runs[i].pool = address /\ runs[i].live)
  BY <1>2 DEF AddPool, SlotTaken
<1> QED BY <1>1, <1>2, <1>3 DEF Slotted

LEMMA SetPoolModeSlot ==
  ASSUME runs \in Seq(Run), Slotted(runs), NEW i \in DOMAIN runs,
         NEW action \in {"pause", "resume", "remove"}, SetPoolMode(i, To(action))
  PROVE  Slotted(runs')
<1>1. /\ DOMAIN runs' = DOMAIN runs
      /\ runs'[i] = [runs[i] EXCEPT !.mode = To(action), !.live = (To(action) # "STOPPED")]
      /\ \A j \in DOMAIN runs : j # i => runs'[j] = runs[j]
  BY SetPoolModeType
<1>2. runs[i] \in Run
  BY LenProperties, ElementOfSeq
<1>3. /\ runs'[i].mode = To(action)
      /\ runs'[i].live = (To(action) # "STOPPED")
      /\ runs'[i].pool = runs[i].pool
  BY <1>1, <1>2 DEF Run
<1>4. To(action) = "STOPPED" \/ \A j \in DOMAIN runs : j # i /\ runs[j].live
                                                        => runs[j].pool # runs[i].pool
  BY DEF SetPoolMode, SlotTaken
<1>5. ASSUME NEW j \in DOMAIN runs'
      PROVE  runs'[j].live <=> runs'[j].mode # "STOPPED"
  <2>1. CASE j = i
    BY <1>3, <2>1
  <2>2. CASE j # i
    BY <1>1, <1>5, <2>2 DEF Slotted
  <2> QED BY <2>1, <2>2
<1>6. ASSUME NEW j \in DOMAIN runs', NEW k \in DOMAIN runs', runs'[j].live, runs'[k].live,
             runs'[j].pool = runs'[k].pool, j # k
      PROVE  FALSE
  <2>1. CASE To(action) = "STOPPED"
    <3>1. j # i /\ k # i
      BY <1>3, <1>6, <2>1
    <3> QED BY <1>1, <1>6, <3>1 DEF Slotted
  <2>2. CASE To(action) # "STOPPED"
    <3>1. CASE j = i
      BY <1>1, <1>3, <1>4, <1>6, <2>2, <3>1
    <3>2. CASE k = i
      BY <1>1, <1>3, <1>4, <1>6, <2>2, <3>2
    <3>3. CASE j # i /\ k # i
      BY <1>1, <1>6, <3>3 DEF Slotted
    <3> QED BY <3>1, <3>2, <3>3
  <2> QED BY <2>1, <2>2
<1> QED BY <1>5, <1>6 DEF Slotted

SlotInv == TypeOK /\ MovesInRange /\ Slotted(runs)

LEMMA SlotInit ==
  ASSUME Init
  PROVE  SlotInv
<1>1. TypeOK
  BY BotAssumption, RunsAssumption, EmptySeq DEF Init, TypeOK, Pending, NoMove, Move
<1> QED BY <1>1, RunsAssumption DEF Init, SlotInv, MovesInRange

LEMMA SlotStep ==
  ASSUME SlotInv, [Next]_vars
  PROVE  SlotInv'
<1> USE DEF SlotInv
<1>1. TypeOK' /\ MovesInRange'
  BY TypeStep
<1>2. Slotted(runs)'
  <2>1. CASE UNCHANGED runs
    BY <2>1 DEF Slotted
  <2>2. CASE ConfirmAdd /\ AddPool(pending.pool, pending.size, Tapped)
    <3>1. pending.pool \in Pool /\ pending.size \in Size
      BY <2>2 DEF ConfirmAdd, IsArmed, TypeOK, Pending, NoPending
    <3>2. Head(inbox) \in Update
      BY <2>2, HandledUpdate DEF ConfirmAdd, TypeOK
    <3>3. Tapped \in Nat
      BY <3>2 DEF Tapped, Update, Commands
    <3> QED BY <2>2, <3>1, <3>3, AddPoolSlot DEF TypeOK
  <2>3. CASE FinishMove /\ SetPoolMode(move.row, To(move.action))
    BY <2>3, SetPoolModeSlot DEF FinishMove, TypeOK, MovesInRange, Move
  <2>4. CASE OpsWrite /\ SetPoolMode(ops.row, To(ops.action))
    BY <2>4, SetPoolModeSlot DEF OpsWrite, TypeOK, MovesInRange, Move
  <2> QED BY <2>1, <2>2, <2>3, <2>4, RunSteps
<1> QED BY <1>1, <1>2

(* Every variable keeps its type, for all parameters.                      *)
THEOREM BotTypeOK == Spec => []TypeOK
<1>1. Init => SlotInv
  BY SlotInit
<1>2. SlotInv /\ [Next]_vars => SlotInv'
  BY SlotStep
<1>3. SlotInv => TypeOK
  BY DEF SlotInv
<1> QED BY <1>1, <1>2, <1>3, PTL DEF Spec

(* A pool never has two live runs, whatever the founder, the bot and other *)
(* callers of setPoolMode and addManagedPool do.                           *)
THEOREM LiveRunsUnique == Spec => []OneLiveRun
<1>1. Init => SlotInv
  BY SlotInit
<1>2. SlotInv /\ [Next]_vars => SlotInv'
  BY SlotStep
<1>3. SlotInv => OneLiveRun
  BY DEF SlotInv, Slotted, OneLiveRun, Active
<1> QED BY <1>1, <1>2, <1>3, PTL DEF Spec

-----------------------------------------------------------------------------
(* Stopped runs *)

(* While the bot is the only caller, the mode it read is the mode it       *)
(* overwrites.                                                             *)
ReadIsFresh ==
  "ops" \notin env =>
    /\ ops = NoMove
    /\ move # NoMove => runs[move.row].mode \in From(move.action)

LEMMA MoveSteps ==
  ASSUME TypeOK, MovesInRange, [Next]_vars
  PROVE  /\ UNCHANGED env
         /\ \/ "ops" \in env \/ ops # NoMove
            \/ UNCHANGED <<move, ops, runs>>
            \/ move' = NoMove /\ UNCHANGED ops
            \/ /\ \E i \in DOMAIN runs, action \in {"pause", "resume", "remove"} : \E by :
                    CanMove(action, i) /\ move' = [row |-> i, action |-> action, by |-> by]
               /\ UNCHANGED <<runs, ops>>
<1>1. UNCHANGED env
  BY BotOutline
     DEF SendUpdate, Acknowledge, Restart, Drop, Add, LaunchPlan, Remove, TypeSize,
         PlanLaunch, IgnoreText, StaleTap, CancelTap, ConfirmAdd, ConfirmRemove,
         PauseOrResume, StartMove, RefuseMove, FinishMove, OpsRead, OpsWrite, Handled, vars
<1>2. ASSUME NEW action \in {"pause", "resume", "remove"}, NEW ref, NEW by,
             StartMove(action, ref, by)
      PROVE  /\ \E i \in DOMAIN runs, a \in {"pause", "resume", "remove"} : \E b :
                  CanMove(a, i) /\ move' = [row |-> i, action |-> a, by |-> b]
             /\ UNCHANGED <<runs, ops>>
  BY <1>2, ResolveKnown DEF StartMove
<1>3. ConfirmAdd => move' = NoMove /\ UNCHANGED ops
  BY HandledUpdate DEF ConfirmAdd, Handled, TypeOK
<1>4. FinishMove \/ Restart => move' = NoMove /\ UNCHANGED ops
  BY DEF FinishMove, Restart, Handled
<1>5. OpsRead \/ OpsWrite => "ops" \in env \/ ops # NoMove
  BY DEF OpsRead, OpsWrite
<1>6. \A action, ref : RefuseMove(action, ref) => UNCHANGED <<move, ops, runs>>
  BY DEF RefuseMove, Handled
<1>7. \/ Acknowledge \/ Drop \/ Add \/ LaunchPlan \/ Remove \/ TypeSize \/ PlanLaunch
      \/ IgnoreText \/ StaleTap \/ CancelTap \/ UNCHANGED vars
      \/ \E u \in Typed \cup Taps : SendUpdate(u)
      => UNCHANGED <<move, ops, runs>>
  BY DEF SendUpdate, Acknowledge, Drop, Add, LaunchPlan, Remove, TypeSize, PlanLaunch,
         IgnoreText, StaleTap, CancelTap, Handled, vars
<1> QED
  BY <1>1, <1>2, <1>3, <1>4, <1>5, <1>6, <1>7, BotOutline DEF ConfirmRemove, PauseOrResume

LEMMA FreshInit == Init => ReadIsFresh
BY DEF Init, ReadIsFresh

LEMMA FreshStep ==
  ASSUME SlotInv, ReadIsFresh, [Next]_vars
  PROVE  ReadIsFresh'
<1> USE DEF SlotInv
<1>1. CASE "ops" \in env
  BY <1>1, MoveSteps DEF ReadIsFresh
<1>2. CASE "ops" \notin env
  <2>1. ops = NoMove
    BY <1>2 DEF ReadIsFresh
  <2>2. CASE UNCHANGED <<move, ops, runs>>
    BY <2>2, MoveSteps DEF ReadIsFresh
  <2>3. CASE move' = NoMove /\ UNCHANGED ops
    BY <2>1, <2>3 DEF ReadIsFresh
  <2>4. CASE \E i \in DOMAIN runs, action \in {"pause", "resume", "remove"} : \E by :
               /\ CanMove(action, i)
               /\ move' = [row |-> i, action |-> action, by |-> by]
               /\ UNCHANGED <<runs, ops>>
    BY <2>1, <2>4 DEF ReadIsFresh, CanMove
  <2> QED BY <1>2, <2>1, <2>2, <2>3, <2>4, MoveSteps
<1> QED BY <1>1, <1>2

(* With the bot as the only caller of the service, no update, error, crash *)
(* or redelivery ever revives a stopped run.                               *)
THEOREM StoppedStaysStopped == Spec => StoppedIsFinal
<1> DEFINE Final == \A i \in DOMAIN runs : "ops" \notin env /\ runs[i].mode = "STOPPED"
                                           => runs'[i].mode = "STOPPED"
<1>1. Init => SlotInv /\ ReadIsFresh
  BY SlotInit, FreshInit
<1>2. SlotInv /\ ReadIsFresh /\ [Next]_vars => SlotInv' /\ ReadIsFresh'
  BY SlotStep, FreshStep
<1>3. SlotInv /\ ReadIsFresh /\ [Next]_vars => Final
  <2> SUFFICES ASSUME SlotInv, ReadIsFresh, [Next]_vars, NEW i \in DOMAIN runs,
                      "ops" \notin env, runs[i].mode = "STOPPED"
               PROVE  runs'[i].mode = "STOPPED"
    OBVIOUS
  <2>1. CASE UNCHANGED runs
    BY <2>1
  <2>2. CASE ConfirmAdd /\ AddPool(pending.pool, pending.size, Tapped)
    BY <2>2, LenProperties, AppendProperties DEF AddPool, SlotInv, TypeOK
  <2>3. CASE FinishMove /\ SetPoolMode(move.row, To(move.action))
    <3>0. move # NoMove /\ move \in Move /\ move.row \in DOMAIN runs
      BY <2>3 DEF FinishMove, SlotInv, TypeOK, MovesInRange
    <3>1. runs[move.row].mode # "STOPPED" /\ move.row \in DOMAIN runs
      BY <3>0 DEF ReadIsFresh, From, Move
    <3>2. move.row # i
      BY <3>1
    <3>3. runs \in Seq(Run) /\ move.action \in {"pause", "resume", "remove"}
      BY <3>0 DEF SlotInv, TypeOK, Move
    <3>4. \A j \in DOMAIN runs : j # move.row => runs'[j] = runs[j]
      BY <2>3, <3>1, <3>3, SetPoolModeType
    <3> QED BY <3>2, <3>4
  <2>4. CASE OpsWrite
    BY <2>4 DEF OpsWrite, ReadIsFresh
  <2> QED BY <2>1, <2>2, <2>3, <2>4, RunSteps DEF SlotInv
<1> QED BY <1>1, <1>2, <1>3, PTL DEF Spec, StoppedIsFinal

-----------------------------------------------------------------------------
(* Cards *)

(* No two cards share a nonce, taps are of cards there are, the armed      *)
(* nonce is of the card that shows the prompt, and a run is what its card  *)
(* shows.                                                                  *)
CardsNumbered == \A c \in DOMAIN cards : cards[c].nonce = c

TapsExist(updates) ==
  \A k \in DOMAIN updates :
    updates[k].cmd \in {"confirm", "cancel"} => updates[k].card \in DOMAIN cards

PromptShown ==
  pending.kind = "add-confirm" =>
    /\ pending.nonce \in DOMAIN cards
    /\ cards[pending.nonce].pool = pending.pool
    /\ cards[pending.nonce].size = pending.size

RunsShown ==
  \A i \in DOMAIN runs : runs[i].card # 0 =>
    /\ runs[i].card \in DOMAIN cards
    /\ runs[i].pool = cards[runs[i].card].pool
    /\ runs[i].size = cards[runs[i].card].size

ShownInv ==
  /\ CardsNumbered
  /\ TapsExist(inbox) /\ TapsExist(done)
  /\ PromptShown
  /\ RunsShown

(* What every step leaves of the cards: new ones may follow.               *)
Extended(cs) ==
  /\ cs \in Seq(Card)
  /\ Len(cards) <= Len(cs)
  /\ \A c \in DOMAIN cards : /\ cs[c].nonce = cards[c].nonce
                             /\ cs[c].pool = cards[c].pool
                             /\ cs[c].size = cards[c].size
  /\ \A c \in DOMAIN cs : c \notin DOMAIN cards => cs[c].nonce = c

LEMMA ReworkedExtends ==
  ASSUME cards \in Seq(Card), NEW cs, Reworded(cs)
  PROVE  Extended(cs)
<1>1. DOMAIN cs = DOMAIN cards /\ Len(cards) \in Nat
  BY LenProperties DEF Reworded
<1> QED BY <1>1 DEF Reworded, Extended

LEMMA AppendExtends ==
  ASSUME cards \in Seq(Card), NEW cs, Reworded(cs), NEW card \in Card,
         card.nonce = Len(cards) + 1
  PROVE  /\ Extended(Append(cs, card))
         /\ Len(Append(cs, card)) = Len(cards) + 1
         /\ Append(cs, card)[Len(cards) + 1] = card
<1>1. /\ cs \in Seq(Card) /\ Len(cs) = Len(cards) /\ Len(cards) \in Nat
      /\ DOMAIN cs = 1..Len(cards) /\ DOMAIN cards = 1..Len(cards)
  BY LenProperties DEF Reworded
<1>2. /\ Append(cs, card) \in Seq(Card)
      /\ Len(Append(cs, card)) = Len(cards) + 1
      /\ \A i \in 1..Len(cards) : Append(cs, card)[i] = cs[i]
      /\ Append(cs, card)[Len(cards) + 1] = card
  BY <1>1, AppendProperties
<1>3. DOMAIN Append(cs, card) = 1..(Len(cards) + 1)
  BY <1>2, LenProperties
<1> QED BY <1>1, <1>2, <1>3 DEF Extended, Reworded

(* A size that is typed: the card shows what is armed.                     *)
LEMMA TypeSizeExtends ==
  ASSUME TypeOK, TypeSize
  PROVE  /\ Extended(cards')
         /\ \/ UNCHANGED pending
            \/ /\ pending'.nonce \in DOMAIN cards'
               /\ cards'[pending'.nonce].pool = pending'.pool
               /\ cards'[pending'.nonce].size = pending'.size
<1>1. Arg \in Size /\ pending.kind \in {"add-size", "add-confirm"}
  BY DEF TypeSize, IsAmount
<1>2. PICK cleared \in {ClearButtons(pending.card), cards}, shown \in BOOLEAN :
        /\ cards' = Append(cleared, AddCard(Arg, shown))
        /\ UNCHANGED pending \/ pending' = Arm(Arg)
  BY DEF TypeSize
<1>3. cards \in Seq(Card) /\ Reworded(cleared) /\ Len(cards) \in Nat
  BY CardsReworded, LenProperties DEF TypeOK
<1>4. /\ AddCard(Arg, shown) \in Card
      /\ AddCard(Arg, shown).nonce = Len(cards) + 1
      /\ AddCard(Arg, shown).pool = pending.pool
      /\ AddCard(Arg, shown).size = Arg
      /\ Arm(Arg).nonce = Len(cards) + 1
      /\ Arm(Arg).pool = pending.pool
      /\ Arm(Arg).size = Arg
  BY <1>1, ArmType
<1>5. /\ Extended(cards')
      /\ Len(cards') = Len(cards) + 1
      /\ cards'[Len(cards) + 1] = AddCard(Arg, shown)
  BY <1>2, <1>3, <1>4, AppendExtends
<1>6. Len(cards) + 1 \in DOMAIN cards'
  BY <1>3, <1>5, LenProperties DEF Extended
<1> QED BY <1>2, <1>4, <1>5, <1>6

LEMMA CardSteps ==
  ASSUME TypeOK, MovesInRange, [Next]_vars
  PROVE  Extended(cards')
<1> USE DEF TypeOK
<1>1. CASE UNCHANGED cards
  BY <1>1, CardsReworded, ReworkedExtends
<1>2. CASE Remove
  <2>1. CASE \E shown \in {TRUE, "net" \notin env} : cards' = Append(cards, RemoveCard(Arg, shown))
    <3>1. PICK shown \in BOOLEAN : cards' = Append(cards, RemoveCard(Arg, shown))
      BY <2>1
    <3> QED BY <3>1, RemoveCardType, CardsReworded, AppendExtends
  <2> QED BY <1>1, <1>2, <2>1 DEF Remove
<1>3. CASE TypeSize
  BY <1>3, TypeSizeExtends
<1>4. CASE StaleTap \/ CancelTap
  BY <1>4, NeutralizeRewords, ReworkedExtends DEF StaleTap, CancelTap
<1>5. CASE ConfirmAdd
  BY <1>1, <1>5, ActsRewords, CardsReworded, ReworkedExtends DEF ConfirmAdd
<1>6. CASE FinishMove
  BY <1>1, <1>6, ActsRewords, CardsReworded, ReworkedExtends DEF FinishMove
<1>7. \/ Acknowledge \/ Restart \/ Drop \/ Add \/ LaunchPlan \/ PlanLaunch \/ IgnoreText
      \/ ConfirmRemove \/ PauseOrResume \/ OpsRead \/ OpsWrite \/ UNCHANGED vars
      \/ \E u \in Typed \cup Taps : SendUpdate(u)
      => UNCHANGED cards
  BY DEF SendUpdate, Acknowledge, Restart, Drop, Add, LaunchPlan, PlanLaunch, IgnoreText,
         ConfirmRemove, PauseOrResume, StartMove, RefuseMove, OpsRead, OpsWrite, vars
<1> QED BY <1>1, <1>2, <1>3, <1>4, <1>5, <1>6, <1>7, BotOutline

(* An update of the queue is not reached by more cards.                    *)
LEMMA TapsStep ==
  ASSUME TypeOK, MovesInRange, TapsExist(inbox), TapsExist(done), [Next]_vars
  PROVE  TapsExist(inbox)' /\ TapsExist(done)'
<1>1. DOMAIN cards \subseteq DOMAIN cards'
  <2>1. cards \in Seq(Card) /\ cards' \in Seq(Card) /\ Len(cards) <= Len(cards')
    BY CardSteps DEF Extended, TypeOK
  <2> QED BY <2>1, LenProperties
<1>2. \A q : TapsExist(q) => \A k \in DOMAIN q : q[k].cmd \in {"confirm", "cancel"}
                                                  => q[k].card \in DOMAIN cards'
  BY <1>1 DEF TapsExist
<1>3. CASE inbox' = inbox /\ (done' = done \/ done' = <<>>)
  BY <1>2, <1>3 DEF TapsExist
<1>4. CASE Handled /\ inbox # <<>>
  <2>1. /\ inbox \in Seq(Update) /\ done \in Seq(Update) /\ Head(inbox) \in Update
        /\ Len(inbox) \in Nat \ {0} /\ Head(inbox) = inbox[1]
        /\ Tail(inbox) \in Seq(Update) /\ Len(Tail(inbox)) = Len(inbox) - 1
        /\ \A k \in 1..Len(Tail(inbox)) : Tail(inbox)[k] = inbox[k + 1]
    BY <1>4, HeadTailProperties, LenProperties, EmptySeq DEF TypeOK
  <2>2. TapsExist(inbox)'
    <3>1. inbox' = Tail(inbox) /\ DOMAIN inbox' = 1..(Len(inbox) - 1)
          /\ DOMAIN inbox = 1..Len(inbox)
      BY <1>4, <2>1, LenProperties DEF Handled
    <3>2. ASSUME NEW k \in DOMAIN inbox', inbox'[k].cmd \in {"confirm", "cancel"}
          PROVE  inbox'[k].card \in DOMAIN cards'
      <4>1. k + 1 \in DOMAIN inbox /\ inbox'[k] = inbox[k + 1]
        BY <2>1, <3>1, <3>2
      <4> QED BY <1>1, <3>2, <4>1 DEF TapsExist
    <3> QED BY <3>2 DEF TapsExist
  <2>3. TapsExist(done)'
    <3>1. CASE done' = <<>>
      BY <3>1 DEF TapsExist
    <3>2. CASE done' = Append(done, Head(inbox))
      <4>1. /\ done' \in Seq(Update) /\ Len(done') = Len(done) + 1 /\ Len(done) \in Nat
            /\ \A k \in 1..Len(done) : done'[k] = done[k]
            /\ done'[Len(done) + 1] = inbox[1]
        BY <2>1, <3>2, AppendProperties, LenProperties
      <4>2. DOMAIN done' = 1..(Len(done) + 1) /\ DOMAIN done = 1..Len(done)
            /\ 1 \in DOMAIN inbox
        BY <2>1, <4>1, LenProperties
      <4> QED BY <1>2, <4>1, <4>2 DEF TapsExist
    <3> QED BY <1>4, <3>1, <3>2 DEF Handled
  <2> QED BY <2>2, <2>3
<1>5. CASE Restart
  <2>1. /\ inbox' = done \o inbox /\ done' = <<>>
        /\ inbox' \in Seq(Update) /\ Len(inbox') = Len(done) + Len(inbox)
        /\ Len(done) \in Nat /\ Len(inbox) \in Nat
        /\ \A k \in 1..Len(inbox') : inbox'[k] = IF k <= Len(done) THEN done[k]
                                                 ELSE inbox[k - Len(done)]
    BY <1>5, ConcatProperties, LenProperties DEF Restart, TypeOK
  <2>2. /\ DOMAIN inbox' = 1..(Len(done) + Len(inbox))
        /\ DOMAIN inbox = 1..Len(inbox) /\ DOMAIN done = 1..Len(done)
    BY <2>1, LenProperties DEF TypeOK
  <2>3. \A k \in DOMAIN inbox' : inbox'[k].cmd \in {"confirm", "cancel"}
                                   => inbox'[k].card \in DOMAIN cards'
    <3> SUFFICES ASSUME NEW k \in DOMAIN inbox', inbox'[k].cmd \in {"confirm", "cancel"}
                 PROVE  inbox'[k].card \in DOMAIN cards'
      OBVIOUS
    <3>1. CASE k <= Len(done)
      BY <1>2, <2>1, <2>2, <3>1
    <3>2. CASE ~(k <= Len(done))
      <4>1. k - Len(done) \in DOMAIN inbox /\ inbox'[k] = inbox[k - Len(done)]
        BY <2>1, <2>2, <3>2
      <4> QED BY <1>2, <4>1
    <3> QED BY <3>1, <3>2
  <2> QED BY <2>1, <2>3 DEF TapsExist
<1>6. ASSUME NEW u \in Typed \cup Taps, SendUpdate(u)
      PROVE  TapsExist(inbox)' /\ TapsExist(done)'
  <2>1. DOMAIN cards \subseteq Nat
    BY LenProperties DEF TypeOK
  <2>2. u \in Update /\ (u.cmd \in {"confirm", "cancel"} => u.card \in DOMAIN cards)
    BY <2>1, TypedAssumption DEF Taps, Update, Commands
  <2>3. /\ inbox' \in Seq(Update) /\ Len(inbox') = Len(inbox) + 1 /\ Len(inbox) \in Nat
        /\ \A k \in 1..Len(inbox) : inbox'[k] = inbox[k]
        /\ inbox'[Len(inbox) + 1] = u
    BY <1>6, <2>2, AppendProperties, LenProperties DEF SendUpdate, TypeOK
  <2>4. DOMAIN inbox' = 1..(Len(inbox) + 1) /\ DOMAIN inbox = 1..Len(inbox)
    BY <2>3, LenProperties DEF TypeOK
  <2>5. TapsExist(inbox)'
    BY <1>1, <1>2, <2>2, <2>3, <2>4 DEF TapsExist
  <2> QED BY <1>2, <1>6, <2>5 DEF SendUpdate, TapsExist
<1>7. \A cmd : Receives(cmd) => inbox # <<>>
  BY DEF Receives
<1>8. FinishMove => Handled /\ inbox # <<>>
  BY DEF FinishMove, MovesInRange
<1>9. \/ Drop \/ Add \/ LaunchPlan \/ Remove \/ TypeSize \/ PlanLaunch \/ IgnoreText
      \/ StaleTap \/ CancelTap \/ ConfirmAdd
      => Handled /\ inbox # <<>>
  BY <1>7 DEF Drop, Add, LaunchPlan, Remove, TypeSize, PlanLaunch, IgnoreText, StaleTap,
              CancelTap, ConfirmAdd
<1>10. ConfirmRemove \/ PauseOrResume
       => \/ Handled /\ inbox # <<>>
          \/ inbox' = inbox /\ done' = done
  BY <1>7 DEF ConfirmRemove, PauseOrResume, StartMove, RefuseMove, chatVars
<1>11. \/ Acknowledge \/ OpsRead \/ OpsWrite \/ UNCHANGED vars
       => inbox' = inbox /\ (done' = done \/ done' = <<>>)
  BY DEF Acknowledge, OpsRead, OpsWrite, vars, chatVars
<1> QED BY <1>3, <1>4, <1>5, <1>6, <1>8, <1>9, <1>10, <1>11, BotOutline

LEMMA ShownInit ==
  ASSUME Init
  PROVE  ShownInv
BY RunsAssumption
   DEF Init, ShownInv, CardsNumbered, TapsExist, PromptShown, RunsShown, NoPending

(* The nonce of an armed card is the card's own.                           *)
LEMMA ArmedIsTapped ==
  ASSUME TypeOK, ShownInv, ConfirmAdd
  PROVE  /\ Tapped \in DOMAIN cards
         /\ pending.pool = cards[Tapped].pool
         /\ pending.size = cards[Tapped].size
<1>1. inbox \in Seq(Update) /\ inbox # <<>> /\ Head(inbox).cmd = "confirm"
  BY DEF ConfirmAdd, Receives, TypeOK
<1>2. Head(inbox) = inbox[1] /\ 1 \in DOMAIN inbox
  BY <1>1, HeadTailProperties, LenProperties, EmptySeq
<1>3. Tapped \in DOMAIN cards
  BY <1>1, <1>2 DEF ShownInv, TapsExist, Tapped
<1>4. pending.kind = "add-confirm" /\ pending.nonce = Tapped
  BY <1>3 DEF ConfirmAdd, IsArmed, ShownInv, CardsNumbered
<1> QED BY <1>3, <1>4 DEF ShownInv, PromptShown

LEMMA ShownStep ==
  ASSUME SlotInv, ShownInv, [Next]_vars
  PROVE  ShownInv'
<1> USE DEF SlotInv
<1>1. Extended(cards') /\ cards \in Seq(Card)
  BY CardSteps DEF TypeOK
<1>2. DOMAIN cards \subseteq DOMAIN cards'
  BY <1>1, LenProperties DEF Extended
<1>3. CardsNumbered'
  BY <1>1 DEF ShownInv, CardsNumbered, Extended
<1>4. TapsExist(inbox)' /\ TapsExist(done)'
  BY TapsStep DEF ShownInv
<1>5. PromptShown'
  <2>1. CASE UNCHANGED pending
    BY <1>1, <1>2, <2>1 DEF ShownInv, PromptShown, Extended
  <2>2. CASE pending'.kind # "add-confirm"
    BY <2>2 DEF PromptShown
  <2>3. CASE TypeSize
    BY <2>1, <2>3, TypeSizeExtends DEF PromptShown
  <2>4. ASSUME Add \/ LaunchPlan \/ Remove
        PROVE  pending'.kind # "add-confirm"
    <3>1. NoPending.kind # "add-confirm" /\ Forgets \subseteq {NoPending}
      BY DEF NoPending, Forgets
    <3>2. \A address, ref, nonce :
            /\ [NoPending EXCEPT !.kind = "add-size", !.pool = address].kind # "add-confirm"
            /\ [NoPending EXCEPT !.kind = "launch-input"].kind # "add-confirm"
            /\ [NoPending EXCEPT !.kind = "remove-confirm", !.ref = ref,
                                 !.nonce = nonce].kind # "add-confirm"
      BY DEF NoPending
    <3> QED BY <2>4, <3>1, <3>2 DEF Add, LaunchPlan, Remove
  <2>6. \/ Restart \/ Drop \/ PlanLaunch \/ CancelTap \/ ConfirmAdd \/ FinishMove
        => UNCHANGED pending \/ pending'.kind # "add-confirm"
    BY DEF Restart, Drop, PlanLaunch, CancelTap, ConfirmAdd, FinishMove, NoPending
  <2>5. \/ Acknowledge \/ IgnoreText \/ StaleTap \/ ConfirmRemove \/ PauseOrResume
        \/ OpsRead \/ OpsWrite \/ UNCHANGED vars
        \/ \E u \in Typed \cup Taps : SendUpdate(u)
        => UNCHANGED pending
    BY DEF SendUpdate, Acknowledge, IgnoreText, StaleTap, ConfirmRemove, PauseOrResume,
           StartMove, RefuseMove, OpsRead, OpsWrite, vars
  <2> QED BY <2>1, <2>2, <2>3, <2>4, <2>5, <2>6, BotOutline
<1>6. RunsShown'
  <2>1. \A i \in DOMAIN runs : runs[i].card # 0 =>
          /\ runs[i].card \in DOMAIN cards'
          /\ runs[i].pool = cards'[runs[i].card].pool
          /\ runs[i].size = cards'[runs[i].card].size
    BY <1>1, <1>2 DEF ShownInv, RunsShown, Extended
  <2>2. CASE UNCHANGED runs
    BY <2>1, <2>2 DEF RunsShown
  <2>3. CASE ConfirmAdd /\ AddPool(pending.pool, pending.size, Tapped)
    <3>1. pending.pool \in Pool /\ pending.size \in Size
      BY <2>3 DEF ConfirmAdd, IsArmed, TypeOK, Pending, NoPending
    <3>2. /\ Tapped \in DOMAIN cards /\ Tapped \in Nat
          /\ pending.pool = cards'[Tapped].pool
          /\ pending.size = cards'[Tapped].size
      BY <1>1, <2>3, ArmedIsTapped, LenProperties DEF Extended
    <3>3. /\ runs' \in Seq(Run)
          /\ Len(runs') = Len(runs) + 1
          /\ \A i \in 1..Len(runs) : runs'[i] = runs[i]
          /\ runs'[Len(runs) + 1] = [pool |-> pending.pool, mode |-> "SHADOW",
                                     size |-> pending.size, live |-> TRUE, card |-> Tapped]
      BY <2>3, <3>1, <3>2, AddPoolType DEF TypeOK
    <3>4. /\ DOMAIN runs' = 1..(Len(runs) + 1) /\ DOMAIN runs = 1..Len(runs)
          /\ Len(runs) \in Nat
      BY <3>3, LenProperties DEF TypeOK
    <3> QED BY <1>2, <2>1, <3>2, <3>3, <3>4 DEF RunsShown
  <2>4. ASSUME NEW i \in DOMAIN runs, NEW action \in {"pause", "resume", "remove"},
               SetPoolMode(i, To(action))
        PROVE  RunsShown'
    <3>1. /\ DOMAIN runs' = DOMAIN runs
          /\ runs'[i] = [runs[i] EXCEPT !.mode = To(action), !.live = (To(action) # "STOPPED")]
          /\ \A j \in DOMAIN runs : j # i => runs'[j] = runs[j]
      BY <2>4, SetPoolModeType DEF TypeOK
    <3>2. runs[i] \in Run
      BY LenProperties, ElementOfSeq DEF TypeOK
    <3>3. \A j \in DOMAIN runs : /\ runs'[j].card = runs[j].card
                                 /\ runs'[j].pool = runs[j].pool
                                 /\ runs'[j].size = runs[j].size
      BY <3>1, <3>2 DEF Run
    <3> QED BY <2>1, <3>1, <3>3 DEF RunsShown
  <2>5. CASE FinishMove /\ SetPoolMode(move.row, To(move.action))
    BY <2>4, <2>5 DEF FinishMove, TypeOK, MovesInRange, Move
  <2>6. CASE OpsWrite /\ SetPoolMode(ops.row, To(ops.action))
    BY <2>4, <2>6 DEF OpsWrite, TypeOK, MovesInRange, Move
  <2> QED BY <2>2, <2>3, <2>5, <2>6, RunSteps
<1> QED BY <1>3, <1>4, <1>5, <1>6 DEF ShownInv

(* Whatever cards are corrected, tapped late, lost or delivered again, a   *)
(* run has the pool and the size its card showed.                          *)
THEOREM RunsAreAsShown == Spec => []AddsAsShown
<1>1. Init => SlotInv /\ ShownInv
  BY SlotInit, ShownInit
<1>2. SlotInv /\ ShownInv /\ [Next]_vars => SlotInv' /\ ShownInv'
  BY SlotStep, ShownStep
<1>3. ShownInv => AddsAsShown
  BY DEF ShownInv, RunsShown, AddsAsShown
<1> QED BY <1>1, <1>2, <1>3, PTL DEF Spec

-----------------------------------------------------------------------------
(* What cards do.  A tap that fails after the query took effect leaves its  *)
(* card armed, and a later tap on it must find nothing left to do.          *)

(* Every step takes the counts of the cards along; tapped is the one that  *)
(* acts, or 0, and a new card has not acted.                               *)
Counted(tapped) ==
  /\ \A c \in DOMAIN cards :
       /\ cards'[c].kind = cards[c].kind
       /\ cards'[c].asked = cards[c].asked
       /\ cards'[c].acted = IF c = tapped THEN cards[c].acted + 1 ELSE cards[c].acted
  /\ \A c \in DOMAIN cards' \ DOMAIN cards : cards'[c].acted = 0

Confirming == {"add-confirm", "remove-confirm"}

Disarmed == pending'.kind \notin Confirming

(* The answer of the query that took effect may be lost.                   *)
Answered == Disarmed \/ ("db" \in env /\ UNCHANGED pending)

Rests ==
  /\ Counted(0)
  /\ UNCHANGED runs
  /\ \/ UNCHANGED <<pending, move>>
     \/ (UNCHANGED pending \/ Disarmed) /\ move' = NoMove

Arms ==
  /\ Counted(0)
  /\ UNCHANGED runs
  /\ move' = NoMove
  /\ pending'.nonce \in DOMAIN cards'
  /\ cards'[pending'.nonce].acted = 0
  /\ \/ pending'.kind = "add-confirm"
     \/ /\ pending'.kind = "remove-confirm"
        /\ LET found == Resolve(pending'.ref)
           IN  cards'[pending'.nonce].asked = IF found = {} THEN 0 ELSE CHOOSE i \in found : TRUE

Starts ==
  /\ UNCHANGED <<cards, pending, runs>>
  /\ \E i \in DOMAIN runs :
       \/ \E action \in {"pause", "resume"} :
            move' = [row |-> i, action |-> action, by |-> 0]
       \/ /\ pending.kind = "remove-confirm"
          /\ pending.nonce \in DOMAIN cards
          /\ i \in Resolve(pending.ref)
          /\ runs[i].mode # "STOPPED"
          /\ move' = [row |-> i, action |-> "remove", by |-> pending.nonce]

Adds ==
  /\ pending.kind = "add-confirm"
  /\ pending.nonce \in DOMAIN cards
  /\ cards[pending.nonce].kind = "add"
  /\ AddPool(pending.pool, pending.size, pending.nonce)
  /\ Counted(pending.nonce)
  /\ Answered
  /\ move' = NoMove

Moves ==
  /\ move # NoMove
  /\ SetPoolMode(move.row, To(move.action))
  /\ Counted(move.by)
  /\ IF Prompted THEN Answered ELSE UNCHANGED pending
  /\ move' = NoMove

Elsewhere == ops # NoMove /\ UNCHANGED <<cards, pending, move>>

LEMMA CountedCards ==
  ASSUME cards \in Seq(Card), NEW c
  PROVE  /\ UNCHANGED cards => Counted(0)
         /\ cards' = ClearButtons(c) => Counted(0)
         /\ cards' = Acted(c) => Counted(c)
         /\ cards' = [Acted(c) EXCEPT ![c].buttons = FALSE] => Counted(c)
         /\ Acts(c) => Counted(c)
<1>1. DOMAIN cards = 1..Len(cards) /\ 0 \notin DOMAIN cards
      /\ \A d \in DOMAIN cards : cards[d] \in Card
  BY LenProperties, ElementOfSeq
<1>2. UNCHANGED cards => Counted(0)
  BY <1>1 DEF Counted
<1>3. cards' = ClearButtons(c) => Counted(0)
  BY <1>1 DEF ClearButtons, Counted, Card
<1>4. cards' = Acted(c) => Counted(c)
  BY <1>1 DEF Acted, Counted, Card
<1>5. cards' = [Acted(c) EXCEPT ![c].buttons = FALSE] => Counted(c)
  <2> SUFFICES ASSUME cards' = [Acted(c) EXCEPT ![c].buttons = FALSE], NEW d \in DOMAIN cards
               PROVE  /\ cards'[d].kind = cards[d].kind
                      /\ cards'[d].asked = cards[d].asked
                      /\ cards'[d].acted = IF d = c THEN cards[d].acted + 1 ELSE cards[d].acted
    BY DEF Counted, Acted
  <2>1. CASE d = c
    <3>1. Acted(c)[d] = [cards[d] EXCEPT !.acted = cards[d].acted + 1] /\ d \in DOMAIN Acted(c)
      BY <2>1 DEF Acted
    <3>2. cards'[d] = [Acted(c)[d] EXCEPT !.buttons = FALSE]
      BY <2>1, <3>1
    <3> QED BY <1>1, <2>1, <3>1, <3>2 DEF Card
  <2>2. CASE d # c
    BY <2>2 DEF Acted
  <2> QED BY <2>1, <2>2
<1>6. Acts(c) => Counted(c)
  BY <1>4, <1>5 DEF Acts
<1> QED BY <1>2, <1>3, <1>4, <1>5, <1>6

LEMMA CountedAppend ==
  ASSUME cards \in Seq(Card), NEW cs, Reworded(cs), NEW card \in Card,
         card.acted = 0, cards' = Append(cs, card), cs = cards \/ \E c : cs = ClearButtons(c)
  PROVE  /\ Counted(0)
         /\ Len(cards) + 1 \in DOMAIN cards'
         /\ cards'[Len(cards) + 1] = card
<1>1. /\ cs \in Seq(Card) /\ Len(cs) = Len(cards) /\ Len(cards) \in Nat
      /\ DOMAIN cs = 1..Len(cards) /\ DOMAIN cards = 1..Len(cards)
  BY LenProperties DEF Reworded
<1>2. /\ Len(cards') = Len(cards) + 1 /\ cards' \in Seq(Card)
      /\ \A i \in 1..Len(cards) : cards'[i] = cs[i]
      /\ cards'[Len(cards) + 1] = card
  BY <1>1, AppendProperties
<1>3. DOMAIN cards' = 1..(Len(cards) + 1)
  BY <1>2, LenProperties
<1>4. \A d \in DOMAIN cards : cards[d] \in Card
  BY ElementOfSeq, <1>1
<1>5. \A d \in DOMAIN cards : /\ cs[d].kind = cards[d].kind
                              /\ cs[d].asked = cards[d].asked
                              /\ cs[d].acted = cards[d].acted
  <2>1. CASE cs = cards
    BY <2>1
  <2>2. ASSUME NEW c, cs = ClearButtons(c)
        PROVE  \A d \in DOMAIN cards : /\ cs[d].kind = cards[d].kind
                                       /\ cs[d].asked = cards[d].asked
                                       /\ cs[d].acted = cards[d].acted
    BY <1>4, <2>2 DEF ClearButtons, Card
  <2> QED BY <2>1, <2>2
<1>6. Counted(0)
  BY <1>1, <1>2, <1>3, <1>5 DEF Counted
<1> QED BY <1>1, <1>2, <1>3, <1>6

(* The card of a tap, whether it is armed or not.                          *)
LEMMA TapKnown ==
  ASSUME TypeOK, ShownInv, Receives("confirm") \/ Receives("cancel")
  PROVE  Tapped \in DOMAIN cards /\ cards[Tapped].nonce = Tapped
<1>1. inbox \in Seq(Update) /\ inbox # <<>> /\ Head(inbox).cmd \in {"confirm", "cancel"}
  BY DEF Receives, TypeOK
<1>2. Head(inbox) = inbox[1] /\ 1 \in DOMAIN inbox
  BY <1>1, HeadTailProperties, LenProperties, EmptySeq
<1>3. Tapped \in DOMAIN cards
  BY <1>1, <1>2 DEF ShownInv, TapsExist, Tapped
<1> QED BY <1>3 DEF ShownInv, CardsNumbered

LEMMA ActOutline ==
  ASSUME SlotInv, ShownInv, [Next]_vars
  PROVE  Rests \/ Arms \/ Starts \/ Adds \/ Moves \/ Elsewhere
<1> USE DEF SlotInv, TypeOK
<1>1. UNCHANGED cards => Counted(0)
  BY CountedCards
<1>2. NoPending.kind \notin Confirming /\ Forgets \subseteq {NoPending}
  BY DEF NoPending, Forgets, Confirming
<1>3. \A cmd : Receives(cmd) => move = NoMove
  BY DEF Receives
<1>4. \/ Acknowledge \/ OpsRead \/ UNCHANGED vars \/ \E u \in Typed \cup Taps : SendUpdate(u)
      => UNCHANGED <<cards, pending, runs, move>>
  BY DEF Acknowledge, OpsRead, SendUpdate, vars
<1>5. Restart => UNCHANGED <<cards, runs>> /\ Disarmed /\ move' = NoMove
  BY <1>2 DEF Restart, Disarmed
<1>6. Drop \/ Add \/ LaunchPlan => UNCHANGED <<cards, runs, move>> /\ Disarmed /\ move = NoMove
  <2>1. \A address :
          /\ [NoPending EXCEPT !.kind = "add-size", !.pool = address].kind \notin Confirming
          /\ [NoPending EXCEPT !.kind = "launch-input"].kind \notin Confirming
    BY DEF NoPending, Confirming
  <2> QED BY <1>2, <1>3, <2>1 DEF Drop, Add, LaunchPlan, Disarmed
<1>7. PlanLaunch \/ IgnoreText => UNCHANGED <<cards, runs, move>> /\ (UNCHANGED pending \/ Disarmed)
  BY <1>2 DEF PlanLaunch, IgnoreText, Disarmed
<1>8. CASE Remove
  <2>1. UNCHANGED <<runs, move>> /\ move = NoMove
    BY <1>3, <1>8 DEF Remove
  <2>2. CASE pending' \in Forgets /\ UNCHANGED cards
    BY <1>1, <1>2, <2>1, <2>2 DEF Disarmed, Rests
  <2>3. ASSUME NEW shown \in BOOLEAN, cards' = Append(cards, RemoveCard(Arg, shown)),
               pending' = [NoPending EXCEPT !.kind = "remove-confirm", !.ref = Arg,
                                            !.nonce = NewNonce]
        PROVE  Arms
    <3>1. /\ pending'.kind = "remove-confirm"
          /\ pending'.ref = Arg
          /\ pending'.nonce = Len(cards) + 1
      BY <2>3 DEF NoPending, NewNonce
    <3>2. /\ RemoveCard(Arg, shown).acted = 0
          /\ RemoveCard(Arg, shown).asked =
               IF Resolve(Arg) = {} THEN 0 ELSE CHOOSE i \in Resolve(Arg) : TRUE
      BY DEF RemoveCard
    <3>3. /\ Counted(0)
          /\ Len(cards) + 1 \in DOMAIN cards'
          /\ cards'[Len(cards) + 1] = RemoveCard(Arg, shown)
      BY <2>3, <3>2, RemoveCardType, CardsReworded, CountedAppend
    <3> QED BY <2>1, <3>1, <3>2, <3>3 DEF Arms
  <2> QED BY <1>8, <2>2, <2>3 DEF Remove
<1>9. CASE TypeSize
  <2>1. UNCHANGED <<runs, move>> /\ move = NoMove
    BY <1>3, <1>9 DEF TypeSize
  <2>2. Arg \in Size /\ pending.kind \in {"add-size", "add-confirm"}
    BY <1>9 DEF TypeSize, IsAmount
  <2>3. PICK cleared \in {ClearButtons(pending.card), cards}, shown \in BOOLEAN :
          /\ cards' = Append(cleared, AddCard(Arg, shown))
          /\ UNCHANGED pending \/ pending' = Arm(Arg)
    BY <1>9 DEF TypeSize
  <2>4. /\ AddCard(Arg, shown) \in Card
        /\ Arm(Arg).kind = "add-confirm"
        /\ Arm(Arg).nonce = Len(cards) + 1
    BY <2>2, ArmType
  <2>5. Reworded(cleared)
    BY CardsReworded
  <2>6. AddCard(Arg, shown).acted = 0
    BY DEF AddCard
  <2>7. /\ Counted(0)
        /\ Len(cards) + 1 \in DOMAIN cards'
        /\ cards'[Len(cards) + 1] = AddCard(Arg, shown)
    BY <2>3, <2>4, <2>5, <2>6, CountedAppend
  <2> QED BY <2>1, <2>3, <2>4, <2>6, <2>7 DEF Arms, Rests
<1>10. CASE StaleTap \/ CancelTap
  <2>1. Counted(0)
    BY <1>1, <1>10, CountedCards DEF StaleTap, CancelTap, Neutralize
  <2>2. UNCHANGED <<runs, move>> /\ move = NoMove /\ (UNCHANGED pending \/ Disarmed)
    BY <1>2, <1>3, <1>10 DEF StaleTap, CancelTap, Disarmed
  <2> QED BY <2>1, <2>2 DEF Rests
<1>11. CASE ConfirmAdd
  <2>1. Tapped \in DOMAIN cards /\ cards[Tapped].nonce = Tapped
    BY <1>11, TapKnown DEF ConfirmAdd
  <2>2. /\ pending.kind = "add-confirm" /\ pending.nonce = Tapped
        /\ cards[Tapped].kind = "add"
        /\ move = NoMove /\ UNCHANGED move
    BY <1>3, <1>11, <2>1 DEF ConfirmAdd, IsArmed
  <2>3. CASE UNCHANGED <<runs, cards, pending>>
    BY <1>1, <2>2, <2>3 DEF Rests
  <2>4. CASE /\ AddPool(pending.pool, pending.size, Tapped)
             /\ pending' = NoPending
             /\ Acts(Tapped)
    BY <1>2, <2>1, <2>2, <2>4, CountedCards DEF Adds, Answered, Disarmed
  <2>5. CASE /\ "db" \in env
             /\ AddPool(pending.pool, pending.size, Tapped)
             /\ cards' = Acted(Tapped)
             /\ UNCHANGED pending
    BY <2>1, <2>2, <2>5, CountedCards DEF Adds, Answered
  <2> QED BY <1>11, <2>3, <2>4, <2>5 DEF ConfirmAdd
<1>12. CASE ConfirmRemove
  <2>1. Tapped \in DOMAIN cards /\ cards[Tapped].nonce = Tapped
    BY <1>12, TapKnown DEF ConfirmRemove
  <2>2. pending.kind = "remove-confirm" /\ pending.nonce = Tapped
    BY <1>12, <2>1 DEF ConfirmRemove, IsArmed
  <2>3. CASE RefuseMove("remove", pending.ref)
    BY <1>1, <2>3 DEF RefuseMove, Rests
  <2>4. CASE StartMove("remove", pending.ref, Tapped)
    <3>1. PICK i \in Resolve(pending.ref) :
            CanMove("remove", i) /\ move' = [row |-> i, action |-> "remove", by |-> Tapped]
      BY <2>4 DEF StartMove
    <3>2. runs[i].mode # "STOPPED"
      BY <3>1 DEF CanMove, From
    <3>3. i \in DOMAIN runs
      BY ResolveKnown
    <3> QED BY <2>1, <2>2, <2>4, <3>1, <3>2, <3>3 DEF StartMove, Starts
  <2> QED BY <1>12, <2>3, <2>4 DEF ConfirmRemove
<1>13. CASE PauseOrResume
  <2>1. PICK action \in {"pause", "resume"} : StartMove(action, Arg, 0) \/ RefuseMove(action, Arg)
    BY <1>13 DEF PauseOrResume
  <2>2. CASE RefuseMove(action, Arg)
    BY <1>1, <2>2 DEF RefuseMove, Rests
  <2>3. CASE StartMove(action, Arg, 0)
    BY <2>3, ResolveKnown DEF StartMove, Starts
  <2> QED BY <2>1, <2>2, <2>3
<1>14. CASE FinishMove
  <2>1. move # NoMove /\ move' = NoMove
    BY <1>14 DEF FinishMove
  <2>2. UNCHANGED cards /\ ~Prompted => Counted(move.by)
    BY <1>1 DEF Prompted
  <2>3. CASE UNCHANGED <<runs, cards, pending>>
    BY <1>1, <2>1, <2>3 DEF Rests
  <2>4. CASE /\ SetPoolMode(move.row, To(move.action))
             /\ IF Prompted THEN Acts(move.by) ELSE UNCHANGED cards
             /\ pending' = IF Prompted THEN NoPending ELSE pending
    BY <1>2, <2>1, <2>2, <2>4, CountedCards DEF Moves, Answered, Disarmed
  <2>5. CASE /\ "db" \in env
             /\ SetPoolMode(move.row, To(move.action))
             /\ cards' = IF Prompted THEN Acted(move.by) ELSE cards
             /\ UNCHANGED pending
    BY <2>1, <2>2, <2>5, CountedCards DEF Moves, Answered
  <2> QED BY <1>14, <2>3, <2>4, <2>5 DEF FinishMove
<1>15. OpsWrite => Elsewhere
  BY DEF OpsWrite, Elsewhere
<1>16. UNCHANGED <<cards, runs, move>> /\ (UNCHANGED pending \/ (Disarmed /\ move = NoMove))
       => Rests
  BY <1>1 DEF Rests
<1>17. PlanLaunch \/ IgnoreText => move = NoMove
  BY <1>3 DEF PlanLaunch, IgnoreText
<1>18. Restart => Rests
  BY <1>1, <1>5 DEF Rests
<1> QED
  BY <1>4, <1>6, <1>7, <1>8, <1>9, <1>10, <1>11, <1>12, <1>13, <1>14, <1>15, <1>16, <1>17,
     <1>18, BotOutline

(* What a reference means.  A row that pauses or resumes stays live.       *)

LEMMA MeansOne ==
  ASSUME SlotInv, NEW ref, NEW i \in Resolve(ref)
  PROVE  Resolve(ref) = {i}
<1>1. IsFiniteSet(Active)
  <2>1. IsFiniteSet(DOMAIN runs)
    BY LenProperties, FS_Interval DEF SlotInv, TypeOK
  <2> QED BY <2>1, FS_Subset DEF Active
<1>2. Cardinality(Active) = 1 => \E x : Active = {x}
  BY <1>1, FS_Singleton
<1>3. ASSUME NEW ids \in SUBSET DOMAIN runs, i \in PickOne(ids)
      PROVE  PickOne(ids) = {i}
  <2>1. ids \subseteq Nat
    BY LenProperties DEF SlotInv, TypeOK
  <2> QED BY <1>3, <2>1 DEF PickOne
<1>4. ByAddress(ref) \in SUBSET DOMAIN runs /\ ByLabel(ref) \in SUBSET DOMAIN runs
  BY DEF ByAddress, ByLabel
<1> QED BY <1>2, <1>3, <1>4 DEF Resolve

LEMMA KeepsMeaning ==
  ASSUME SlotInv, NEW row \in DOMAIN runs, runs[row].mode # "STOPPED",
         NEW action \in {"pause", "resume"}, SetPoolMode(row, To(action)), NEW ref
  PROVE  /\ Resolve(ref)' = Resolve(ref)
         /\ \A i \in DOMAIN runs : runs'[i].mode = "STOPPED" <=> runs[i].mode = "STOPPED"
         /\ \A address : SlotTaken(address, 0) => SlotTaken(address, 0)'
<1>1. /\ DOMAIN runs' = DOMAIN runs
      /\ runs'[row] = [runs[row] EXCEPT !.mode = To(action), !.live = (To(action) # "STOPPED")]
      /\ \A j \in DOMAIN runs : j # row => runs'[j] = runs[j]
  BY SetPoolModeType DEF SlotInv, TypeOK
<1>2. runs[row] \in Run
  BY LenProperties, ElementOfSeq DEF SlotInv, TypeOK
<1>3. /\ runs'[row].mode # "STOPPED"
      /\ runs'[row].live
      /\ runs'[row].pool = runs[row].pool
  BY <1>2, <1>1 DEF To, Run
<1>4. \A i \in DOMAIN runs : /\ runs'[i].mode = "STOPPED" <=> runs[i].mode = "STOPPED"
                             /\ runs'[i].pool = runs[i].pool
                             /\ runs[i].live => runs'[i].live
  BY <1>1, <1>3
<1>5. Active' = Active
  BY <1>1, <1>4 DEF Active
<1>6. ByAddress(ref)' = ByAddress(ref) /\ ByLabel(ref)' = ByLabel(ref)
  BY <1>1, <1>4 DEF ByAddress, ByLabel
<1>7. \A ids \in SUBSET DOMAIN runs : PickOne(ids)' = PickOne(ids)
  BY <1>1, <1>4, <1>5 DEF PickOne
<1>8. ByAddress(ref) \in SUBSET DOMAIN runs /\ ByLabel(ref) \in SUBSET DOMAIN runs
  BY DEF ByAddress, ByLabel
<1>9. Resolve(ref)' = Resolve(ref)
  BY <1>5, <1>6, <1>7, <1>8 DEF Resolve
<1>10. \A address : SlotTaken(address, 0) => SlotTaken(address, 0)'
  BY <1>1, <1>4 DEF SlotTaken
<1> QED BY <1>4, <1>9, <1>10

(* Once it is stopped, nothing else is meant that could be.                *)
LEMMA StopsMeant ==
  ASSUME SlotInv, NEW ref, NEW row \in Resolve(ref), runs[row].mode # "STOPPED",
         SetPoolMode(row, "STOPPED")
  PROVE  /\ \A i \in Resolve(ref)' : runs'[i].mode = "STOPPED"
         /\ runs'[row].mode = "STOPPED"
<1>1. row \in DOMAIN runs /\ To("remove") = "STOPPED"
  BY ResolveKnown DEF To
<1>2. /\ DOMAIN runs' = DOMAIN runs
      /\ runs'[row] = [runs[row] EXCEPT !.mode = To("remove"),
                                        !.live = (To("remove") # "STOPPED")]
      /\ \A j \in DOMAIN runs : j # row => runs'[j] = runs[j]
  BY <1>1, SetPoolModeType DEF SlotInv, TypeOK
<1>3. runs[row] \in Run
  BY <1>1, LenProperties, ElementOfSeq DEF SlotInv, TypeOK
<1>4. runs'[row].mode = "STOPPED" /\ runs'[row].pool = runs[row].pool
  BY <1>3, <1>1, <1>2 DEF Run
<1>5. \A i \in DOMAIN runs : runs'[i].pool = runs[i].pool
  BY <1>2, <1>4
<1>6. Active' = Active \ {row} /\ row \in Active
  <2>1. \A i \in DOMAIN runs :
          runs'[i].mode # "STOPPED" <=> i # row /\ runs[i].mode # "STOPPED"
    BY <1>2, <1>4
  <2> QED BY <1>1, <1>2, <2>1 DEF Active
<1>7. ByAddress(ref)' = ByAddress(ref) /\ ByLabel(ref)' = ByLabel(ref)
  BY <1>2, <1>5 DEF ByAddress, ByLabel
<1>8. ASSUME NEW ids \in SUBSET DOMAIN runs, row \in PickOne(ids)
      PROVE  \A i \in PickOne(ids)' : i \in DOMAIN runs /\ i \notin Active'
  <2>1. row \in ids /\ \A j \in ids : runs[j].pool = runs[row].pool
    BY <1>8 DEF PickOne
  <2>2. ids \cap Active = {row}
    BY <1>6, <2>1 DEF SlotInv, Slotted, Active
  <2>3. ids \cap Active' = {}
    BY <1>6, <2>2
  <2> QED BY <2>3 DEF PickOne
<1>9. CASE ref = NoRef
  <2>1. Cardinality(Active) = 1
    BY <1>9 DEF Resolve
  <2>2. IsFiniteSet(Active)
    <3>1. IsFiniteSet(DOMAIN runs)
      BY LenProperties, FS_Interval DEF SlotInv, TypeOK
    <3> QED BY <3>1, FS_Subset DEF Active
  <2>3. Active = {row}
    BY <1>6, <2>1, <2>2, FS_Singleton
  <2>4. Active' = {}
    BY <1>6, <2>3
  <2> QED BY <1>4, <1>9, <2>4 DEF Resolve
<1>10. CASE ref # NoRef
  <2>1. ByAddress(ref) \in SUBSET DOMAIN runs /\ ByLabel(ref) \in SUBSET DOMAIN runs
    BY DEF ByAddress, ByLabel
  <2>2. PICK ids \in {ByAddress(ref), ByLabel(ref)} :
          row \in PickOne(ids) /\ Resolve(ref)' = PickOne(ids)'
    BY <1>7, <1>10 DEF Resolve
  <2>3. \A i \in Resolve(ref)' : i \in DOMAIN runs /\ i \notin Active'
    BY <1>8, <2>1, <2>2
  <2> QED BY <1>2, <1>4, <2>3 DEF Active
<1> QED BY <1>4, <1>9, <1>10

-----------------------------------------------------------------------------
(* Nobody else moves pools where answers of the database get lost.         *)
Alone == ~({"db", "ops"} \subseteq env)

(* A prompt that awaits a tap has its card.                                *)
ArmedCard == pending.kind \in Confirming => pending.nonce \in DOMAIN cards

(* A move a card started is the removal that card is armed for.            *)
MoveOfCard ==
  move # NoMove =>
    IF ~Prompted THEN move.action # "remove"
    ELSE /\ move.action = "remove"
         /\ pending.kind = "remove-confirm" /\ pending.nonce = move.by
         /\ cards[move.by].acted = 0
         /\ "ops" \notin env => move.row \in Resolve(pending.ref)

(* A card that acted and is armed still finds its pool taken, or nothing   *)
(* left to stop.                                                           *)
SpentCard ==
  /\ pending.kind = "add-confirm" /\ cards[pending.nonce].acted # 0
       => "db" \in env /\ SlotTaken(pending.pool, 0)
  /\ pending.kind = "remove-confirm" /\ cards[pending.nonce].acted # 0
       => "db" \in env /\ \A i \in Resolve(pending.ref) : runs[i].mode = "STOPPED"

(* Until the card acted, its argument means the run it was asked about.    *)
AskedMeans ==
  /\ "ops" \notin env
  /\ pending.kind = "remove-confirm"
  /\ cards[pending.nonce].acted = 0 /\ cards[pending.nonce].asked # 0
  => Resolve(pending.ref) = {cards[pending.nonce].asked}

ActInv == CardsActOnce /\ ArmedCard /\ MoveOfCard /\ SpentCard /\ AskedMeans

BotInv == SlotInv /\ ReadIsFresh /\ ShownInv

LEMMA ActInit ==
  ASSUME Init
  PROVE  ActInv
<1>1. cards = <<>> /\ DOMAIN cards = {} /\ move = NoMove /\ pending.kind = "none"
  BY DEF Init, NoPending
<1> QED
  BY <1>1 DEF ActInv, CardsActOnce, ArmedCard, MoveOfCard, SpentCard, AskedMeans, Confirming

(* A move of the bot finds the row as it read it.                          *)
LEMMA MovedRow ==
  ASSUME BotInv, ActInv, Moves
  PROVE  /\ move.row \in DOMAIN runs
         /\ move.action \in {"pause", "resume", "remove"}
         /\ "ops" \notin env => runs[move.row].mode # "STOPPED"
         /\ ~Prompted => move.action \in {"pause", "resume"}
         /\ Prompted => /\ To(move.action) = "STOPPED"
                        /\ pending.kind = "remove-confirm" /\ pending.nonce = move.by
                        /\ cards[move.by].acted = 0
                        /\ "ops" \notin env => move.row \in Resolve(pending.ref)
<1>1. move # NoMove /\ move \in Move /\ move.row \in DOMAIN runs
  BY DEF Moves, BotInv, SlotInv, TypeOK, MovesInRange
<1>2. "ops" \notin env => runs[move.row].mode # "STOPPED"
  BY <1>1 DEF BotInv, ReadIsFresh, From, Move
<1> QED BY <1>1, <1>2 DEF ActInv, MoveOfCard, Move, To

LEMMA ArmedStep ==
  ASSUME BotInv, ActInv, [Next]_vars
  PROVE  ArmedCard'
<1>1. DOMAIN cards \subseteq DOMAIN cards'
  <2>1. cards \in Seq(Card) /\ Extended(cards')
    BY CardSteps DEF BotInv, SlotInv, TypeOK
  <2> QED BY <2>1, LenProperties DEF Extended
<1>2. CASE UNCHANGED pending
  BY <1>1, <1>2 DEF ActInv, ArmedCard
<1>3. CASE Disarmed
  BY <1>3 DEF Disarmed, ArmedCard
<1>4. CASE Arms
  BY <1>4 DEF Arms, ArmedCard
<1>5. Rests \/ Starts \/ Adds \/ Moves \/ Elsewhere => UNCHANGED pending \/ Disarmed
  BY DEF Rests, Starts, Adds, Moves, Elsewhere, Answered
<1> QED BY <1>2, <1>3, <1>4, <1>5, ActOutline DEF BotInv

(* A card acts only if it has not acted before.                            *)
LEMMA OnceActStep ==
  ASSUME BotInv, ActInv, [Next]_vars
  PROVE  CardsActOnce'
<1>1. /\ cards \in Seq(Card)
      /\ \A c \in DOMAIN cards : cards[c].acted \in Nat /\ c # 0
  <2>1. cards \in Seq(Card) /\ DOMAIN cards = 1..Len(cards)
    BY LenProperties DEF BotInv, SlotInv, TypeOK
  <2>2. \A c \in DOMAIN cards : cards[c] \in Card
    BY <2>1, ElementOfSeq
  <2> QED BY <2>1, <2>2 DEF Card
<1>2. ASSUME NEW tapped, Counted(tapped), tapped \in DOMAIN cards => cards[tapped].acted = 0
      PROVE  CardsActOnce'
  BY <1>1, <1>2 DEF ActInv, CardsActOnce, Counted
<1>3. CASE Rests \/ Arms \/ UNCHANGED cards
  BY <1>1, <1>2, <1>3, CountedCards DEF Rests, Arms
<1>4. CASE Adds
  <2>1. ~SlotTaken(pending.pool, 0)
    BY <1>4 DEF Adds, AddPool
  <2> QED BY <1>2, <1>4, <2>1 DEF Adds, ActInv, SpentCard
<1>5. CASE Moves
  <2>1. move.by \in DOMAIN cards => cards[move.by].acted = 0
    BY <1>1, <1>5, MovedRow DEF Prompted
  <2> QED BY <1>2, <1>5, <2>1 DEF Moves
<1> QED BY <1>3, <1>4, <1>5, ActOutline DEF BotInv, Starts, Elsewhere

LEMMA ArmedCounted ==
  ASSUME BotInv, ActInv, Counted(0), pending.kind \in Confirming
  PROVE  /\ cards'[pending.nonce].acted = cards[pending.nonce].acted
         /\ cards'[pending.nonce].asked = cards[pending.nonce].asked
<1>1. pending.nonce \in DOMAIN cards
  BY DEF ActInv, ArmedCard
<1>2. pending.nonce # 0
  BY <1>1, LenProperties DEF BotInv, SlotInv, TypeOK
<1> QED BY <1>1, <1>2 DEF Counted

LEMMA MoveOfCardStep ==
  ASSUME BotInv, ActInv, [Next]_vars
  PROVE  MoveOfCard'
<1>1. UNCHANGED env /\ (ops # NoMove => "ops" \in env)
  BY MoveSteps DEF BotInv, SlotInv, ReadIsFresh
<1>2. CASE move' = NoMove
  BY <1>2 DEF MoveOfCard
<1>3. CASE UNCHANGED <<pending, move>> /\ Counted(0) /\ UNCHANGED runs
  <2> SUFFICES ASSUME move # NoMove
               PROVE  MoveOfCard'
    BY <1>3 DEF MoveOfCard
  <2>1. CASE ~Prompted
    BY <1>3, <2>1 DEF ActInv, MoveOfCard, Prompted
  <2>2. CASE Prompted
    <3>1. /\ move.action = "remove"
          /\ pending.kind = "remove-confirm" /\ pending.nonce = move.by
          /\ cards[move.by].acted = 0
          /\ "ops" \notin env => move.row \in Resolve(pending.ref)
      BY <2>2 DEF ActInv, MoveOfCard
    <3>2. move.by \in DOMAIN cards
      BY <3>1 DEF ActInv, ArmedCard, Confirming
    <3>3. cards'[move.by].acted = 0
      BY <1>3, <2>2, <3>1, <3>2 DEF Counted, Prompted
    <3>4. Resolve(pending.ref)' = Resolve(pending.ref)
      BY <1>3 DEF Resolve, PickOne, ByAddress, ByLabel, Active
    <3> QED BY <1>1, <1>3, <2>2, <3>1, <3>3, <3>4 DEF MoveOfCard, Prompted
  <2> QED BY <2>1, <2>2
<1>4. CASE Starts
  <2>1. PICK i \in DOMAIN runs :
       \/ \E action \in {"pause", "resume"} :
            move' = [row |-> i, action |-> action, by |-> 0]
       \/ /\ pending.kind = "remove-confirm"
          /\ pending.nonce \in DOMAIN cards
          /\ i \in Resolve(pending.ref)
          /\ runs[i].mode # "STOPPED"
          /\ move' = [row |-> i, action |-> "remove", by |-> pending.nonce]
    BY <1>4 DEF Starts
  <2>2. CASE \E action \in {"pause", "resume"} : move' = [row |-> i, action |-> action, by |-> 0]
    BY <2>2 DEF MoveOfCard, Prompted
  <2>3. CASE /\ pending.kind = "remove-confirm"
             /\ pending.nonce \in DOMAIN cards
             /\ i \in Resolve(pending.ref)
             /\ runs[i].mode # "STOPPED"
             /\ move' = [row |-> i, action |-> "remove", by |-> pending.nonce]
    <3>1. cards[pending.nonce].acted = 0 /\ pending.nonce # 0
      BY <2>3, LenProperties DEF ActInv, SpentCard, BotInv, SlotInv, TypeOK
    <3>2. Resolve(pending.ref)' = Resolve(pending.ref) /\ UNCHANGED <<pending, cards>>
      BY <1>4 DEF Starts, Resolve, PickOne, ByAddress, ByLabel, Active
    <3> QED BY <2>3, <3>1, <3>2 DEF MoveOfCard, Prompted
  <2> QED BY <2>1, <2>2, <2>3
<1>5. CASE Elsewhere
  BY <1>1, <1>5 DEF Elsewhere, ActInv, MoveOfCard, Prompted
<1>6. Arms \/ Adds \/ Moves => move' = NoMove
  BY DEF Arms, Adds, Moves
<1>7. Rests => move' = NoMove \/ (UNCHANGED <<pending, move>> /\ Counted(0) /\ UNCHANGED runs)
  BY DEF Rests
<1> QED BY <1>2, <1>3, <1>4, <1>5, <1>6, <1>7, ActOutline DEF BotInv

LEMMA SpentStep ==
  ASSUME Alone, BotInv, ActInv, [Next]_vars
  PROVE  SpentCard'
<1>1. UNCHANGED env /\ (ops # NoMove => "ops" \in env)
  BY MoveSteps DEF BotInv, SlotInv, ReadIsFresh
<1>2. CASE Disarmed
  BY <1>2 DEF Disarmed, Confirming, SpentCard
<1>3. CASE Arms
  BY <1>3 DEF Arms, SpentCard
<1>4. CASE UNCHANGED <<pending, runs>> /\ Counted(0)
  <2>1. pending.kind \in Confirming
        => cards'[pending.nonce].acted = cards[pending.nonce].acted
    BY <1>4, ArmedCounted
  <2>2. /\ Resolve(pending.ref)' = Resolve(pending.ref)
        /\ SlotTaken(pending.pool, 0)' = SlotTaken(pending.pool, 0)
    BY <1>4 DEF Resolve, PickOne, ByAddress, ByLabel, Active, SlotTaken
  <2> QED BY <1>1, <1>4, <2>1, <2>2 DEF ActInv, SpentCard, Confirming
<1>5. CASE Adds
  <2> SUFFICES ASSUME "db" \in env, UNCHANGED pending
               PROVE  SpentCard'
    BY <1>2, <1>5 DEF Adds, Answered
  <2>1. pending.kind = "add-confirm" /\ pending.pool \in Pool /\ pending.size \in Size
    BY <1>5 DEF Adds, BotInv, SlotInv, TypeOK, Pending, NoPending
  <2>2. /\ Len(runs') = Len(runs) + 1 /\ runs' \in Seq(Run) /\ Len(runs) \in Nat
        /\ runs'[Len(runs) + 1].pool = pending.pool
        /\ runs'[Len(runs) + 1].live
    <3>1. pending.nonce \in Nat
      BY <1>5, LenProperties DEF Adds, BotInv, SlotInv, TypeOK
    <3>2. runs \in Seq(Run) /\ AddPool(pending.pool, pending.size, pending.nonce)
      BY <1>5 DEF Adds, BotInv, SlotInv, TypeOK
    <3>3. /\ Len(runs') = Len(runs) + 1 /\ runs' \in Seq(Run)
          /\ runs'[Len(runs) + 1] = [pool |-> pending.pool, mode |-> "SHADOW",
                                     size |-> pending.size, live |-> TRUE,
                                     card |-> pending.nonce]
      BY <2>1, <3>1, <3>2, AddPoolType
    <3> QED BY <3>2, <3>3, LenProperties
  <2>3. Len(runs) + 1 \in DOMAIN runs' \ {0}
    BY <2>2, LenProperties
  <2>4. SlotTaken(pending.pool, 0)'
    BY <2>2, <2>3 DEF SlotTaken
  <2> QED BY <1>1, <2>1, <2>4 DEF SpentCard
<1>6. CASE Moves
  <2>0. PICK ref : ref = pending.ref
    OBVIOUS
  <2>1. CASE ~Prompted
    <3>1. UNCHANGED pending /\ Counted(0)
      BY <1>6, <2>1 DEF Moves, Prompted
    <3>2. pending.kind \in Confirming
          => cards'[pending.nonce].acted = cards[pending.nonce].acted
      BY <3>1, ArmedCounted
    <3>3. CASE "db" \in env
      <4>1. "ops" \notin env
        BY <3>3 DEF Alone
      <4>2. /\ Resolve(ref)' = Resolve(ref)
            /\ \A i \in DOMAIN runs : runs'[i].mode = "STOPPED" <=> runs[i].mode = "STOPPED"
            /\ SlotTaken(pending.pool, 0) => SlotTaken(pending.pool, 0)'
        BY <1>6, <2>1, <4>1, MovedRow, KeepsMeaning DEF Moves, BotInv
      <4>3. Resolve(pending.ref)' = Resolve(ref)' /\ Resolve(ref) \subseteq DOMAIN runs
        BY <2>0, <3>1, ResolveKnown DEF Resolve, PickOne, ByAddress, ByLabel, Active
      <4> QED BY <1>1, <2>0, <3>1, <3>2, <4>2, <4>3 DEF ActInv, SpentCard, Confirming
    <3>4. CASE "db" \notin env
      BY <3>1, <3>2, <3>4 DEF ActInv, SpentCard, Confirming
    <3> QED BY <3>3, <3>4
  <2>2. CASE Prompted
    <3> SUFFICES ASSUME "db" \in env, UNCHANGED pending
                 PROVE  SpentCard'
      BY <1>2, <1>6, <2>2 DEF Moves, Answered
    <3>1. /\ pending.kind = "remove-confirm"
          /\ move.row \in Resolve(ref)
          /\ runs[move.row].mode # "STOPPED"
          /\ SetPoolMode(move.row, "STOPPED")
      BY <1>6, <2>0, <2>2, MovedRow DEF Alone, Moves
    <3>2. \A i \in Resolve(ref)' : runs'[i].mode = "STOPPED"
      BY <3>1, StopsMeant DEF BotInv
    <3>3. Resolve(pending.ref)' = Resolve(ref)'
      BY <2>0 DEF Resolve, PickOne, ByAddress, ByLabel, Active
    <3> QED BY <1>1, <3>1, <3>2, <3>3 DEF SpentCard
  <2> QED BY <2>1, <2>2
<1>7. CASE Elsewhere
  BY <1>1, <1>7 DEF Elsewhere, Alone, ActInv, SpentCard
<1>8. Rests => Disarmed \/ (UNCHANGED <<pending, runs>> /\ Counted(0))
  BY DEF Rests
<1>9. Starts => UNCHANGED <<pending, runs>> /\ Counted(0)
  BY CountedCards DEF Starts, BotInv, SlotInv, TypeOK
<1> QED BY <1>2, <1>3, <1>4, <1>5, <1>6, <1>7, <1>8, <1>9, ActOutline DEF BotInv

LEMMA AskedStep ==
  ASSUME BotInv, ActInv, [Next]_vars
  PROVE  AskedMeans'
<1>1. UNCHANGED env /\ (ops # NoMove => "ops" \in env)
  BY MoveSteps DEF BotInv, SlotInv, ReadIsFresh
<1>2. CASE Disarmed
  BY <1>2 DEF Disarmed, Confirming, AskedMeans
<1>3. CASE UNCHANGED <<pending, runs>> /\ Counted(0)
  <2>1. pending.kind \in Confirming
        => /\ cards'[pending.nonce].acted = cards[pending.nonce].acted
           /\ cards'[pending.nonce].asked = cards[pending.nonce].asked
    BY <1>3, ArmedCounted
  <2>2. Resolve(pending.ref)' = Resolve(pending.ref)
    BY <1>3 DEF Resolve, PickOne, ByAddress, ByLabel, Active
  <2> QED BY <1>1, <1>3, <2>1, <2>2 DEF ActInv, AskedMeans, Confirming
<1>4. CASE Arms
  <2> SUFFICES ASSUME pending'.kind = "remove-confirm", cards'[pending'.nonce].asked # 0
               PROVE  Resolve(pending.ref)' = {cards'[pending'.nonce].asked}
    BY DEF AskedMeans
  <2>1. PICK ref : ref = pending'.ref
    OBVIOUS
  <2>2. /\ Resolve(ref) # {}
        /\ cards'[pending'.nonce].asked = CHOOSE i \in Resolve(ref) : TRUE
    BY <1>4, <2>1 DEF Arms
  <2>3. Resolve(ref) = {cards'[pending'.nonce].asked}
    <3>1. PICK i \in Resolve(ref) : i = cards'[pending'.nonce].asked
      BY <2>2
    <3>2. Resolve(ref) = {i}
      BY MeansOne DEF BotInv
    <3> QED BY <3>1, <3>2
  <2>4. Resolve(pending.ref)' = Resolve(ref)
    <3>1. UNCHANGED runs
      BY <1>4 DEF Arms
    <3> QED BY <2>1, <3>1 DEF Resolve, PickOne, ByAddress, ByLabel, Active
  <2> QED BY <2>3, <2>4
<1>5. CASE Adds
  BY <1>2, <1>5 DEF Adds, Answered, AskedMeans
<1>6. CASE Moves
  <2>1. CASE ~Prompted
    <3> SUFFICES ASSUME "ops" \notin env
                 PROVE  AskedMeans'
      BY <1>1 DEF AskedMeans
    <3>0. PICK ref : ref = pending.ref
      OBVIOUS
    <3>1. UNCHANGED pending /\ Counted(0)
      BY <1>6, <2>1 DEF Moves, Prompted
    <3>2. pending.kind \in Confirming
          => /\ cards'[pending.nonce].acted = cards[pending.nonce].acted
             /\ cards'[pending.nonce].asked = cards[pending.nonce].asked
      BY <3>1, ArmedCounted
    <3>3. Resolve(ref)' = Resolve(ref)
      BY <1>6, <2>1, MovedRow, KeepsMeaning DEF Moves, BotInv
    <3>4. Resolve(pending.ref)' = Resolve(ref)'
      BY <3>0, <3>1 DEF Resolve, PickOne, ByAddress, ByLabel, Active
    <3> QED BY <1>1, <3>0, <3>1, <3>2, <3>3, <3>4 DEF ActInv, AskedMeans, Confirming
  <2>2. CASE Prompted
    <3> SUFFICES ASSUME UNCHANGED pending
                 PROVE  AskedMeans'
      BY <1>2, <1>6, <2>2 DEF Moves, Answered
    <3>1. /\ pending.kind = "remove-confirm" /\ pending.nonce = move.by
          /\ cards[move.by].acted = 0
          /\ Counted(move.by)
      BY <1>6, <2>2, MovedRow DEF Moves
    <3>2. move.by \in DOMAIN cards
      BY <3>1 DEF ActInv, ArmedCard, Confirming
    <3>3. cards'[pending'.nonce].acted = 1
      BY <3>1, <3>2 DEF Counted
    <3> QED BY <3>3 DEF AskedMeans
  <2> QED BY <2>1, <2>2
<1>7. CASE Elsewhere
  BY <1>1, <1>7 DEF Elsewhere, AskedMeans
<1>8. Rests => Disarmed \/ (UNCHANGED <<pending, runs>> /\ Counted(0))
  BY DEF Rests
<1>9. Starts => UNCHANGED <<pending, runs>> /\ Counted(0)
  BY CountedCards DEF Starts, BotInv, SlotInv, TypeOK
<1> QED BY <1>2, <1>3, <1>4, <1>5, <1>6, <1>7, <1>8, <1>9, ActOutline DEF BotInv

(* What the cards count on, where no other caller moves pools while        *)
(* answers get lost.                                                       *)
LEMMA AloneActs == Spec => [](BotInv /\ (Alone => ActInv))
<1>1. Init => BotInv /\ (Alone => ActInv)
  BY SlotInit, FreshInit, ShownInit, ActInit DEF BotInv
<1>2. BotInv /\ (Alone => ActInv) /\ [Next]_vars => BotInv' /\ (Alone => ActInv)'
  <2> SUFFICES ASSUME BotInv, Alone => ActInv, [Next]_vars
               PROVE  BotInv' /\ (Alone => ActInv)'
    OBVIOUS
  <2>1. BotInv'
    BY SlotStep, FreshStep, ShownStep DEF BotInv
  <2>2. Alone' => Alone
    BY MoveSteps DEF Alone, BotInv, SlotInv
  <2>3. Alone => ActInv'
    BY OnceActStep, ArmedStep, MoveOfCardStep, SpentStep, AskedStep DEF ActInv
  <2> QED BY <2>1, <2>2, <2>3
<1> QED BY <1>1, <1>2, PTL DEF Spec

(* A card changes the ledger once, however often it is tapped, delivered   *)
(* again or tapped again after an answer that was lost, for any updates    *)
(* and crashes.  Where answers of the database get lost no other caller    *)
(* moves pools.                                                            *)
THEOREM CardsActAtMostOnce ==
  ASSUME \A s \in Scenarios : ~({"db", "ops"} \subseteq s)
  PROVE  Spec => []CardsActOnce
<1>1. BotInv /\ (Alone => ActInv) => CardsActOnce
  BY DEF BotInv, SlotInv, TypeOK, Alone, ActInv
<1> QED BY <1>1, AloneActs, PTL

(* With the bot as the only caller, a removal stops the run its card asked *)
(* about, which was not stopped, although the argument is resolved again   *)
(* at the tap and pools are paused and resumed in between.                 *)
THEOREM RemovalsAreAsAsked == Spec => RemovesAsAsked
<1> DEFINE AsAsked ==
      \A c \in DOMAIN cards :
        "ops" \notin env /\ cards[c].kind = "remove" /\ cards[c].asked # 0
          /\ cards'[c].acted > cards[c].acted
        => runs'[cards[c].asked].mode = "STOPPED" /\ runs[cards[c].asked].mode # "STOPPED"
<1>1. BotInv /\ (Alone => ActInv) /\ [Next]_vars => AsAsked
  <2> SUFFICES ASSUME BotInv, Alone => ActInv, [Next]_vars, NEW c \in DOMAIN cards,
                      "ops" \notin env, cards[c].kind = "remove", cards[c].asked # 0,
                      cards'[c].acted > cards[c].acted
               PROVE  /\ runs'[cards[c].asked].mode = "STOPPED"
                      /\ runs[cards[c].asked].mode # "STOPPED"
    OBVIOUS
  <2>0. ActInv /\ cards[c].acted \in Nat /\ c # 0
    <3>1. cards \in Seq(Card) /\ DOMAIN cards = 1..Len(cards)
      BY LenProperties DEF BotInv, SlotInv, TypeOK
    <3>2. cards[c] \in Card
      BY <3>1, ElementOfSeq
    <3> QED BY <3>1, <3>2 DEF Alone, Card
  <2>1. ~Counted(0)
    BY <2>0 DEF Counted
  <2>2. ~Starts /\ ~Elsewhere
    BY <2>1, CountedCards DEF Starts, Elsewhere, BotInv, SlotInv, TypeOK
  <2>3. ~Adds
    BY <2>0 DEF Adds, Counted
  <2>4. Moves /\ c = move.by
    BY <2>0, <2>1, <2>2, <2>3, ActOutline DEF Rests, Arms, Moves, Counted, BotInv
  <2>5. PICK ref : ref = pending.ref
    OBVIOUS
  <2>6. /\ move.row \in Resolve(ref)
        /\ runs[move.row].mode # "STOPPED"
        /\ SetPoolMode(move.row, "STOPPED")
        /\ pending.kind = "remove-confirm" /\ pending.nonce = c
        /\ cards[c].acted = 0
    BY <2>0, <2>4, <2>5, MovedRow DEF Moves, Prompted
  <2>7. runs'[move.row].mode = "STOPPED"
    BY <2>6, StopsMeant DEF BotInv
  <2>8. Resolve(ref) = {cards[c].asked}
    BY <2>0, <2>5, <2>6 DEF ActInv, AskedMeans
  <2> QED BY <2>6, <2>7, <2>8
<1> QED BY <1>1, AloneActs, PTL DEF Spec, RemovesAsAsked

-----------------------------------------------------------------------------
(* Handoff tokens *)

TokenFacts == INSTANCE HandoffProofs WITH Scenarios <- TokenScenarios, env <- tokenEnv

LEMMA TokenFactsHold == TokenFacts!HandoffAssumption
<1>1. Tokens!HandoffAssumption
  BY ServiceAssumption
<1> QED
  BY <1>1 DEF TokenFacts!HandoffAssumption, Tokens!HandoffAssumption

LEMMA TokensRun ==
  ServiceSpec => TokenFacts!Spec
<1>1. ServiceInit => TokenFacts!Init
  BY DEF TokenFacts!Init, Tokens!Init, TokenFacts!Idle, Tokens!Idle, ServiceInit
<1>2. Tokens!Next => TokenFacts!Next
  BY DEF TokenFacts!Next, Tokens!Next, TokenFacts!IssueHandoff, Tokens!IssueHandoff,
         TokenFacts!Expire, Tokens!Expire, TokenFacts!Suspend, Tokens!Suspend,
         TokenFacts!FindToken, Tokens!FindToken, TokenFacts!DeleteExpired, Tokens!DeleteExpired,
         TokenFacts!PreCheck, Tokens!PreCheck, TokenFacts!Claim, Tokens!Claim, TokenFacts!Bind,
         Tokens!Bind, TokenFacts!RestoreToken, Tokens!RestoreToken, TokenFacts!QueryFails,
         Tokens!QueryFails, TokenFacts!AnswerLost, Tokens!AnswerLost, TokenFacts!Crash,
         Tokens!Crash, TokenFacts!At, Tokens!At, TokenFacts!Presented, Tokens!Presented,
         TokenFacts!Return, Tokens!Return, TokenFacts!LinkedElsewhere, Tokens!LinkedElsewhere,
         TokenFacts!MayEnter, Tokens!MayEnter, TokenFacts!Won, Tokens!Won, TokenFacts!GoTo,
         Tokens!GoTo, TokenFacts!Upsert, Tokens!Upsert, TokenFacts!Restore, Tokens!Restore,
         TokenFacts!Idle, Tokens!Idle, TokenFacts!AccountOf, Tokens!AccountOf
<1>3. [ServiceNext]_serviceVars => [TokenFacts!Next]_(TokenFacts!vars)
  BY <1>2 DEF ServiceNext, serviceVars, tokenVars, TokenFacts!vars
<1> QED BY <1>1, <1>3, PTL DEF ServiceSpec, TokenFacts!Spec

(* A handoff token of the service lets one chat in, once, however many     *)
(* callers redeem it, fail and try again (redeemHandoff, handoff.ts).      *)
THEOREM ServiceBindsOnce == ServiceSpec => []TokenBindsOnce
<1>1. TokenFacts!TokenBindsOnce => TokenBindsOnce
  BY DEF TokenBindsOnce, TokenFacts!TokenBindsOnce, Tokens!TokenBindsOnce
<1> QED BY <1>1, TokensRun, TokenFactsHold, TokenFacts!OneChatPerToken, PTL

(* A token of the service that let nobody in stays usable, unless its      *)
(* upsert and then its restore failed (redeemHandoff, handoff.ts).         *)
THEOREM ServiceKeepsTokens == ServiceSpec => []TokensSurvive
<1>1. TokenFacts!TokensSurvive => TokensSurvive
  BY DEF TokensSurvive, TokenFacts!TokensSurvive, Tokens!TokensSurvive,
         TokenFacts!Presented, Tokens!Presented
<1> QED BY <1>1, TokensRun, TokenFactsHold, TokenFacts!FailedCallsKeepTokens, PTL

(* No call of the service links a chat to an account that was suspended    *)
(* before the call began (redeemHandoff, handoff.ts).                      *)
THEOREM ServiceRefusesSuspended == ServiceSpec => SuspendedStaysOut
<1> DEFINE Allowed == \A a \in Account :
             tenants'[a].chat # tenants[a].chat
               => \E r \in Redeemer :
                    Tokens!At(r, "bind") /\ Tokens!AccountOf(r) = a /\ ~redeem[r].banned
           Facts == \A a \in Account :
             tenants'[a].chat # tenants[a].chat
               => \E r \in Redeemer :
                    TokenFacts!At(r, "bind") /\ TokenFacts!AccountOf(r) = a /\ ~redeem[r].banned
<1>1. [Facts]_(TokenFacts!vars) => [Allowed]_(Tokens!vars)
  BY DEF TokenFacts!At, Tokens!At, TokenFacts!AccountOf, Tokens!AccountOf,
         TokenFacts!Presented, Tokens!Presented, TokenFacts!vars, Tokens!vars
<1> QED
  BY <1>1, TokensRun, TokenFactsHold, TokenFacts!SuspendedAreRefused, PTL
  DEF SuspendedStaysOut, Tokens!SuspendedStaysOut, TokenFacts!SuspendedStaysOut

-----------------------------------------------------------------------------
(* Withdrawals and address changes *)

PayoutFacts == INSTANCE PayoutsProofs WITH Scenarios <- PayoutScenarios, env <- payoutEnv

LEMMA PayoutFactsHold == PayoutFacts!PayoutsAssumption
<1>1. Withdrawing!PayoutsAssumption
  BY ServiceAssumption
<1> QED
  BY <1>1 DEF PayoutFacts!PayoutsAssumption, Withdrawing!PayoutsAssumption

LEMMA WithdrawingRuns ==
  ServiceSpec => PayoutFacts!Spec
<1>1. ServiceInit => PayoutFacts!Init
  BY DEF PayoutFacts!Init, Withdrawing!Init, PayoutFacts!Idle, Withdrawing!Idle, ServiceInit
<1>2. Withdrawing!Next => PayoutFacts!Next
  BY DEF PayoutFacts!Next, Withdrawing!Next, PayoutFacts!Tick, Withdrawing!Tick,
         PayoutFacts!ConfirmAddressChange, Withdrawing!ConfirmAddressChange,
         PayoutFacts!Process, Withdrawing!Process, PayoutFacts!RequestAddressChange,
         Withdrawing!RequestAddressChange, PayoutFacts!CreateChange, Withdrawing!CreateChange,
         PayoutFacts!ReadChange, Withdrawing!ReadChange, PayoutFacts!CommitChange,
         Withdrawing!CommitChange, PayoutFacts!Withdraw, Withdrawing!Withdraw,
         PayoutFacts!FindOpen, Withdrawing!FindOpen, PayoutFacts!CreateWithdrawal,
         Withdrawing!CreateWithdrawal, PayoutFacts!Throw, Withdrawing!Throw,
         PayoutFacts!MayStart, Withdrawing!MayStart, PayoutFacts!At, Withdrawing!At,
         PayoutFacts!Return, Withdrawing!Return, PayoutFacts!MayApply, Withdrawing!MayApply,
         PayoutFacts!Open, Withdrawing!Open, PayoutFacts!Idle, Withdrawing!Idle,
         PayoutFacts!OpenStatuses, Withdrawing!OpenStatuses
<1>3. [ServiceNext]_serviceVars => [PayoutFacts!Next]_(PayoutFacts!vars)
  BY <1>2 DEF ServiceNext, serviceVars, payoutVars, PayoutFacts!vars
<1> QED BY <1>1, <1>3, PTL DEF ServiceSpec, PayoutFacts!Spec

(* The service pays out to another address only after the delay, to the    *)
(* one that was asked for and confirmed (applyAddressChange, payouts.ts).  *)
THEOREM ServiceServesDelays == ServiceSpec => DelayIsServed
<1> DEFINE Served == wallet' # wallet =>
             \E i \in DOMAIN changes :
               /\ changes[i].to = wallet'
               /\ changes[i].confirmed
               /\ now >= changes[i].asked + Delay
<1>1. [Served]_(PayoutFacts!vars) => [Served]_(Withdrawing!vars)
  BY DEF Withdrawing!vars, PayoutFacts!vars
<1> QED
  BY <1>1, WithdrawingRuns, PayoutFactsHold, PayoutFacts!DelaysAreServed, PTL
  DEF DelayIsServed, Withdrawing!DelayIsServed, PayoutFacts!DelayIsServed

(* Asking the service again for a withdrawal opens no second one, as long  *)
(* as callers do not overlap (requestFullWithdrawal, payouts.ts).          *)
THEOREM ServiceOpensOneWithdrawal == ServiceSpec => []OneOpenWithdrawal
<1>1. PayoutFacts!OneOpenWithdrawal => OneOpenWithdrawal
  BY DEF OneOpenWithdrawal, PayoutFacts!OneOpenWithdrawal, Withdrawing!OneOpenWithdrawal
<1> QED BY <1>1, WithdrawingRuns, PayoutFactsHold, PayoutFacts!WithdrawalsAreIdempotent, PTL

-----------------------------------------------------------------------------
(* Deposits *)

DepositFacts == INSTANCE DepositsProofs WITH Effect <- Transactions, Limit <- MaxListed

LEMMA DepositFactsHold == DepositFacts!DepositsAssumption
<1>1. Arrivals!DepositsAssumption
  BY ServiceAssumption
<1> QED
  BY <1>1 DEF DepositFacts!DepositsAssumption, Arrivals!DepositsAssumption, DepositFacts!Tx,
    Arrivals!Tx

LEMMA ArrivalsRun ==
  ServiceSpec => DepositFacts!Spec
<1>1. ServiceInit => DepositFacts!Init
  BY DEF DepositFacts!Init, Arrivals!Init, DepositFacts!NoPoll, Arrivals!NoPoll, ServiceInit
<1>2. Arrivals!Next => DepositFacts!Next
  <2>1. \A w : DepositFacts!Signatures(w) = Arrivals!Signatures(w)
    BY DEF DepositFacts!Signatures, Arrivals!Signatures, DepositFacts!Cardinality,
         Arrivals!Cardinality
  <2>2. \A w, t : DepositFacts!ExtractDepositEvents(w, t) = Arrivals!ExtractDepositEvents(w, t)
    BY DEF DepositFacts!ExtractDepositEvents, Arrivals!ExtractDepositEvents,
         DepositFacts!SolDeposits, Arrivals!SolDeposits, DepositFacts!TokenDeposits,
         Arrivals!TokenDeposits, DepositFacts!Amount, Arrivals!Amount,
         DepositFacts!Increases, Arrivals!Increases, DepositFacts!TokenIndex,
         Arrivals!TokenIndex
  <2>3. \A p, w : Arrivals!BeginPoll(p, w) => DepositFacts!BeginPoll(p, w)
    BY <2>1 DEF DepositFacts!BeginPoll, Arrivals!BeginPoll, DepositFacts!NoPoll,
         Arrivals!NoPoll
  <2>4. \A p : Arrivals!ReadTransaction(p) => DepositFacts!ReadTransaction(p)
    BY <2>2 DEF DepositFacts!ReadTransaction, Arrivals!ReadTransaction
  <2>5. \A p : Arrivals!AppendEvent(p) => DepositFacts!AppendEvent(p)
    BY DEF DepositFacts!AppendEvent, Arrivals!AppendEvent, DepositFacts!IsDuplicate,
         Arrivals!IsDuplicate, DepositFacts!Inserted, Arrivals!Inserted
  <2>6. \A p : Arrivals!EndPoll(p) => DepositFacts!EndPoll(p)
    BY DEF DepositFacts!EndPoll, Arrivals!EndPoll, DepositFacts!NoPoll, Arrivals!NoPoll
  <2>7. \A p : Arrivals!AbandonPoll(p) => DepositFacts!AbandonPoll(p)
    BY DEF DepositFacts!AbandonPoll, Arrivals!AbandonPoll, DepositFacts!NoPoll,
         Arrivals!NoPoll
  <2>8. Arrivals!Confirm => DepositFacts!Confirm
    BY DEF DepositFacts!Confirm, Arrivals!Confirm, DepositFacts!Tx, Arrivals!Tx
  <2> QED BY <2>3, <2>4, <2>5, <2>6, <2>7, <2>8 DEF DepositFacts!Next, Arrivals!Next
<1>3. [ServiceNext]_serviceVars => [DepositFacts!Next]_(DepositFacts!vars)
  BY <1>2 DEF ServiceNext, serviceVars, depositVars, DepositFacts!vars
<1> QED BY <1>1, <1>3, PTL DEF ServiceSpec, DepositFacts!Spec

(* What the polls of the service have read is on record, while no          *)
(* transaction pays SOL to two of its wallets (poll and append of          *)
(* poller.ts and store.ts).                                                *)
THEOREM ServiceRecordsDeposits ==
  ASSUME DepositFacts!PaysOneWallet
  PROVE  ServiceSpec => []DepositsRecorded
<1>1. DepositFacts!DepositsRecorded => DepositsRecorded
  BY DEF DepositsRecorded, DepositFacts!DepositsRecorded, Arrivals!DepositsRecorded,
         DepositFacts!ExtractDepositEvents, Arrivals!ExtractDepositEvents,
         DepositFacts!SolDeposits, Arrivals!SolDeposits,
         DepositFacts!TokenDeposits, Arrivals!TokenDeposits,
         DepositFacts!Amount, Arrivals!Amount, DepositFacts!Increases, Arrivals!Increases,
         DepositFacts!TokenIndex, Arrivals!TokenIndex
<1> QED BY <1>1, ArrivalsRun, DepositFactsHold, DepositFacts!DepositsAreRecorded, PTL

(* The polls of the service announce no deposit twice (append, store.ts).  *)
THEOREM ServiceCountsOnce == ServiceSpec => []CountedOnce
<1>1. DepositFacts!CountedOnce => CountedOnce
  BY DEF CountedOnce, DepositFacts!CountedOnce, Arrivals!CountedOnce,
         DepositFacts!Cardinality, Arrivals!Cardinality
<1> QED BY <1>1, ArrivalsRun, DepositFactsHold, DepositFacts!DepositsAreCountedOnce, PTL

-----------------------------------------------------------------------------
(* Launches *)

LaunchFacts == INSTANCE LaunchProofs WITH
  Price <- LaunchPrice, Amounts <- LaunchAmounts, Proxy <- None

LEMMA LaunchFactsHold == LaunchFacts!LaunchAssumption
<1>1. Launches!LaunchAssumption
  BY ServiceAssumption
<1> QED
  BY <1>1 DEF LaunchFacts!LaunchAssumption, Launches!LaunchAssumption,
    LaunchFacts!RangeAssumption, Launches!RangeAssumption, LaunchFacts!Preset, Launches!Preset,
    LaunchFacts!KnownRent, Launches!KnownRent, LaunchFacts!ClassicRange, Launches!ClassicRange,
    LaunchFacts!CreationRent, Launches!CreationRent, LaunchFacts!OpeningRent,
    Launches!OpeningRent, LaunchFacts!BinArrays, Launches!BinArrays, LaunchFacts!BinArrayIndex,
    Launches!BinArrayIndex

(* Every operation of a launch is the one that was reasoned about.         *)
LEMMA LaunchesStep == Launches!Next => LaunchFacts!Next
<1>1. \A amount : LaunchFacts!ActiveBin(amount) = Launches!ActiveBin(amount)
  BY DEF LaunchFacts!ActiveBin, Launches!ActiveBin, LaunchFacts!Max, Launches!Max,
         LaunchFacts!Min, Launches!Min, LaunchFacts!BinsBelow, Launches!BinsBelow,
         LaunchFacts!BinsAbove, Launches!BinsAbove, LaunchFacts!Deviation, Launches!Deviation
<1>2. \A amount, width :
        /\ LaunchFacts!LaunchPlan(amount, width) = Launches!LaunchPlan(amount, width)
        /\ LaunchFacts!Plannable(amount, width) <=> Launches!Plannable(amount, width)
  BY <1>1 DEF LaunchFacts!LaunchPlan, Launches!LaunchPlan, LaunchFacts!ClassicRange,
       Launches!ClassicRange, LaunchFacts!KnownRent, Launches!KnownRent,
       LaunchFacts!CreationRent, Launches!CreationRent, LaunchFacts!OpeningRent,
       Launches!OpeningRent, LaunchFacts!BinArrays, Launches!BinArrays,
       LaunchFacts!BinArrayIndex, Launches!BinArrayIndex, LaunchFacts!FundedRange,
       Launches!FundedRange, LaunchFacts!Value, Launches!Value, LaunchFacts!ReadyFor,
       Launches!ReadyFor, LaunchFacts!Plannable, Launches!Plannable, LaunchFacts!Priced,
       Launches!Priced, LaunchFacts!BinsBelow, Launches!BinsBelow, LaunchFacts!BinsAbove,
       Launches!BinsAbove
<1>3. \A amount, width, typed, preset :
        Launches!Draft(amount, width, typed, preset)
          => LaunchFacts!Draft(amount, width, typed, preset)
  BY <1>2 DEF LaunchFacts!Draft, Launches!Draft, LaunchFacts!DraftOf, Launches!DraftOf,
       LaunchFacts!SameAmount, Launches!SameAmount, LaunchFacts!PresetMatches,
       Launches!PresetMatches, LaunchFacts!Kinds, Launches!Kinds
<1>4. \A kind, d :
        /\ LaunchFacts!CostOf(kind, d) = Launches!CostOf(kind, d)
        /\ LaunchFacts!Occupied(kind, d) <=> Launches!Occupied(kind, d)
  BY DEF LaunchFacts!CostOf, Launches!CostOf, LaunchFacts!OpeningCost, Launches!OpeningCost,
         LaunchFacts!CreationRent, Launches!CreationRent, LaunchFacts!OpeningRent,
         Launches!OpeningRent, LaunchFacts!BinArrays, Launches!BinArrays,
         LaunchFacts!BinArrayIndex, Launches!BinArrayIndex, LaunchFacts!Occupied,
         Launches!Occupied, LaunchFacts!AtAddress, Launches!AtAddress,
         LaunchFacts!ClassicRange, Launches!ClassicRange, LaunchFacts!NoPool, Launches!NoPool
<1>5. /\ LaunchFacts!ProjectSpent = Launches!ProjectSpent
      /\ \A spent, notional :
           LaunchFacts!WithinCaps(spent, notional) <=> Launches!WithinCaps(spent, notional)
  BY DEF LaunchFacts!WithinCaps, Launches!WithinCaps, LaunchFacts!ProjectSpent,
         Launches!ProjectSpent
<1>6. \A kind :
        /\ LaunchFacts!Builds(kind) <=> Launches!Builds(kind)
        /\ LaunchFacts!MaySubmit(kind) <=> Launches!MaySubmit(kind)
        /\ LaunchFacts!NotionalOf(kind) = Launches!NotionalOf(kind)
        /\ LaunchFacts!SpentBeside(kind) = Launches!SpentBeside(kind)
        /\ LaunchFacts!Simulates(kind) <=> Launches!Simulates(kind)
        /\ LaunchFacts!Applied(kind) <=> Launches!Applied(kind)
  BY <1>4, <1>5 DEF LaunchFacts!Builds, Launches!Builds, LaunchFacts!KeepsReserve,
       Launches!KeepsReserve, LaunchFacts!InsideAccount, Launches!InsideAccount,
       LaunchFacts!Within, Launches!Within, LaunchFacts!ClassicRange, Launches!ClassicRange,
       LaunchFacts!MaySubmit, Launches!MaySubmit, LaunchFacts!NoDraft, Launches!NoDraft,
       LaunchFacts!NotionalOf, Launches!NotionalOf, LaunchFacts!SpentBeside,
       Launches!SpentBeside, LaunchFacts!Simulates, Launches!Simulates, LaunchFacts!Applied,
       Launches!Applied, LaunchFacts!IsRead, Launches!IsRead
<1>7. \A kind, status : LaunchFacts!Records(kind, status) <=> Launches!Records(kind, status)
  BY <1>6 DEF LaunchFacts!Records, Launches!Records
<1>8. \A kind :
        /\ Launches!SubmitFound(kind) => LaunchFacts!SubmitFound(kind)
        /\ Launches!SubmitRefused(kind) => LaunchFacts!SubmitRefused(kind)
        /\ Launches!SubmitSent(kind) => LaunchFacts!SubmitSent(kind)
  BY <1>5, <1>6, <1>7
  DEF LaunchFacts!SubmitFound, Launches!SubmitFound, LaunchFacts!SubmitRefused,
      Launches!SubmitRefused, LaunchFacts!SubmitSent, Launches!SubmitSent,
      LaunchFacts!chainVars, Launches!chainVars
<1>9. \A kind :
        /\ Launches!Reconciles(kind) => LaunchFacts!Reconciles(kind)
        /\ Launches!GetsStuck(kind) => LaunchFacts!GetsStuck(kind)
        /\ Launches!Resends(kind) => LaunchFacts!Resends(kind)
        /\ Launches!Throws(kind) => LaunchFacts!Throws(kind)
  BY <1>4, <1>6, <1>7
  DEF LaunchFacts!Reconciles, Launches!Reconciles, LaunchFacts!GetsStuck, Launches!GetsStuck,
      LaunchFacts!Resends, Launches!Resends, LaunchFacts!Throws, Launches!Throws,
      LaunchFacts!chainVars, Launches!chainVars
<1>10. \A tx : /\ Launches!Lands(tx) => LaunchFacts!Lands(tx)
               /\ Launches!IsLost(tx) => LaunchFacts!IsLost(tx)
  BY <1>4 DEF LaunchFacts!Lands, Launches!Lands, LaunchFacts!IsLost, Launches!IsLost,
       LaunchFacts!PoolOf, Launches!PoolOf, LaunchFacts!PositionOf, Launches!PositionOf,
       LaunchFacts!ClassicRange, Launches!ClassicRange
<1>11. \A address, like, bin :
         /\ Launches!PoolAppears(address, like, bin) => LaunchFacts!PoolAppears(address, like, bin)
         /\ Launches!PoolMoves(address, bin) => LaunchFacts!PoolMoves(address, bin)
  BY DEF LaunchFacts!PoolAppears, Launches!PoolAppears, LaunchFacts!PoolMoves,
         Launches!PoolMoves, LaunchFacts!Disturbs, Launches!Disturbs, LaunchFacts!Foreign,
         Launches!Foreign, LaunchFacts!NoPool, Launches!NoPool, LaunchFacts!NoDraft,
         Launches!NoDraft
<1>12. \A notional : /\ Launches!ProjectSpends(notional) => LaunchFacts!ProjectSpends(notional)
                     /\ Launches!OthersSpend(notional) => LaunchFacts!OthersSpend(notional)
  BY <1>5 DEF LaunchFacts!ProjectSpends, Launches!ProjectSpends, LaunchFacts!OthersSpend,
       Launches!OthersSpend, LaunchFacts!Foreign, Launches!Foreign, LaunchFacts!chainVars,
       Launches!chainVars
<1>13. Launches!WindowPasses => LaunchFacts!WindowPasses
  BY DEF LaunchFacts!WindowPasses, Launches!WindowPasses, LaunchFacts!Foreign,
         Launches!Foreign, LaunchFacts!NothingRecorded, Launches!NothingRecorded,
         LaunchFacts!chainVars, Launches!chainVars
<1> QED
  BY <1>3, <1>8, <1>9, <1>10, <1>11, <1>12, <1>13
  DEF LaunchFacts!Next, Launches!Next, LaunchFacts!Kinds, Launches!Kinds,
      LaunchFacts!Addresses, Launches!Addresses

LEMMA LaunchesRun ==
  ServiceSpec => []~(part = "launch") \/ ([](part = "launch") /\ LaunchFacts!Spec)
<1>1. ServiceInit /\ part = "launch" => LaunchFacts!Init
  BY DEF LaunchFacts!Init, Launches!Init, LaunchFacts!NoDraft, Launches!NoDraft,
         LaunchFacts!NoPool, Launches!NoPool, LaunchFacts!Kinds, Launches!Kinds,
         LaunchFacts!Addresses, Launches!Addresses, LaunchFacts!NothingRecorded,
         Launches!NothingRecorded, ServiceInit
<1>2. [ServiceNext]_serviceVars => [LaunchFacts!Next]_(LaunchFacts!vars)
  BY LaunchesStep DEF ServiceNext, serviceVars, launchVars, LaunchFacts!vars,
    LaunchFacts!requestVars, LaunchFacts!chainVars
<1>3. [ServiceNext]_serviceVars /\ part = "launch" => (part = "launch")'
  BY DEF ServiceNext, serviceVars
<1>4. [ServiceNext]_serviceVars /\ ~(part = "launch") => ~(part = "launch")'
  BY DEF ServiceNext, serviceVars
<1> QED BY <1>1, <1>2, <1>3, <1>4, PTL DEF ServiceSpec, LaunchFacts!Spec

(* A launch the service plans within its caps trips none of them, also     *)
(* when its requests are submitted again, as long as nothing else is spent *)
(* (assessLaunchExecutionCaps, checkCaps).                                 *)
THEOREM ServiceForetellsCaps == ServiceSpec => []CapsForetell
<1>1. LaunchFacts!CapsForetell => CapsForetell
  BY DEF CapsForetell, LaunchFacts!CapsForetell, Launches!CapsForetell,
         LaunchFacts!OnlyTheDraft, Launches!OnlyTheDraft
<1>2. ~(part = "launch") => CapsForetell
  BY DEF CapsForetell
<1> QED BY <1>1, <1>2, LaunchesRun, LaunchFactsHold, LaunchFacts!PlansForetellCaps, PTL

(* Once the position is open, a wallet that covered the minimum the        *)
(* service names still holds the gas reserve, and any other lacks the rent *)
(* at most (launchPlanner.ts, checkReserve).                               *)
THEOREM ServiceKeepsGas == ServiceSpec => []WalletKeepsGas
<1>1. LaunchFacts!WalletKeepsGas => WalletKeepsGas
  BY DEF WalletKeepsGas, LaunchFacts!WalletKeepsGas, Launches!WalletKeepsGas,
         LaunchFacts!Opened, Launches!Opened
<1>2. ~(part = "launch") => WalletKeepsGas
  BY DEF WalletKeepsGas
<1> QED BY <1>1, <1>2, LaunchesRun, LaunchFactsHold, LaunchFacts!MinimumKeepsGas, PTL

(* The position the service has opened has the amounts and the bins the    *)
(* founder last reviewed, in a pool of the step and fee that were          *)
(* reviewed, and, unless others made or moved that pool, at the price that *)
(* was reviewed (draftLaunchExecution, executeLocked, open).               *)
THEOREM ServiceOpensAsReviewed == ServiceSpec => []OpenedAsReviewed
<1>1. LaunchFacts!OpenedAsReviewed => OpenedAsReviewed
  <2>1. \A bin, amount : LaunchFacts!Deviation(bin, amount) = Launches!Deviation(bin, amount)
    BY DEF LaunchFacts!Deviation, Launches!Deviation, LaunchFacts!Max, Launches!Max
  <2> QED
    BY <2>1 DEF OpenedAsReviewed, LaunchFacts!OpenedAsReviewed, Launches!OpenedAsReviewed,
                LaunchFacts!Opened, Launches!Opened, LaunchFacts!Holds, Launches!Holds,
                LaunchFacts!Within, Launches!Within
<1>2. ~(part = "launch") => OpenedAsReviewed
  BY DEF OpenedAsReviewed
<1> QED BY <1>1, <1>2, LaunchesRun, LaunchFactsHold, LaunchFacts!PositionsAreReviewed, PTL

-----------------------------------------------------------------------------
(* Replays *)

ReplayFacts == INSTANCE ReplayProofs WITH
  Price <- ReplayPrice, Root <- ReplayRoot, Rows <- ReplayRows, runs <- replays

LEMMA ReplayFactsHold == ReplayFacts!ReplayAssumption /\ ReplayFacts!StrategyAssumption
<1>1. Reruns!ReplayAssumption /\ Reruns!StrategyAssumption
  BY ServiceAssumption
<1>2. ReplayFacts!StrategyAssumption
  BY <1>1 DEF ReplayFacts!StrategyAssumption, Reruns!StrategyAssumption
<1>3. ReplayFacts!ReplayAssumption
  BY <1>1 DEF ReplayFacts!ReplayAssumption, Reruns!ReplayAssumption, ReplayFacts!Row, Reruns!Row,
    ReplayFacts!Variant, Reruns!Variant, ReplayFacts!Volume, Reruns!Volume,
    ReplayFacts!CostInputs, Reruns!CostInputs, ReplayFacts!Shape, Reruns!Shape,
    ReplayFacts!Policy, Reruns!Policy, ReplayFacts!Half, Reruns!Half
<1> QED BY <1>2, <1>3

(* Every operation of the replays is the one that was reasoned about.      *)
LEMMA RerunsStep == Reruns!Next => ReplayFacts!Next
<1>1. \A regime, time, bin, volume : ReplayFacts!UpdateRegime(regime, time, bin, volume)
       = Reruns!UpdateRegime(regime, time, bin, volume)
  BY DEF ReplayFacts!UpdateRegime, Reruns!UpdateRegime, ReplayFacts!Recent, Reruns!Recent,
         ReplayFacts!LowSince, Reruns!LowSince, ReplayFacts!OneMore, Reruns!OneMore,
         ReplayFacts!Never, Reruns!Never
<1>2. \A benchmarks, active, tvl, fees :
      ReplayFacts!CreditFullRangeFees(benchmarks, active, tvl, fees)
       = Reruns!CreditFullRangeFees(benchmarks, active, tvl, fees)
  BY DEF ReplayFacts!CreditFullRangeFees, Reruns!CreditFullRangeFees, ReplayFacts!Min,
         Reruns!Min, ReplayFacts!FullRangeValue, Reruns!FullRangeValue
<1>3. \A v, benchmarks, row : ReplayFacts!AnchorBenchmarks(v, benchmarks, row)
       = Reruns!AnchorBenchmarks(v, benchmarks, row)
  BY <1>2
    DEF ReplayFacts!AnchorBenchmarks, Reruns!AnchorBenchmarks, ReplayFacts!NoBenchmarks,
        Reruns!NoBenchmarks, ReplayFacts!InitBenchmarks, Reruns!InitBenchmarks
<1>4. \A v, held, regime, time : ReplayFacts!Waits(v, held, regime, time)
       = Reruns!Waits(v, held, regime, time)
  BY DEF ReplayFacts!Waits, Reruns!Waits, ReplayFacts!VolReliable, Reruns!VolReliable,
         ReplayFacts!Created, Reruns!Created
<1>5. \A v, run, benchmarks, row : ReplayFacts!Wait(v, run, benchmarks, row)
       = Reruns!Wait(v, run, benchmarks, row)
  BY DEF ReplayFacts!Wait, Reruns!Wait, ReplayFacts!NoBenchmarks, Reruns!NoBenchmarks,
         ReplayFacts!Marks, Reruns!Marks, ReplayFacts!HodlValue, Reruns!HodlValue,
         ReplayFacts!FullRangeValue, Reruns!FullRangeValue
<1>6. \A held, cost :
      ReplayFacts!Charge(held, cost) = Reruns!Charge(held, cost)
  BY DEF ReplayFacts!Charge, Reruns!Charge
<1>7. \A x : ReplayFacts!Positive(x) = Reruns!Positive(x)
  BY DEF ReplayFacts!Positive, Reruns!Positive, ReplayFacts!Max, Reruns!Max
<1>8. \A held, active, value : ReplayFacts!Undeployed(held, active, value)
       = Reruns!Undeployed(held, active, value)
  BY DEF ReplayFacts!Undeployed, Reruns!Undeployed
<1>9. \A lower, upper, active, budget, shape :
      ReplayFacts!Distribute(lower, upper, active, budget, shape)
       = Reruns!Distribute(lower, upper, active, budget, shape)
  BY DEF ReplayFacts!Distribute, Reruns!Distribute, ReplayFacts!SumFunction,
         Reruns!SumFunction, ReplayFacts!SumFunctionOnSet, Reruns!SumFunctionOnSet,
         ReplayFacts!FoldFunctionOnSet, Reruns!FoldFunctionOnSet, ReplayFacts!MapThenFoldSet,
         Reruns!MapThenFoldSet, ReplayFacts!QuoteWeight, Reruns!QuoteWeight,
         ReplayFacts!BaseWeight, Reruns!BaseWeight, ReplayFacts!Share, Reruns!Share,
         ReplayFacts!ShapeWeight, Reruns!ShapeWeight
<1>10. \A bins : ReplayFacts!Base(bins) = Reruns!Base(bins)
  BY DEF ReplayFacts!Base, Reruns!Base, ReplayFacts!SumFunction, Reruns!SumFunction,
         ReplayFacts!SumFunctionOnSet, Reruns!SumFunctionOnSet, ReplayFacts!FoldFunctionOnSet,
         Reruns!FoldFunctionOnSet, ReplayFacts!MapThenFoldSet, Reruns!MapThenFoldSet
<1>11. \A bins : ReplayFacts!Quote(bins) = Reruns!Quote(bins)
  BY DEF ReplayFacts!Quote, Reruns!Quote, ReplayFacts!SumFunction, Reruns!SumFunction,
         ReplayFacts!SumFunctionOnSet, Reruns!SumFunctionOnSet, ReplayFacts!FoldFunctionOnSet,
         Reruns!FoldFunctionOnSet, ReplayFacts!MapThenFoldSet, Reruns!MapThenFoldSet
<1>12. \A held, active, budget, shape :
      ReplayFacts!Deploy(held, active, budget, shape)
       = Reruns!Deploy(held, active, budget, shape)
  BY ZenonT(30), <1>9, <1>10, <1>11
    DEF ReplayFacts!Deploy, Reruns!Deploy, ReplayFacts!Placed, Reruns!Placed
<1>13. \A value, policy :
      ReplayFacts!Budget(value, policy) = Reruns!Budget(value, policy)
  BY DEF ReplayFacts!Budget, Reruns!Budget
<1>14. \A held, active, value, shape, policy :
      ReplayFacts!Allocate(held, active, value, shape, policy)
       = Reruns!Allocate(held, active, value, shape, policy)
  BY <1>7, <1>8, <1>12, <1>13
    DEF ReplayFacts!Allocate, Reruns!Allocate
<1>15. \A v, held, row, time : ReplayFacts!Opened(v, held, row, time)
       = Reruns!Opened(v, held, row, time)
  BY <1>6, <1>7, <1>14
    DEF ReplayFacts!Opened, Reruns!Opened, ReplayFacts!OpenFunded, Reruns!OpenFunded,
        ReplayFacts!Unfunded, Reruns!Unfunded, ReplayFacts!Half, Reruns!Half,
        ReplayFacts!Never, Reruns!Never
<1>16. \A held, active, liq, fees :
      ReplayFacts!AccrueFunded(held, active, liq, fees)
       = Reruns!AccrueFunded(held, active, liq, fees)
  BY DEF ReplayFacts!AccrueFunded, Reruns!AccrueFunded, ReplayFacts!AccrueFees,
         Reruns!AccrueFees, ReplayFacts!FeesTick, Reruns!FeesTick, ReplayFacts!InRange,
         Reruns!InRange, ReplayFacts!OurLiquidity, Reruns!OurLiquidity
<1>17. \A held, time, active : ReplayFacts!MarkFunded(held, time, active)
       = Reruns!MarkFunded(held, time, active)
  BY DEF ReplayFacts!MarkFunded, Reruns!MarkFunded, ReplayFacts!Placed, Reruns!Placed,
         ReplayFacts!MarkPosition, Reruns!MarkPosition, ReplayFacts!Convert, Reruns!Convert,
         ReplayFacts!Base, Reruns!Base, ReplayFacts!Quote, Reruns!Quote, ReplayFacts!OorSince,
         Reruns!OorSince, ReplayFacts!SumFunction, Reruns!SumFunction,
         ReplayFacts!SumFunctionOnSet, Reruns!SumFunctionOnSet, ReplayFacts!FoldFunctionOnSet,
         Reruns!FoldFunctionOnSet, ReplayFacts!MapThenFoldSet, Reruns!MapThenFoldSet,
         ReplayFacts!InRange, Reruns!InRange, ReplayFacts!Never, Reruns!Never
<1>18. \A run, kind, applied, row, time :
      ReplayFacts!Recorded(run, kind, applied, row, time)
       = Reruns!Recorded(run, kind, applied, row, time)
  BY DEF ReplayFacts!Recorded, Reruns!Recorded, ReplayFacts!Marks, Reruns!Marks,
         ReplayFacts!Nav, Reruns!Nav, ReplayFacts!Happened, Reruns!Happened,
         ReplayFacts!Basket, Reruns!Basket, ReplayFacts!HodlValue, Reruns!HodlValue,
         ReplayFacts!FullRangeValue, Reruns!FullRangeValue, ReplayFacts!Inventory,
         Reruns!Inventory
<1>19. \A kind, inputs : ReplayFacts!EstimateCost(kind, inputs)
       = Reruns!EstimateCost(kind, inputs)
  BY <1>7
    DEF ReplayFacts!EstimateCost, Reruns!EstimateCost, ReplayFacts!SwapCost, Reruns!SwapCost,
        ReplayFacts!NoQuote, Reruns!NoQuote
<1>20. \A held, active :
      ReplayFacts!Nav(held, active) = Reruns!Nav(held, active)
  BY DEF ReplayFacts!Nav, Reruns!Nav, ReplayFacts!Inventory, Reruns!Inventory
<1>21. \A held, active, cost : ReplayFacts!Remainder(held, active, cost)
       = Reruns!Remainder(held, active, cost)
  BY <1>7, <1>20
    DEF ReplayFacts!Remainder, Reruns!Remainder
<1>22. \A held, active, cost, shape, policy :
      ReplayFacts!CompoundFunded(held, active, cost, shape, policy)
       = Reruns!CompoundFunded(held, active, cost, shape, policy)
  BY <1>6, <1>14, <1>21
    DEF ReplayFacts!CompoundFunded, Reruns!CompoundFunded, ReplayFacts!ApplyCompound,
        Reruns!ApplyCompound
<1>23. \A held, active, cost, shape, policy :
      ReplayFacts!RebalanceFunded(held, active, cost, shape, policy)
       = Reruns!RebalanceFunded(held, active, cost, shape, policy)
  BY <1>6, <1>14, <1>21
    DEF ReplayFacts!RebalanceFunded, Reruns!RebalanceFunded, ReplayFacts!ApplyRebalance,
        Reruns!ApplyRebalance, ReplayFacts!Never, Reruns!Never
<1>24. \A held, active, cost, target :
      ReplayFacts!ExitFunded(held, active, cost, target)
       = Reruns!ExitFunded(held, active, cost, target)
  BY DEF ReplayFacts!ExitFunded, Reruns!ExitFunded, ReplayFacts!Remainder, Reruns!Remainder,
         ReplayFacts!Charge, Reruns!Charge, ReplayFacts!ApplyExit, Reruns!ApplyExit,
         ReplayFacts!Positive, Reruns!Positive, ReplayFacts!Nav, Reruns!Nav, ReplayFacts!Never,
         Reruns!Never, ReplayFacts!Max, Reruns!Max, ReplayFacts!Inventory, Reruns!Inventory
<1>25. \A v, held, kind, row : ReplayFacts!ApplyDecision(v, held, kind, row)
       = Reruns!ApplyDecision(v, held, kind, row)
  BY <1>19, <1>22, <1>23, <1>24
    DEF ReplayFacts!ApplyDecision, Reruns!ApplyDecision
<1>26. \A v, held, nav, peak, time :
      ReplayFacts!ExplicitExit(v, held, nav, peak, time)
       = Reruns!ExplicitExit(v, held, nav, peak, time)
  BY DEF ReplayFacts!ExplicitExit, Reruns!ExplicitExit, ReplayFacts!StopLoss, Reruns!StopLoss,
         ReplayFacts!Trailing, Reruns!Trailing, ReplayFacts!MaxHold, Reruns!MaxHold
<1>27. \A held, regime, time, bin, covered :
      ReplayFacts!Decide(held, regime, time, bin, covered)
       = Reruns!Decide(held, regime, time, bin, covered)
  BY DEF ReplayFacts!Decide, Reruns!Decide, ReplayFacts!ExitGate, Reruns!ExitGate,
         ReplayFacts!RebalanceGates, Reruns!RebalanceGates, ReplayFacts!InRange,
         Reruns!InRange, ReplayFacts!Never, Reruns!Never, ReplayFacts!Settled, Reruns!Settled,
         ReplayFacts!Cardinality, Reruns!Cardinality, ReplayFacts!WithinBand, Reruns!WithinBand
<1>28. \A held, active, apr, inputs :
      ReplayFacts!Covered(held, active, apr, inputs)
       = Reruns!Covered(held, active, apr, inputs)
  BY <1>19, <1>20
    DEF ReplayFacts!Covered, Reruns!Covered, ReplayFacts!NoQuote, Reruns!NoQuote
<1>29. \A v, held, regime, row, time :
      ReplayFacts!RawDecision(v, held, regime, row, time)
       = Reruns!RawDecision(v, held, regime, row, time)
  BY <1>27, <1>28
    DEF ReplayFacts!RawDecision, Reruns!RawDecision
<1>30. \A v, run, regime, row, time : ReplayFacts!Chosen(v, run, regime, row, time)
       = Reruns!Chosen(v, run, regime, row, time)
  BY <1>20, <1>26, <1>29
    DEF ReplayFacts!Chosen, Reruns!Chosen, ReplayFacts!Guarded, Reruns!Guarded,
        ReplayFacts!Suppressed, Reruns!Suppressed, ReplayFacts!Created, Reruns!Created
<1>31. \A run, opened, accrued, bench, row :
      ReplayFacts!Marked(run, opened, accrued, bench, row)
       = Reruns!Marked(run, opened, accrued, bench, row)
  BY DEF ReplayFacts!Marked, Reruns!Marked, ReplayFacts!Max, Reruns!Max, ReplayFacts!Nav,
         Reruns!Nav, ReplayFacts!Basket, Reruns!Basket, ReplayFacts!Inventory, Reruns!Inventory
<1>32. \A v, benchmarks, row : ReplayFacts!Credited(v, benchmarks, row)
       = Reruns!Credited(v, benchmarks, row)
  BY <1>2
    DEF ReplayFacts!Credited, Reruns!Credited, ReplayFacts!NoBenchmarks, Reruns!NoBenchmarks,
        ReplayFacts!InitBenchmarks, Reruns!InitBenchmarks
<1>33. \A v, run, benchmarks, regime, row, time :
      ReplayFacts!PlayRow(v, run, benchmarks, regime, row, time)
       = Reruns!PlayRow(v, run, benchmarks, regime, row, time)
  BY <1>15, <1>16, <1>17, <1>18, <1>25, <1>30, <1>31, <1>32
    DEF ReplayFacts!PlayRow, Reruns!PlayRow
<1>34. \A v, run, regime, row, time : ReplayFacts!RunRow(v, run, regime, row, time)
       = Reruns!RunRow(v, run, regime, row, time)
  BY <1>3, <1>4, <1>5, <1>33
    DEF ReplayFacts!RunRow, Reruns!RunRow
<1>35. \A row : Reruns!Replayed(row) => ReplayFacts!Replayed(row)
  BY <1>1, <1>34
    DEF ReplayFacts!Replayed, Reruns!Replayed
<1> QED BY <1>35 DEF ReplayFacts!Next, Reruns!Next

LEMMA RerunsRun ==
  ServiceSpec => []~(part = "replays") \/ ([](part = "replays") /\ ReplayFacts!Spec)
<1>1. ServiceInit /\ part = "replays" => ReplayFacts!Init
  BY DEF ReplayFacts!Init, Reruns!Init, ReplayFacts!InitRegime, Reruns!InitRegime,
         ReplayFacts!NewRun, Reruns!NewRun, ReplayFacts!Unfunded, Reruns!Unfunded,
         ReplayFacts!NoBenchmarks, Reruns!NoBenchmarks, ReplayFacts!NoMarks, Reruns!NoMarks,
         ReplayFacts!Never, Reruns!Never, ServiceInit
<1>2. [ServiceNext]_serviceVars => [ReplayFacts!Next]_(ReplayFacts!vars)
  BY RerunsStep DEF ServiceNext, serviceVars, replayVars, ReplayFacts!vars
<1>3. [ServiceNext]_serviceVars /\ part = "replays" => (part = "replays")'
  BY DEF ServiceNext, serviceVars
<1>4. [ServiceNext]_serviceVars /\ ~(part = "replays") => ~(part = "replays")'
  BY DEF ServiceNext, serviceVars
<1> QED BY <1>1, <1>2, <1>3, <1>4, PTL DEF ServiceSpec, ReplayFacts!Spec

(* The NAV a replay of the service reports is its funds, plus what the     *)
(* market and the fees brought, less every cost (positionNavUsd).          *)
THEOREM ServiceBooksBalance == ServiceSpec => []BooksBalance
<1>1. ReplayFacts!BooksBalance => BooksBalance
  BY DEF BooksBalance, ReplayFacts!BooksBalance, Reruns!BooksBalance,
         ReplayFacts!IsOpen, Reruns!IsOpen, ReplayFacts!Positive, Reruns!Positive,
         ReplayFacts!Max, Reruns!Max
<1>2. ~(part = "replays") => BooksBalance
  BY DEF BooksBalance
<1> QED BY <1>1, <1>2, RerunsRun, ReplayFactsHold, ReplayFacts!ReplayBooksBalance, PTL

(* The inventory of a replay of the service is never worth more than what  *)
(* was last allocated, held untouched (markPosition, position.ts).         *)
THEOREM ServiceNeverBeatsHolding == ServiceSpec => []NeverBeatsHolding
<1>1. ReplayFacts!NeverBeatsHolding => NeverBeatsHolding
  BY DEF NeverBeatsHolding, ReplayFacts!NeverBeatsHolding, Reruns!NeverBeatsHolding,
         ReplayFacts!IsOpen, Reruns!IsOpen, ReplayFacts!Inventory, Reruns!Inventory
<1>2. ~(part = "replays") => NeverBeatsHolding
  BY DEF NeverBeatsHolding
<1> QED BY <1>1, <1>2, RerunsRun, ReplayFactsHold, ReplayFacts!ReplayNeverBeatsHolding, PTL

(* A variant of a replay of the service exits on the same rows with and    *)
(* without the launch guard (applyLaunchGuard, launchGuard.ts).            *)
THEOREM ServiceGuardDelaysNoExit == ServiceSpec => []GuardDelaysNoExit
<1>1. ReplayFacts!GuardDelaysNoExit => GuardDelaysNoExit
  BY DEF GuardDelaysNoExit, ReplayFacts!GuardDelaysNoExit, Reruns!GuardDelaysNoExit,
         ReplayFacts!Exits, Reruns!Exits, ReplayFacts!ExitKinds, Reruns!ExitKinds
<1>2. ~(part = "replays") => GuardDelaysNoExit
  BY DEF GuardDelaysNoExit
<1> QED BY <1>1, <1>2, RerunsRun, ReplayFactsHold, ReplayFacts!ReplayGuardDelaysNoExit, PTL

(* Variants of a replay of the service that drew their benchmarks from the *)
(* same row agree on them for good (runVariant, replay.ts).                *)
THEOREM ServiceBenchmarksAgree == ServiceSpec => []BenchmarksAgree
<1>1. ReplayFacts!BenchmarksAgree => BenchmarksAgree
  BY DEF BenchmarksAgree, ReplayFacts!BenchmarksAgree, Reruns!BenchmarksAgree,
         ReplayFacts!NoBenchmarks, Reruns!NoBenchmarks, ReplayFacts!SeededAt, Reruns!SeededAt,
         ReplayFacts!Created, Reruns!Created
<1>2. ~(part = "replays") => BenchmarksAgree
  BY DEF BenchmarksAgree
<1> QED BY <1>1, <1>2, RerunsRun, ReplayFactsHold, ReplayFacts!ReplayBenchmarksAgree, PTL

(* What a replay of the service tells buyers they can buy, they can: an    *)
(* order for the depth fills at no more than its impact on average, and    *)
(* the capacity is the largest that does (buyCapacityAtAverageImpact).     *)
THEOREM ServiceDepthIsHonest == ServiceSpec => []DepthIsHonest
<1>1. ReplayFacts!DepthIsHonest => DepthIsHonest
  <2>1. \A p, bins : ReplayFacts!Capacity(p, bins) = Reruns!Capacity(p, bins)
    BY DEF ReplayFacts!Capacity, Reruns!Capacity, ReplayFacts!SumFunction,
           Reruns!SumFunction, ReplayFacts!SumFunctionOnSet,
           Reruns!SumFunctionOnSet, ReplayFacts!FoldFunctionOnSet,
           Reruns!FoldFunctionOnSet, ReplayFacts!MapThenFoldSet,
           Reruns!MapThenFoldSet
  <2>2. \A p, active, order :
          ReplayFacts!Filled(p, active, order) = Reruns!Filled(p, active, order)
    BY DEF ReplayFacts!Filled, Reruns!Filled, ReplayFacts!Fill, Reruns!Fill,
           ReplayFacts!SellBins, Reruns!SellBins, ReplayFacts!Min, Reruns!Min,
           ReplayFacts!Positive, Reruns!Positive, ReplayFacts!Max, Reruns!Max,
           ReplayFacts!Capacity, Reruns!Capacity, ReplayFacts!SumFunction,
           Reruns!SumFunction, ReplayFacts!SumFunctionOnSet,
           Reruns!SumFunctionOnSet, ReplayFacts!FoldFunctionOnSet,
           Reruns!FoldFunctionOnSet, ReplayFacts!MapThenFoldSet,
           Reruns!MapThenFoldSet
  <2>3. \A p, active, order, limit : ReplayFacts!WithinAverage(p, active, order, limit)
          = Reruns!WithinAverage(p, active, order, limit)
    BY DEF ReplayFacts!WithinAverage, Reruns!WithinAverage, ReplayFacts!Excess,
           Reruns!Excess, ReplayFacts!Fill, Reruns!Fill, ReplayFacts!SellBins,
           Reruns!SellBins, ReplayFacts!Min, Reruns!Min, ReplayFacts!Positive,
           Reruns!Positive, ReplayFacts!Max, Reruns!Max, ReplayFacts!Capacity,
           Reruns!Capacity, ReplayFacts!SumFunction, Reruns!SumFunction,
           ReplayFacts!SumFunctionOnSet, Reruns!SumFunctionOnSet,
           ReplayFacts!FoldFunctionOnSet, Reruns!FoldFunctionOnSet,
           ReplayFacts!MapThenFoldSet, Reruns!MapThenFoldSet
  <2>4. \A p, active, limit :
          ReplayFacts!Depth(p, active, limit) = Reruns!Depth(p, active, limit)
    BY DEF ReplayFacts!Depth, Reruns!Depth, ReplayFacts!SellBins, Reruns!SellBins,
           ReplayFacts!Capacity, Reruns!Capacity, ReplayFacts!SumFunction,
           Reruns!SumFunction, ReplayFacts!SumFunctionOnSet,
           Reruns!SumFunctionOnSet, ReplayFacts!FoldFunctionOnSet,
           Reruns!FoldFunctionOnSet, ReplayFacts!MapThenFoldSet,
           Reruns!MapThenFoldSet
  <2>5. \A p, active, limit, total : ReplayFacts!Bisect(p, active, limit, total)
          = Reruns!Bisect(p, active, limit, total)
    BY DEF ReplayFacts!Bisect, Reruns!Bisect, ReplayFacts!WithinAverage,
           Reruns!WithinAverage, ReplayFacts!Excess, Reruns!Excess,
           ReplayFacts!Fill, Reruns!Fill, ReplayFacts!SellBins, Reruns!SellBins,
           ReplayFacts!Min, Reruns!Min, ReplayFacts!Positive, Reruns!Positive,
           ReplayFacts!Max, Reruns!Max, ReplayFacts!Capacity, Reruns!Capacity,
           ReplayFacts!SumFunction, Reruns!SumFunction,
           ReplayFacts!SumFunctionOnSet, Reruns!SumFunctionOnSet,
           ReplayFacts!FoldFunctionOnSet, Reruns!FoldFunctionOnSet,
           ReplayFacts!MapThenFoldSet, Reruns!MapThenFoldSet
  <2>6. \A p, active, limit : ReplayFacts!AverageCapacity(p, active, limit)
          = Reruns!AverageCapacity(p, active, limit)
    BY <2>1, <2>3, <2>5 DEF ReplayFacts!AverageCapacity, Reruns!AverageCapacity,
           ReplayFacts!SellBins, Reruns!SellBins
  <2> QED BY <2>2, <2>3, <2>4, <2>6 DEF DepthIsHonest, ReplayFacts!DepthIsHonest,
             Reruns!DepthIsHonest
<1>2. ~(part = "replays") => DepthIsHonest
  BY DEF DepthIsHonest
<1> QED BY <1>1, <1>2, RerunsRun, ReplayFactsHold, ReplayFacts!ReplayDepthIsHonest, PTL

-----------------------------------------------------------------------------
(* All of them *)

(* A behaviour of the service is one of the chat, so that what was proved  *)
(* of the chat above holds of the service.                                 *)
LEMMA ChatRuns == ServiceSpec => Spec
<1>1. ServiceInit => Init
  BY DEF ServiceInit
<1>2. [ServiceNext]_serviceVars => [Next]_vars
  BY DEF ServiceNext, serviceVars
<1> QED BY <1>1, <1>2, PTL DEF ServiceSpec, Spec

(* Every part of the service keeps its types.                              *)
THEOREM ServiceTypeCorrect == ServiceSpec => []ServiceTypeOK
<1>1. ServiceSpec => []TypeOK
  BY ChatRuns, BotTypeOK, PTL
<1>2. ServiceSpec => []Tokens!TypeOK
  <2>1. TokenFacts!TypeOK => Tokens!TypeOK
    BY DEF TokenFacts!TypeOK, Tokens!TypeOK, TokenFacts!Tenant, Tokens!Tenant,
           TokenFacts!Call, Tokens!Call
  <2> QED BY <2>1, TokensRun, TokenFactsHold, TokenFacts!TokenTypeOK, PTL
<1>3. ServiceSpec => []Withdrawing!TypeOK
  <2>1. PayoutFacts!TypeOK => Withdrawing!TypeOK
    BY DEF PayoutFacts!TypeOK, Withdrawing!TypeOK, PayoutFacts!Change, Withdrawing!Change,
           PayoutFacts!Withdrawal, Withdrawing!Withdrawal, PayoutFacts!Call, Withdrawing!Call
  <2> QED BY <2>1, WithdrawingRuns, PayoutFactsHold, PayoutFacts!PayoutsTypeOK, PTL
<1>4. ServiceSpec => []Arrivals!TypeOK
  <2>1. DepositFacts!TypeOK => Arrivals!TypeOK
    BY DEF DepositFacts!TypeOK, Arrivals!TypeOK, DepositFacts!Tx, Arrivals!Tx,
           DepositFacts!Row, Arrivals!Row
  <2> QED BY <2>1, ArrivalsRun, DepositFactsHold, DepositFacts!DepositsTypeOK, PTL
<1>5. ServiceSpec => [](part = "replays" => Reruns!TypeOK)
  <2>1. ReplayFacts!TypeOK => Reruns!TypeOK
    BY DEF ReplayFacts!TypeOK, Reruns!TypeOK, ReplayFacts!Regime, Reruns!Regime,
           ReplayFacts!Sample, Reruns!Sample, ReplayFacts!Kinds, Reruns!Kinds
  <2> QED BY <2>1, RerunsRun, ReplayFactsHold, ReplayFacts!ReplayTypeOK, PTL
<1>6. ServiceSpec => [](part = "launch" => Launches!TypeOK)
  <2>1. LaunchFacts!TypeOK => Launches!TypeOK
    BY DEF LaunchFacts!TypeOK, Launches!TypeOK, LaunchFacts!Kinds, Launches!Kinds,
           LaunchFacts!Addresses, Launches!Addresses, LaunchFacts!PoolAccount,
           Launches!PoolAccount,
           LaunchFacts!NoPool, Launches!NoPool, LaunchFacts!NoDraft, Launches!NoDraft
  <2> QED BY <2>1, LaunchesRun, LaunchFactsHold, LaunchFacts!LaunchTypeOK, PTL
<1>7. /\ TypeOK /\ Tokens!TypeOK /\ Withdrawing!TypeOK /\ Arrivals!TypeOK
      /\ part = "replays" => Reruns!TypeOK
      /\ part = "launch" => Launches!TypeOK
      => ServiceTypeOK
  BY DEF ServiceTypeOK
<1> QED BY <1>1, <1>2, <1>3, <1>4, <1>5, <1>6, <1>7, PTL

=============================================================================
