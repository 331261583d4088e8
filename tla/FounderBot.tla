----------------------------- MODULE FounderBot -----------------------------
(***************************************************************************)
(* One founder's chat with the Telegram bot (bot/bot.ts) and the managed   *)
(* pools behind it (service/pools.ts, ledger/registry.ts).  grammY handles *)
(* one update after the other; what the bot waits for in between lives in  *)
(* the memory of the process (pending).  A managed pool is a run: once     *)
(* STOPPED it stays as history, and adding its pool again starts another.  *)
(*                                                                         *)
(* Updates arrive again when the process dies before it has acknowledged   *)
(* them, replies and queries may fail before or after they took effect,    *)
(* and another user of the database (an operator's script, a process that  *)
(* is still winding down) may move pools at the same time.                 *)
(***************************************************************************)
EXTENDS Naturals, FiniteSets, Sequences

CONSTANTS
  Pool,          \* pool addresses
  Name,          \* Name[p]: what the pool stats call pool p
  Size,          \* USD amounts a founder types
  NoRef,         \* a command without an argument
  InitialRuns,   \* the runs there are before the first update
  Scenarios,     \* what may go wrong, one set per instance
  Typed,         \* commands and messages the founder sends
  MaxUpdates,    \* bound: updates the founder sends, in each scenario
  MaxQueued,     \* bound: updates not yet handled, as the founder sends one
  MaxBatch,      \* bound: updates handled between two acknowledgements
  MaxRestarts    \* bound: crashes of the bot

Label == {Name[p] : p \in Pool}

Ref == Pool \cup Label \cup {NoRef}

ASSUME BotAssumption ==
  /\ NoRef \notin Pool \cup Label \cup Size
  /\ {"words", "figures"} \cap Size = {}
  /\ Scenarios \subseteq SUBSET {"net", "db", "crash", "ops"}
  /\ MaxUpdates \in [Scenarios -> Nat]
  /\ {MaxQueued, MaxBatch, MaxRestarts} \subseteq Nat

(* Every command and every message there is                                *)
Commands ==
  [cmd : {"add"}, arg : Pool, card : {0}]
    \cup [cmd : {"text"}, arg : Size \cup {"words", "figures"}, card : {0}]
    \cup [cmd : {"remove", "pause", "resume"}, arg : Ref, card : {0}]
    \cup [cmd : {"launchplan", "drop"}, arg : {NoRef}, card : {0}]

ASSUME TypedAssumption == Typed \subseteq Commands

VARIABLES
  env,      \* the scenario of this behaviour
  inbox,    \* updates Telegram still has to deliver, in order
  done,     \* updates handled but not acknowledged
  sent,     \* updates the founder has sent
  restarts, \* crashes so far
  cards,    \* every card with buttons the bot made, the latest last
  pending,  \* pending.get(chatId)
  runs,     \* ManagedPool rows, in order of createdAt
  move,     \* the mode transition the bot is in the middle of
  ops       \* the one another caller of the service is in the middle of

chatVars == <<inbox, done, sent, restarts>>
vars == <<env, chatVars, cards, pending, runs, move, ops>>

Mode == {"SHADOW", "PAUSED", "STOPPED"}

(* live: runSeq is 0.  card is the (history) card whose button added it.   *)
Run == [pool : Pool, mode : Mode, size : Size, live : BOOLEAN, card : Nat]

(* A run is live while it is not stopped, and one per pool is.             *)
Slotted(rs) ==
  /\ \A i \in DOMAIN rs : rs[i].live <=> rs[i].mode # "STOPPED"
  /\ \A i, j \in DOMAIN rs : rs[i].live /\ rs[j].live /\ rs[i].pool = rs[j].pool => i = j

ASSUME RunsAssumption ==
  /\ InitialRuns \in Seq(Run)
  /\ Slotted(InitialRuns)
  /\ \A i \in DOMAIN InitialRuns : InitialRuns[i].card = 0

(* shows: what its text says, for a removal the run the argument meant     *)
(* when it was sent; buttons: the keyboard is still there; acted: how      *)
(* often a tap on it changed the ledger.                                   *)
Card == [kind : {"add", "remove"}, nonce : Nat, pool : Pool \cup {NoRef},
         size : Size \cup {NoRef}, asked : Nat, buttons : BOOLEAN, acted : Nat]

NoPending == [kind |-> "none", pool |-> NoRef, size |-> NoRef, ref |-> NoRef, nonce |-> 0,
              card |-> 0]

Pending ==
  {NoPending}
    \cup [kind : {"add-size"}, pool : Pool, size : {NoRef}, ref : {NoRef}, nonce : {0},
          card : {0}]
    \cup [kind : {"add-confirm"}, pool : Pool, size : Size, ref : {NoRef}, nonce : Nat,
          card : Nat]
    \cup [kind : {"remove-confirm"}, pool : {NoRef}, size : {NoRef}, ref : Ref, nonce : Nat,
          card : {0}]
    \cup [kind : {"launch-input"}, pool : {NoRef}, size : {NoRef}, ref : {NoRef},
          nonce : {0}, card : {0}]

Update == Commands \cup [cmd : {"confirm", "cancel"}, arg : {NoRef}, card : Nat]

(* row 0 marks that no transition is in progress; by is the card tapped.   *)
Move == [row : Nat, action : {"pause", "resume", "remove"}, by : Nat]

NoMove == [row |-> 0, action |-> "pause", by |-> 0]

TypeOK ==
  /\ env \in Scenarios
  /\ inbox \in Seq(Update)
  /\ done \in Seq(Update)
  /\ sent \in 0..MaxUpdates[env]
  /\ restarts \in 0..MaxRestarts
  /\ cards \in Seq(Card)
  /\ pending \in Pending
  /\ runs \in Seq(Run)
  /\ move \in Move
  /\ ops \in Move

Init ==
  /\ env \in Scenarios
  /\ inbox = <<>>
  /\ done = <<>>
  /\ sent = 0
  /\ restarts = 0
  /\ cards = <<>>
  /\ pending = NoPending
  /\ runs = InitialRuns
  /\ move = NoMove
  /\ ops = NoMove

-----------------------------------------------------------------------------
(* The founder (external): commands, messages, and taps on visible cards *)

Taps == [cmd : {"confirm", "cancel"}, arg : {NoRef},
         card : {c \in DOMAIN cards : cards[c].buttons}]

SendUpdate(u) ==
  /\ sent < MaxUpdates[env]
  /\ Len(inbox) < MaxQueued
  /\ inbox' = Append(inbox, u)
  /\ sent' = sent + 1
  /\ UNCHANGED <<env, done, restarts, cards, pending, runs, move, ops>>

-----------------------------------------------------------------------------
(* Delivery *)

Receives(cmd) ==
  /\ move = NoMove
  /\ Len(done) < MaxBatch
  /\ inbox # <<>>
  /\ Head(inbox).cmd = cmd

Arg == Head(inbox).arg

(* Which updates are acknowledged matters only where the bot may crash.    *)
Handled ==
  /\ inbox' = Tail(inbox)
  /\ done' = IF "crash" \in env THEN Append(done, Head(inbox)) ELSE <<>>
  /\ UNCHANGED <<env, sent, restarts, ops>>

Acknowledge ==
  /\ done # <<>>
  /\ done' = <<>>
  /\ UNCHANGED <<env, inbox, sent, restarts, cards, pending, runs, move, ops>>

(* The update in progress and all unacknowledged ones are delivered again. *)
Restart ==
  /\ "crash" \in env
  /\ restarts < MaxRestarts
  /\ restarts' = restarts + 1
  /\ inbox' = done \o inbox
  /\ done' = <<>>
  /\ pending' = NoPending
  /\ move' = NoMove
  /\ UNCHANGED <<env, sent, cards, runs, ops>>

-----------------------------------------------------------------------------
(* The ledger *)

Active == {i \in DOMAIN runs : runs[i].mode # "STOPPED"}

(* pickOne: several runs of one pool mean the live one, or the latest;     *)
(* runs of several pools mean none.                                        *)
PickOne(ids) ==
  LET candidates == IF ids \cap Active # {} THEN ids \cap Active ELSE ids
  IN  {i \in candidates : /\ \A j \in candidates : j <= i
                          /\ \A j \in ids : runs[j].pool = runs[i].pool}

ByAddress(ref) == {i \in DOMAIN runs : runs[i].pool = ref}

ByLabel(ref) == {i \in DOMAIN runs : Name[runs[i].pool] = ref}

(* resolvePoolRow: the run the founder means, or none (an error).          *)
Resolve(ref) ==
  CASE ref = NoRef -> IF Cardinality(Active) = 1 THEN Active ELSE {}
    [] ref # NoRef /\ ByAddress(ref) # {} -> PickOne(ByAddress(ref))
    [] OTHER -> PickOne(ByLabel(ref))

(* Mutations of From: a stopped run is resumed; it is stopped again.       *)
FromResumable(action) ==
  CASE action = "pause"  -> {"SHADOW"}
    [] action = "resume" -> {"PAUSED", "STOPPED"}
    [] action = "remove" -> {"SHADOW", "PAUSED"}

FromStopped(action) ==
  CASE action = "pause"  -> {"SHADOW"}
    [] action = "resume" -> {"PAUSED"}
    [] action = "remove" -> Mode

From(action) ==
  CASE action = "pause"  -> {"SHADOW"}
    [] action = "resume" -> {"PAUSED"}
    [] action = "remove" -> {"SHADOW", "PAUSED"}

To(action) ==
  CASE action = "pause"  -> "PAUSED"
    [] action = "resume" -> "SHADOW"
    [] action = "remove" -> "STOPPED"

SlotTaken(pool, but) == \E i \in DOMAIN runs \ {but} : runs[i].pool = pool /\ runs[i].live

(* Mutation of SetPoolMode: a revived run does not reclaim slot 0.         *)
SetPoolModeUnslotted(i, mode) ==
  runs' = [runs EXCEPT ![i].mode = mode, ![i].live = @ /\ mode # "STOPPED"]

(* Whatever the mode is by now; runSeq follows it, and must be unique.     *)
SetPoolMode(i, mode) ==
  /\ mode = "STOPPED" \/ ~SlotTaken(runs[i].pool, i)
  /\ runs' = [runs EXCEPT ![i].mode = mode, ![i].live = (mode # "STOPPED")]

AddPool(pool, size, card) ==
  /\ ~SlotTaken(pool, 0)
  /\ runs' = Append(runs, [pool |-> pool, mode |-> "SHADOW", size |-> size,
                           live |-> TRUE, card |-> card])

-----------------------------------------------------------------------------
(* Commands that only touch the prompt *)

(* Every command first forgets the prompt, and may fail after that.        *)
Forgets == IF env \cap {"net", "db"} # {} THEN {NoPending} ELSE {}

(* /cancel, /start, and a command that lacks its argument                  *)
Drop ==
  /\ Receives("drop")
  /\ pending' = NoPending
  /\ Handled
  /\ UNCHANGED <<cards, runs, move>>

Add ==
  /\ Receives("add")
  /\ pending' \in {[NoPending EXCEPT !.kind = "add-size", !.pool = Arg]} \cup Forgets
  /\ Handled
  /\ UNCHANGED <<cards, runs, move>>

LaunchPlan ==
  /\ Receives("launchplan")
  /\ pending' \in {[NoPending EXCEPT !.kind = "launch-input"]} \cup Forgets
  /\ Handled
  /\ UNCHANGED <<cards, runs, move>>

(* newNonce: random, so it is that of no earlier card.                     *)
NewNonce == Len(cards) + 1

RemoveCard(ref, shown) ==
  [kind |-> "remove", nonce |-> NewNonce, pool |-> NoRef, size |-> NoRef,
   buttons |-> shown, acted |-> 0,
   asked |-> IF Resolve(ref) = {} THEN 0 ELSE CHOOSE i \in Resolve(ref) : TRUE]

(* The nonce is armed first; the card may not arrive.                      *)
Remove ==
  /\ Receives("remove")
  /\ \/ /\ pending' = [NoPending EXCEPT !.kind = "remove-confirm", !.ref = Arg,
                                        !.nonce = NewNonce]
        /\ \E shown \in {TRUE, "net" \notin env} :
             cards' = Append(cards, RemoveCard(Arg, shown))
     \/ pending' \in Forgets /\ UNCHANGED cards
  /\ Handled
  /\ UNCHANGED <<runs, move>>

-----------------------------------------------------------------------------
(* Messages *)

(* Mutation of IsAmount: the first of several figures is taken.            *)
IsAmountFloat(text) == text # "words"

(* parsePositiveAmount                                                     *)
IsAmount(text) == text \in Size

ClearButtons(c) == IF c = 0 THEN cards ELSE [cards EXCEPT ![c].buttons = FALSE]

(* Mutation of Arm: a corrected size keeps the nonce of the old card.      *)
ArmSameNonce(size) ==
  LET nonce == IF pending.kind = "add-confirm" THEN pending.nonce ELSE NewNonce
  IN  [pending EXCEPT !.kind = "add-confirm", !.size = size, !.nonce = nonce,
                      !.card = Len(cards) + 1]

(* What sendAddConfirmCard leaves pending, with the nonce of its card.     *)
Arm(size) ==
  [pending EXCEPT !.kind = "add-confirm", !.size = size, !.nonce = NewNonce,
                  !.card = Len(cards) + 1]

AddCard(size, shown) ==
  [kind |-> "add", nonce |-> Arm(size).nonce, pool |-> pending.pool, size |-> size,
   buttons |-> shown, acted |-> 0, asked |-> 0]

(* A size: the old card loses its buttons, at best effort, a new one is    *)
(* sent, and only once it is sent does the bot arm it.                     *)
TypeSize ==
  /\ Receives("text")
  /\ IsAmount(Arg)
  /\ pending.kind \in {"add-size", "add-confirm"}
  /\ \E cleared \in {ClearButtons(pending.card)} \cup
                    (IF "net" \in env THEN {cards} ELSE {}) :
       \/ /\ cards' = Append(cleared, AddCard(Arg, TRUE))
          /\ pending' = Arm(Arg)
       \/ /\ "net" \in env
          /\ \E shown \in BOOLEAN : cards' = Append(cleared, AddCard(Arg, shown))
          /\ UNCHANGED pending
  /\ Handled
  /\ UNCHANGED <<runs, move>>

(* The planner may refuse the figures, which leaves the prompt.            *)
PlanLaunch ==
  /\ Receives("text")
  /\ Arg = "figures"
  /\ pending.kind = "launch-input"
  /\ pending' \in {NoPending, pending}
  /\ Handled
  /\ UNCHANGED <<cards, runs, move>>

IgnoreText ==
  /\ Receives("text")
  /\ pending.kind \in {"add-size", "add-confirm"} => ~IsAmount(Arg)
  /\ pending.kind = "launch-input" => Arg # "figures"
  /\ Handled
  /\ UNCHANGED <<cards, pending, runs, move>>

-----------------------------------------------------------------------------
(* Taps *)

Tapped == Head(inbox).card

(* Mutation of IsArmed: any card of the kind will do.                      *)
IsArmedKind(kind) ==
  /\ cards[Tapped].kind = kind
  /\ pending.kind = (IF kind = "add" THEN "add-confirm" ELSE "remove-confirm")

IsArmed(kind) ==
  /\ cards[Tapped].kind = kind
  /\ pending.kind = (IF kind = "add" THEN "add-confirm" ELSE "remove-confirm")
  /\ pending.nonce = cards[Tapped].nonce

(* The tapped card loses its buttons, which may fail.                      *)
Neutralize == cards' \in {ClearButtons(Tapped)} \cup (IF "net" \in env THEN {cards} ELSE {})

Acted(c) == [cards EXCEPT ![c].acted = @ + 1]

(* A card that acted loses its buttons as well.                            *)
Acts(c) == cards' \in {[Acted(c) EXCEPT ![c].buttons = FALSE]} \cup
                      (IF "net" \in env THEN {Acted(c)} ELSE {})

StaleTap ==
  /\ Receives("confirm") \/ Receives("cancel")
  /\ ~IsArmed("add") /\ ~IsArmed("remove")
  /\ Neutralize
  /\ Handled
  /\ UNCHANGED <<pending, runs, move>>

CancelTap ==
  /\ Receives("cancel")
  /\ IsArmed("add") \/ IsArmed("remove")
  /\ Neutralize
  /\ pending' = NoPending
  /\ Handled
  /\ UNCHANGED <<runs, move>>

(* The pool is added first: an error, whether or not the row is there,     *)
(* leaves the prompt armed and the buttons on the card.                    *)
ConfirmAdd ==
  /\ Receives("confirm")
  /\ IsArmed("add")
  /\ \/ /\ AddPool(pending.pool, pending.size, Tapped)
        /\ pending' = NoPending
        /\ Acts(Tapped)
     \/ /\ "db" \in env
        /\ AddPool(pending.pool, pending.size, Tapped)
        /\ cards' = Acted(Tapped)
        /\ UNCHANGED pending
     \/ /\ "db" \in env \/ SlotTaken(pending.pool, 0)
        /\ UNCHANGED <<runs, cards, pending>>
  /\ Handled
  /\ UNCHANGED move

-----------------------------------------------------------------------------
(* Mode transitions: resolve and check, then update *)

CanMove(action, i) == runs[i].mode \in From(action)

StartMove(action, ref, by) ==
  /\ \E i \in Resolve(ref) :
       /\ CanMove(action, i)
       /\ move' = [row |-> i, action |-> action, by |-> by]
  /\ UNCHANGED <<env, chatVars, cards, pending, runs, ops>>

RefuseMove(action, ref) ==
  /\ \A i \in Resolve(ref) : ~CanMove(action, i)
  /\ Handled
  /\ UNCHANGED <<cards, pending, runs, move>>

PauseOrResume ==
  \E action \in {"pause", "resume"} :
    /\ Receives(action)
    /\ StartMove(action, Arg, 0) \/ RefuseMove(action, Arg)

(* The argument is resolved again when the card is tapped.                 *)
ConfirmRemove ==
  /\ Receives("confirm")
  /\ IsArmed("remove")
  /\ StartMove("remove", pending.ref, Tapped) \/ RefuseMove("remove", pending.ref)

Prompted == move.by # 0

FinishMove ==
  /\ move # NoMove
  /\ \/ /\ SetPoolMode(move.row, To(move.action))
        /\ IF Prompted THEN Acts(move.by) ELSE UNCHANGED cards
        /\ pending' = IF Prompted THEN NoPending ELSE pending
     \/ /\ "db" \in env
        /\ SetPoolMode(move.row, To(move.action))
        /\ cards' = IF Prompted THEN Acted(move.by) ELSE cards
        /\ UNCHANGED pending
     \/ /\ "db" \in env \/ SlotTaken(runs[move.row].pool, move.row)
        /\ UNCHANGED <<runs, cards, pending>>
  /\ move' = NoMove
  /\ Handled

(* Another caller of the service, which reads and writes like the bot.     *)
OpsRead ==
  /\ "ops" \in env
  /\ ops = NoMove
  /\ \E i \in DOMAIN runs, action \in {"pause", "resume", "remove"} :
       /\ CanMove(action, i)
       /\ ops' = [row |-> i, action |-> action, by |-> 0]
  /\ UNCHANGED <<env, chatVars, cards, pending, runs, move>>

OpsWrite ==
  /\ ops # NoMove
  /\ \/ SetPoolMode(ops.row, To(ops.action))
     \/ SlotTaken(runs[ops.row].pool, ops.row) /\ UNCHANGED runs
  /\ ops' = NoMove
  /\ UNCHANGED <<env, chatVars, cards, pending, move>>

-----------------------------------------------------------------------------

Next ==
  \/ \E u \in Typed \cup Taps : SendUpdate(u)
  \/ Acknowledge \/ Restart
  \/ Drop \/ Add \/ LaunchPlan \/ Remove
  \/ TypeSize \/ PlanLaunch \/ IgnoreText
  \/ StaleTap \/ CancelTap \/ ConfirmAdd \/ ConfirmRemove
  \/ PauseOrResume \/ FinishMove
  \/ OpsRead \/ OpsWrite

Spec == Init /\ [][Next]_vars

-----------------------------------------------------------------------------
(* Correctness *)

(* A pool has at most one live run, whatever the founder, the bot and      *)
(* other callers do at the same time: a run that is revived by a late      *)
(* write has to reclaim slot 0, and fails if another run holds it          *)
(* (setPoolMode, the unique key of ManagedPool).                           *)
OneLiveRun ==
  \A i, j \in Active : runs[i].pool = runs[j].pool => i = j

(* A run has the pool and the size that stood on the card whose button     *)
(* the founder pressed, although sizes are corrected, cards of earlier     *)
(* sizes stay tappable, and updates are delivered again (the nonce).       *)
AddsAsShown ==
  \A i \in DOMAIN runs : runs[i].card # 0 =>
    /\ runs[i].pool = cards[runs[i].card].pool
    /\ runs[i].size = cards[runs[i].card].size

(* A card changes the ledger at most once, however often it is tapped,     *)
(* delivered, or tapped again after an error.                              *)
(* (A lost answer to the query that adds the pool and another caller who   *)
(* removes it before the retry together would make it act twice.)          *)
CardsActOnce == \A c \in DOMAIN cards : cards[c].acted <= 1

(* With the bot as the only caller, a removal stops the run the founder    *)
(* was asked about, although its argument is resolved again at the tap.    *)
RemovesAsAsked ==
  [][\A c \in DOMAIN cards :
       "ops" \notin env /\ cards[c].kind = "remove" /\ cards[c].asked # 0
         /\ cards'[c].acted > cards[c].acted
       => runs'[cards[c].asked].mode = "STOPPED" /\ runs[cards[c].asked].mode # "STOPPED"]_vars

(* With the bot as the only caller a stopped run stays stopped.            *)
StoppedIsFinal ==
  [][\A i \in DOMAIN runs :
       "ops" \notin env /\ runs[i].mode = "STOPPED" => runs'[i].mode = "STOPPED"]_vars

=============================================================================
