------------------------------ MODULE Handoff -------------------------------
(***************************************************************************)
(* One-time tokens that bind a Telegram chat to an account                 *)
(* (service/handoff.ts, upsertTenant of ledger/registry.ts).  The parent   *)
(* bot issues tokens; several callers of redeemHandoff race for them.      *)
(* Each await of redeemHandoff ends a step, a query may fail before or     *)
(* after it took effect, and the process may die between any two.          *)
(***************************************************************************)
EXTENDS Naturals, FiniteSets

CONSTANTS
  Account,      \* externalUserId of the parent's accounts
  Chat,         \* Telegram chats
  Token,        \* tokens: random, so that none is issued twice
  Redeemer,     \* concurrent calls of redeemHandoff
  None,         \* no account, no chat, no token
  Scenarios,    \* what may go wrong, one set per behaviour
  MaxFailures   \* bound: queries that fail

(* What the constants have to be: assumed by whoever instantiates this.    *)
HandoffAssumption ==
  /\ None \notin Account \cup Chat \cup Token
  /\ Scenarios \subseteq SUBSET {"db", "lost", "crash"}
  /\ MaxFailures \in Nat

VARIABLES
  env,        \* the scenario
  stored,     \* tokens with a row in KeyValue
  issuedTo,   \* the account each token was issued to; the row's externalUserId
  expired,    \* tokens whose exp has passed
  tenants,    \* Tenant rows by externalUserId
  redeem,     \* the calls in progress
  failures,   \* queries that failed so far
  bound,      \* history: how often a token bound a chat
  burnt       \* history: tokens whose restore failed

vars == <<env, stored, issuedTo, expired, tenants, redeem, failures, bound, burnt>>

(* chat is None as long as the account has no row.                         *)
Tenant == [chat : Chat \cup {None}, status : {"ACTIVE", "SUSPENDED"}]

(* read: which of the two pre-checks have passed; banned (history): the    *)
(* account was suspended before the call.                                  *)
Call == [step : {"idle", "expire", "check", "claim", "bind", "restore"},
         token : Token \cup {None}, chat : Chat \cup {None},
         read : SUBSET {"chat", "account"}, banned : BOOLEAN]

Idle == [step |-> "idle", token |-> None, chat |-> None, read |-> {}, banned |-> FALSE]

TypeOK ==
  /\ env \in Scenarios
  /\ stored \subseteq Token
  /\ issuedTo \in [Token -> Account \cup {None}]
  /\ expired \subseteq Token
  /\ tenants \in [Account -> Tenant]
  /\ redeem \in [Redeemer -> Call]
  /\ failures \in 0..MaxFailures
  /\ bound \in [Token -> Nat]
  /\ burnt \subseteq Token

Init ==
  /\ env \in Scenarios
  /\ stored = {}
  /\ issuedTo = [t \in Token |-> None]
  /\ expired = {}
  /\ tenants = [a \in Account |-> [chat |-> None, status |-> "ACTIVE"]]
  /\ redeem = [r \in Redeemer |-> Idle]
  /\ failures = 0
  /\ bound = [t \in Token |-> 0]
  /\ burnt = {}

-----------------------------------------------------------------------------
(* issueHandoff, and what happens outside *)

(* Expired tokens are purged first; creating the row may fail after that.  *)
IssueHandoff(t, a) ==
  /\ issuedTo[t] = None
  /\ \/ /\ issuedTo' = [issuedTo EXCEPT ![t] = a]
        /\ stored' = (stored \ expired) \cup {t}
     \/ /\ env \cap {"db", "lost"} # {}
        /\ stored' = stored \ expired
        /\ UNCHANGED issuedTo
  /\ UNCHANGED <<env, expired, tenants, redeem, failures, bound, burnt>>

(* Time passes (external).                                                 *)
Expire(t) ==
  /\ t \in stored \ expired
  /\ expired' = expired \cup {t}
  /\ UNCHANGED <<env, stored, issuedTo, tenants, redeem, failures, bound, burnt>>

(* Armara suspends an account (external).                                  *)
Suspend(a) ==
  /\ tenants[a].chat # None
  /\ tenants[a].status = "ACTIVE"
  /\ tenants' = [tenants EXCEPT ![a].status = "SUSPENDED"]
  /\ UNCHANGED <<env, stored, issuedTo, expired, redeem, failures, bound, burnt>>

-----------------------------------------------------------------------------
(* redeemHandoff *)

At(r, step) == redeem[r].step = step

Presented(r) == redeem[r].token

AccountOf(r) == issuedTo[Presented(r)]

GoTo(r, step) == redeem' = [redeem EXCEPT ![r].step = step]

(* The call returns or throws.                                             *)
Return(r) == redeem' = [redeem EXCEPT ![r] = Idle]

(* A chat presses start: without a row the link is refused.                *)
FindToken(r, t, c) ==
  /\ At(r, "idle")
  /\ t \in stored
  /\ redeem' = [redeem EXCEPT ![r] =
                 [step |-> IF t \in expired THEN "expire" ELSE "check", token |-> t, chat |-> c,
                  read |-> {}, banned |-> tenants[issuedTo[t]].status = "SUSPENDED"]]
  /\ UNCHANGED <<env, stored, issuedTo, expired, tenants, failures, bound, burnt>>

DeleteExpired(r) ==
  /\ At(r, "expire")
  /\ stored' = stored \ {Presented(r)}
  /\ Return(r)
  /\ UNCHANGED <<env, issuedTo, expired, tenants, failures, bound, burnt>>

LinkedElsewhere(r) ==
  \E a \in Account \ {AccountOf(r)} : tenants[a].chat = redeem[r].chat

(* Mutation of MayEnter: a suspended account is let in.                    *)
MayEnterAlways(r) == TRUE

MayEnter(r) == tenants[AccountOf(r)].status = "ACTIVE"

(* The two reads run at the same time; either may refuse the call.         *)
PreCheck(r, what) ==
  /\ At(r, "check")
  /\ what \notin redeem[r].read
  /\ IF (what = "chat" /\ LinkedElsewhere(r)) \/ (what = "account" /\ ~MayEnter(r))
     THEN Return(r)
     ELSE redeem' = [redeem EXCEPT ![r].read = @ \cup {what},
                                   ![r].step = IF redeem[r].read = {} THEN @ ELSE "claim"]
  /\ UNCHANGED <<env, stored, issuedTo, expired, tenants, failures, bound, burnt>>

(* Mutation of Won: the count of deleted rows is not looked at.            *)
WonAlways(r) == TRUE

Won(r) == Presented(r) \in stored

(* Whoever deletes the row goes on.                                        *)
Claim(r) ==
  /\ At(r, "claim")
  /\ stored' = stored \ {Presented(r)}
  /\ IF Won(r) THEN GoTo(r, "bind") ELSE Return(r)
  /\ UNCHANGED <<env, issuedTo, expired, tenants, failures, bound, burnt>>

Upsert(r) ==
  /\ ~LinkedElsewhere(r)
  /\ tenants' = [tenants EXCEPT ![AccountOf(r)].chat = redeem[r].chat]
  /\ bound' = [bound EXCEPT ![Presented(r)] = @ + 1]

(* Mutation of Restore: an error of the upsert burns the token.            *)
RestoreNothing(r) == UNCHANGED stored

Restore(r) == stored' = stored \cup {Presented(r)}

(* upsertTenant; the unique chat id may refuse it in the end.              *)
Bind(r) ==
  /\ At(r, "bind")
  /\ \/ Upsert(r) /\ Return(r)
     \/ LinkedElsewhere(r) /\ GoTo(r, "restore") /\ UNCHANGED <<tenants, bound>>
  /\ UNCHANGED <<env, stored, issuedTo, expired, failures, burnt>>

RestoreToken(r) ==
  /\ At(r, "restore")
  /\ Restore(r)
  /\ Return(r)
  /\ UNCHANGED <<env, issuedTo, expired, tenants, failures, bound, burnt>>

(* A query fails: reads and the claim end the call, the upsert leads to    *)
(* the restore, and the restore is not tried twice.                        *)
QueryFails(r) ==
  /\ "db" \in env
  /\ failures < MaxFailures
  /\ failures' = failures + 1
  /\ \/ redeem[r].step \in {"expire", "check", "claim"} /\ Return(r) /\ UNCHANGED burnt
     \/ At(r, "bind") /\ GoTo(r, "restore") /\ UNCHANGED burnt
     \/ At(r, "restore") /\ Return(r) /\ burnt' = burnt \cup {Presented(r)}
  /\ UNCHANGED <<env, stored, issuedTo, expired, tenants, bound>>

(* A query takes effect, but its answer is lost.                           *)
AnswerLost(r) ==
  /\ "lost" \in env
  /\ failures < MaxFailures
  /\ failures' = failures + 1
  /\ \/ /\ At(r, "claim")
        /\ stored' = stored \ {Presented(r)}
        /\ Return(r)
        /\ UNCHANGED <<tenants, bound>>
     \/ /\ At(r, "bind")
        /\ Upsert(r)
        /\ GoTo(r, "restore")
        /\ UNCHANGED stored
  /\ UNCHANGED <<env, issuedTo, expired, burnt>>

Crash ==
  /\ "crash" \in env
  /\ redeem # [r \in Redeemer |-> Idle]
  /\ redeem' = [r \in Redeemer |-> Idle]
  /\ UNCHANGED <<env, stored, issuedTo, expired, tenants, failures, bound, burnt>>

Next ==
  \/ \E t \in Token, a \in Account : IssueHandoff(t, a)
  \/ \E t \in Token : Expire(t)
  \/ \E a \in Account : Suspend(a)
  \/ \E r \in Redeemer :
       \/ \E t \in Token, c \in Chat : FindToken(r, t, c)
       \/ DeleteExpired(r)
       \/ \E what \in {"chat", "account"} : PreCheck(r, what)
       \/ Claim(r)
       \/ Bind(r)
       \/ RestoreToken(r)
       \/ QueryFails(r)
       \/ AnswerLost(r)
  \/ Crash

Spec == Init /\ [][Next]_vars

-----------------------------------------------------------------------------
(* Correctness *)

(* A token lets at most one chat in, and once, however many callers redeem *)
(* it at the same time, fail and try again: "one-time by construction".    *)
(* (Not if an answer is lost: an upsert that took effect and reports an    *)
(* error has its token restored, and the token binds a second chat.)       *)
TokenBindsOnce ==
  "lost" \notin env => \A t \in Token : bound[t] <= 1

(* While the process lives, a token that has let nobody in stays usable    *)
(* until it expires, unless its upsert and then its restore failed ("two   *)
(* failures in a row").  Losing the answer to the claim is enough to lose  *)
(* it, and so is a crash between claim and upsert.                         *)
TokensSurvive ==
  \A t \in Token :
    /\ env \cap {"lost", "crash"} = {}
    /\ issuedTo[t] # None
    /\ t \notin stored \cup expired
    /\ bound[t] = 0
    /\ \A r \in Redeemer : Presented(r) # t
    => t \in burnt

(* A call made after an account was suspended never links a chat to it,    *)
(* whatever other calls do between its checks and its upsert.              *)
SuspendedStaysOut ==
  [][\A a \in Account :
       tenants'[a].chat # tenants[a].chat
         => \E r \in Redeemer : At(r, "bind") /\ AccountOf(r) = a /\ ~redeem[r].banned]_vars

=============================================================================
