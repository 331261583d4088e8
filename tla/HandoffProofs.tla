--------------------------- MODULE HandoffProofs ----------------------------
(***************************************************************************)
(* Proofs about handoff tokens, for any accounts, chats, tokens and number *)
(* of concurrent callers, and any pattern of failing queries.              *)
(***************************************************************************)
EXTENDS Handoff, TLAPS

(* The steps, one disjunct each.                                           *)
LEMMA Outline ==
  ASSUME [Next]_vars
  PROVE  \/ \E t \in Token, a \in Account : IssueHandoff(t, a)
         \/ \E t \in Token : Expire(t)
         \/ \E a \in Account : Suspend(a)
         \/ \E r \in Redeemer, t \in Token, c \in Chat : FindToken(r, t, c)
         \/ \E r \in Redeemer : DeleteExpired(r)
         \/ \E r \in Redeemer, what \in {"chat", "account"} : PreCheck(r, what)
         \/ \E r \in Redeemer : Claim(r) \/ Bind(r) \/ RestoreToken(r)
         \/ \E r \in Redeemer : QueryFails(r) \/ AnswerLost(r)
         \/ Crash
         \/ UNCHANGED vars
BY DEF Next

-----------------------------------------------------------------------------
(* Types *)

(* A call in progress presents a token that has been issued, and so does   *)
(* every row: what upsertTenant and the restore need.                      *)
Presenting ==
  /\ \A t \in stored : issuedTo[t] \in Account
  /\ \A r \in Redeemer : redeem[r].step # "idle" =>
       /\ redeem[r].token \in Token
       /\ redeem[r].chat \in Chat
       /\ issuedTo[redeem[r].token] \in Account

Typed == TypeOK /\ Presenting

LEMMA IdleCall == Idle \in Call /\ Idle.step = "idle" /\ Idle.banned = FALSE /\ Idle.token = None
BY DEF Idle, Call

(* What one call becomes                                                   *)
LEMMA Called ==
  ASSUME TypeOK, NEW r \in Redeemer, NEW call \in Call
  PROVE  [redeem EXCEPT ![r] = call] \in [Redeemer -> Call]
BY DEF TypeOK

LEMMA Moved ==
  ASSUME TypeOK, NEW r \in Redeemer,
         NEW step \in {"idle", "expire", "check", "claim", "bind", "restore"}, GoTo(r, step)
  PROVE  /\ redeem' \in [Redeemer -> Call]
         /\ redeem'[r] = [redeem[r] EXCEPT !.step = step]
         /\ \A q \in Redeemer \ {r} : redeem'[q] = redeem[q]
<1>1. redeem \in [Redeemer -> Call] /\ redeem[r] \in Call
  BY DEF TypeOK
<1>2. [redeem[r] EXCEPT !.step = step] \in Call
  BY <1>1 DEF Call
<1>3. redeem' = [redeem EXCEPT ![r] = [redeem[r] EXCEPT !.step = step]]
  BY DEF GoTo
<1> QED BY <1>1, <1>2, <1>3

LEMMA Returned ==
  ASSUME TypeOK, NEW r \in Redeemer, Return(r)
  PROVE  /\ redeem' \in [Redeemer -> Call]
         /\ redeem'[r] = Idle
         /\ \A q \in Redeemer \ {r} : redeem'[q] = redeem[q]
BY IdleCall DEF TypeOK, Return

LEMMA Found ==
  ASSUME TypeOK, NEW r \in Redeemer, NEW t \in Token, NEW c \in Chat, FindToken(r, t, c)
  PROVE  /\ redeem' \in [Redeemer -> Call]
         /\ redeem'[r].step \in {"expire", "check"}
         /\ redeem'[r].token = t
         /\ redeem'[r].chat = c
         /\ redeem'[r].read = {}
         /\ redeem'[r].banned = (tenants[issuedTo[t]].status = "SUSPENDED")
         /\ \A q \in Redeemer \ {r} : redeem'[q] = redeem[q]
<1> DEFINE call == [step |-> IF t \in expired THEN "expire" ELSE "check", token |-> t, chat |-> c,
                    read |-> {}, banned |-> tenants[issuedTo[t]].status = "SUSPENDED"]
<1>1. redeem \in [Redeemer -> Call]
  BY DEF TypeOK
<1>2. call \in Call
  BY DEF Call
<1>3. redeem' = [redeem EXCEPT ![r] = call]
  BY DEF FindToken
<1>4. redeem'[r] = call /\ redeem' \in [Redeemer -> Call]
       /\ \A q \in Redeemer \ {r} : redeem'[q] = redeem[q]
  BY <1>1, <1>2, <1>3
<1> QED BY <1>4

LEMMA Checked ==
  ASSUME TypeOK, NEW r \in Redeemer, NEW what \in {"chat", "account"}, PreCheck(r, what),
         ~Return(r)
  PROVE  /\ redeem' \in [Redeemer -> Call]
         /\ redeem'[r].step = (IF redeem[r].read = {} THEN "check" ELSE "claim")
         /\ redeem'[r].token = redeem[r].token
         /\ redeem'[r].chat = redeem[r].chat
         /\ redeem'[r].read = redeem[r].read \cup {what}
         /\ redeem'[r].banned = redeem[r].banned
         /\ \A q \in Redeemer \ {r} : redeem'[q] = redeem[q]
<1> DEFINE call == [redeem[r] EXCEPT !.read = redeem[r].read \cup {what},
                                     !.step = IF redeem[r].read = {} THEN "check" ELSE "claim"]
<1>1. redeem \in [Redeemer -> Call] /\ redeem[r] \in Call
  BY DEF TypeOK
<1>2. call \in Call
  BY <1>1 DEF Call
<1>3. redeem' = [redeem EXCEPT ![r] = call]
  BY <1>1 DEF PreCheck, At, Call
<1>4. redeem'[r] = call /\ redeem' \in [Redeemer -> Call]
       /\ \A q \in Redeemer \ {r} : redeem'[q] = redeem[q]
  BY <1>1, <1>2, <1>3
<1>5. /\ call.step = (IF redeem[r].read = {} THEN "check" ELSE "claim")
      /\ call.token = redeem[r].token
      /\ call.chat = redeem[r].chat
      /\ call.read = redeem[r].read \cup {what}
      /\ call.banned = redeem[r].banned
  BY <1>1 DEF Call
<1> QED BY <1>4, <1>5

(* A call keeps its token and chat until it returns.                       *)
Continues(r) ==
  /\ redeem' \in [Redeemer -> Call]
  /\ \/ redeem'[r].step = "idle"
     \/ /\ redeem[r].step # "idle"
        /\ redeem'[r].token = redeem[r].token
        /\ redeem'[r].chat = redeem[r].chat
  /\ \A q \in Redeemer \ {r} : redeem'[q] = redeem[q]

LEMMA GoesOn ==
  ASSUME TypeOK, NEW r \in Redeemer
  PROVE  /\ Return(r) => Continues(r)
         /\ \A step \in {"expire", "check", "claim", "bind", "restore"} :
              GoTo(r, step) /\ redeem[r].step # "idle" => Continues(r)
         /\ \A what \in {"chat", "account"} : PreCheck(r, what) => Continues(r)
<1>1. ASSUME Return(r) PROVE Continues(r)
  BY <1>1, Returned, IdleCall DEF Continues
<1>2. ASSUME NEW step \in {"expire", "check", "claim", "bind", "restore"}, GoTo(r, step),
             redeem[r].step # "idle"
      PROVE  Continues(r)
  <2>1. redeem[r] \in Call
    BY DEF TypeOK
  <2>2. /\ redeem' \in [Redeemer -> Call]
        /\ redeem'[r] = [redeem[r] EXCEPT !.step = step]
        /\ \A q \in Redeemer \ {r} : redeem'[q] = redeem[q]
    BY <1>2, Moved
  <2>3. redeem'[r].token = redeem[r].token /\ redeem'[r].chat = redeem[r].chat
    BY <2>1, <2>2 DEF Call
  <2> QED BY <1>2, <2>2, <2>3 DEF Continues
<1>3. ASSUME NEW what \in {"chat", "account"}, PreCheck(r, what) PROVE Continues(r)
  <2>1. CASE Return(r)
    BY <2>1, <1>1
  <2>2. CASE ~Return(r)
    BY <1>3, <2>2, Checked DEF Continues, PreCheck, At
  <2> QED BY <2>1, <2>2
<1> QED BY <1>1, <1>2, <1>3

LEMMA TypedStep ==
  ASSUME HandoffAssumption, Typed, [Next]_vars
  PROVE  Typed'
<1> USE DEF Typed
<1>0. /\ tenants \in [Account -> Tenant] /\ issuedTo \in [Token -> Account \cup {None}]
      /\ redeem \in [Redeemer -> Call] /\ None \notin Token /\ bound \in [Token -> Nat]
      /\ MaxFailures \in Nat /\ failures \in 0..MaxFailures
  BY DEF HandoffAssumption, TypeOK
<1>1. ASSUME NEW t \in Token, NEW a \in Account, IssueHandoff(t, a) PROVE Typed'
  <2>1. /\ issuedTo' \in [Token -> Account \cup {None}]
        /\ \A u \in Token : issuedTo[u] \in Account => issuedTo'[u] \in Account
        /\ \A u \in stored' : issuedTo'[u] \in Account
    BY <1>0, <1>1 DEF IssueHandoff, TypeOK, Presenting
  <2> QED BY <1>0, <1>1, <2>1 DEF IssueHandoff, TypeOK, Presenting
<1>2. ASSUME NEW t \in Token, Expire(t) PROVE Typed'
  BY <1>2 DEF Expire, TypeOK, Presenting
<1>3. ASSUME NEW a \in Account, Suspend(a) PROVE Typed'
  <2>1. tenants' \in [Account -> Tenant]
    BY <1>0, <1>3 DEF Suspend, Tenant
  <2> QED BY <1>3, <2>1 DEF Suspend, TypeOK, Presenting
<1>4. ASSUME NEW r \in Redeemer, NEW t \in Token, NEW c \in Chat, FindToken(r, t, c) PROVE Typed'
  <2>1. issuedTo[t] \in Account
    BY <1>4 DEF FindToken, Presenting
  <2>2. TypeOK'
    BY <1>4, Found DEF FindToken, TypeOK
  <2>3. Presenting'
    BY <1>4, <2>1, Found DEF FindToken, Presenting
  <2> QED BY <2>2, <2>3
<1>5. ASSUME NEW r \in Redeemer, Continues(r), UNCHANGED issuedTo,
             stored' \subseteq stored \cup (IF redeem[r].step = "idle" THEN {} ELSE {redeem[r].token})
      PROVE  Presenting' /\ stored' \subseteq Token
  BY <1>0, <1>5 DEF Continues, Presenting, TypeOK
<1>6. ASSUME NEW r \in Redeemer, DeleteExpired(r) PROVE Typed'
  <2>1. Continues(r)
    BY <1>6, GoesOn DEF DeleteExpired
  <2> QED BY <1>5, <1>6, <2>1 DEF DeleteExpired, TypeOK, Continues
<1>7. ASSUME NEW r \in Redeemer, NEW what \in {"chat", "account"}, PreCheck(r, what) PROVE Typed'
  <2>1. Continues(r)
    BY <1>7, GoesOn
  <2> QED BY <1>5, <1>7, <2>1 DEF PreCheck, TypeOK, Continues
<1>8. ASSUME NEW r \in Redeemer, Claim(r) PROVE Typed'
  <2>1. Continues(r)
    BY <1>8, GoesOn DEF Claim, At
  <2> QED BY <1>5, <1>8, <2>1 DEF Claim, TypeOK, Continues
<1>9. ASSUME NEW r \in Redeemer, redeem[r].step # "idle", Upsert(r)
      PROVE  tenants' \in [Account -> Tenant] /\ bound' \in [Token -> Nat]
  <2>1. redeem[r].token \in Token /\ redeem[r].chat \in Chat /\ issuedTo[redeem[r].token] \in Account
    BY <1>9 DEF Presenting
  <2>2. tenants' \in [Account -> Tenant]
    BY <1>0, <1>9, <2>1 DEF Upsert, AccountOf, Presented, Tenant
  <2>3. bound' \in [Token -> Nat]
    BY <1>0, <1>9, <2>1 DEF Upsert, Presented
  <2> QED BY <2>2, <2>3
<1>10. ASSUME NEW r \in Redeemer, Bind(r) PROVE Typed'
  <2>1. Continues(r)
    BY <1>10, GoesOn DEF Bind, At
  <2>2. tenants' \in [Account -> Tenant] /\ bound' \in [Token -> Nat]
    BY <1>0, <1>9, <1>10 DEF Bind, At
  <2> QED BY <1>5, <1>10, <2>1, <2>2 DEF Bind, TypeOK, Continues
<1>11. ASSUME NEW r \in Redeemer, RestoreToken(r) PROVE Typed'
  <2>1. Continues(r)
    BY <1>11, GoesOn DEF RestoreToken
  <2> QED BY <1>5, <1>11, <2>1 DEF RestoreToken, Restore, Presented, At, TypeOK, Continues
<1>12. ASSUME NEW r \in Redeemer, QueryFails(r) PROVE Typed'
  <2>1. Continues(r)
    BY <1>12, GoesOn DEF QueryFails, At
  <2>2. failures' \in 0..MaxFailures
    BY <1>0, <1>12 DEF QueryFails
  <2>3. burnt' \subseteq Token
    BY <1>12 DEF QueryFails, At, Presented, Presenting, TypeOK
  <2> QED BY <1>5, <1>12, <2>1, <2>2, <2>3 DEF QueryFails, TypeOK, Continues
<1>13. ASSUME NEW r \in Redeemer, AnswerLost(r) PROVE Typed'
  <2>1. Continues(r)
    BY <1>13, GoesOn DEF AnswerLost, At
  <2>2. failures' \in 0..MaxFailures
    BY <1>0, <1>13 DEF AnswerLost
  <2>3. tenants' \in [Account -> Tenant] /\ bound' \in [Token -> Nat]
    BY <1>0, <1>9, <1>13 DEF AnswerLost, At
  <2>4. stored' \subseteq stored
    BY <1>13 DEF AnswerLost
  <2> QED BY <1>5, <1>13, <2>1, <2>2, <2>3, <2>4 DEF AnswerLost, TypeOK, Continues
<1>14. CASE Crash
  <2>1. redeem' \in [Redeemer -> Call] /\ \A r \in Redeemer : redeem'[r] = Idle
    BY <1>14, IdleCall DEF Crash
  <2> QED BY <1>14, <2>1, IdleCall DEF Crash, TypeOK, Presenting
<1>15. CASE UNCHANGED vars
  BY <1>15 DEF vars, TypeOK, Presenting
<1> QED
  BY Outline, <1>1, <1>2, <1>3, <1>4, <1>6, <1>7, <1>8, <1>10, <1>11, <1>12, <1>13, <1>14, <1>15

LEMMA TypedInvariant ==
  ASSUME HandoffAssumption
  PROVE  Spec => []Typed
<1>1. Init => Typed
  BY IdleCall DEF HandoffAssumption, Init, Typed, TypeOK, Presenting, Tenant
<1> QED BY <1>1, TypedStep, PTL DEF Spec

(* Types: every variable keeps its type, and every call presents a token   *)
(* that was issued.                                                        *)
THEOREM TokenTypeOK ==
  ASSUME HandoffAssumption
  PROVE  Spec => []TypeOK
<1>1. Typed => TypeOK
  BY DEF Typed
<1> QED BY <1>1, TypedInvariant, PTL

-----------------------------------------------------------------------------
(* A token binds once *)

(* Whoever has claimed a token, and not yet returned.                      *)
Holds(r) == redeem[r].step \in {"bind", "restore"}

(* A token that can still bind a chat, because it is stored or held, has   *)
(* not done so; only one call can hold it, and then it is not stored.      *)
OnceInv ==
  "lost" \notin env =>
    /\ \A t \in Token : bound[t] \in {0, 1}
    /\ \A t \in Token : t \in stored \/ issuedTo[t] = None => bound[t] = 0
    /\ \A r \in Redeemer : Holds(r) => bound[redeem[r].token] = 0 /\ redeem[r].token \notin stored
    /\ \A r, q \in Redeemer : Holds(r) /\ Holds(q) /\ redeem[r].token = redeem[q].token => r = q

(* Steps that neither bind a token nor bring one back                      *)
LEMMA NothingClaimed ==
  ASSUME Typed, OnceInv, NEW r \in Redeemer, Continues(r), UNCHANGED <<env, issuedTo, bound>>,
         stored' \subseteq stored,
         redeem'[r].step \in {"bind", "restore"} => Holds(r)
  PROVE  OnceInv'
BY DEF OnceInv, Holds, Continues, Typed, TypeOK

LEMMA OnceStep ==
  ASSUME HandoffAssumption, Typed, OnceInv, [Next]_vars
  PROVE  OnceInv'
<1>0. /\ issuedTo \in [Token -> Account \cup {None}] /\ None \notin Account /\ stored \subseteq Token
      /\ redeem \in [Redeemer -> Call] /\ bound \in [Token -> Nat] /\ TypeOK
      /\ Idle.step = "idle"
  BY IdleCall DEF HandoffAssumption, Typed, TypeOK
<1>i. \A r \in Redeemer : redeem[r].step # "idle" =>
        redeem[r].token \in Token /\ issuedTo[redeem[r].token] \in Account
  BY DEF Typed, Presenting
<1>1. ASSUME NEW t \in Token, NEW a \in Account, IssueHandoff(t, a) PROVE OnceInv'
  <2>1. \A r \in Redeemer : Holds(r) => redeem[r].token # t
    BY <1>0, <1>i, <1>1 DEF Holds, IssueHandoff
  <2>2. stored' \subseteq stored \cup {t} /\ UNCHANGED <<env, redeem, bound>>
    BY <1>1 DEF IssueHandoff
  <2>3. issuedTo[t] = None /\ \A u \in Token : issuedTo'[u] = None => issuedTo[u] = None
    BY <1>0, <1>1 DEF IssueHandoff
  <2> QED BY <1>0, <1>i, <2>1, <2>2, <2>3 DEF OnceInv, Holds
<1>2. ASSUME NEW t \in Token, Expire(t) PROVE OnceInv'
  BY <1>2 DEF Expire, OnceInv, Holds
<1>3. ASSUME NEW a \in Account, Suspend(a) PROVE OnceInv'
  BY <1>3 DEF Suspend, OnceInv, Holds
<1>4. ASSUME NEW r \in Redeemer, NEW t \in Token, NEW c \in Chat, FindToken(r, t, c) PROVE OnceInv'
  <2>1. UNCHANGED <<env, stored, issuedTo, bound>>
    BY <1>4 DEF FindToken
  <2>2. /\ redeem'[r].step \in {"expire", "check"}
        /\ \A q \in Redeemer \ {r} : redeem'[q] = redeem[q]
    BY <1>0, <1>4, Found
  <2> QED BY <2>1, <2>2 DEF OnceInv, Holds
<1>5. ASSUME NEW r \in Redeemer, DeleteExpired(r) PROVE OnceInv'
  <2>1. Continues(r) /\ redeem'[r].step = "idle"
    BY <1>0, <1>5, GoesOn, Returned DEF DeleteExpired
  <2> QED BY <1>5, <2>1, NothingClaimed DEF DeleteExpired
<1>6. ASSUME NEW r \in Redeemer, NEW what \in {"chat", "account"}, PreCheck(r, what) PROVE OnceInv'
  <2>1. Continues(r)
    BY <1>0, <1>6, GoesOn
  <2>2. redeem'[r].step \in {"idle", "check", "claim"}
    BY <1>0, <1>6, Checked, Returned
  <2> QED BY <1>6, <2>1, <2>2, NothingClaimed DEF PreCheck
<1>7. ASSUME NEW r \in Redeemer, Claim(r) PROVE OnceInv'
  <2>1. Continues(r)
    BY <1>0, <1>7, GoesOn DEF Claim, At
  <2>2. CASE Return(r)
    BY <1>0, <1>7, <2>1, <2>2, Returned, NothingClaimed DEF Claim
  <2>3. CASE Won(r) /\ GoTo(r, "bind")
    <3>1. /\ redeem[r].token \in stored
          /\ stored' = stored \ {redeem[r].token}
          /\ UNCHANGED <<env, issuedTo, bound>>
      BY <1>7, <2>3 DEF Claim, Won, Presented
    <3>2. redeem'[r].token = redeem[r].token /\ \A q \in Redeemer \ {r} : redeem'[q] = redeem[q]
      <4>1. redeem'[r] = [redeem[r] EXCEPT !.step = "bind"] /\ redeem[r] \in Call
        BY <1>0, <2>3, Moved
      <4> QED BY <2>1, <4>1 DEF Continues, Call
    <3> QED BY <1>0, <3>1, <3>2 DEF OnceInv, Holds
  <2> QED BY <1>7, <2>2, <2>3 DEF Claim
<1>8. ASSUME NEW r \in Redeemer, Bind(r) PROVE OnceInv'
  <2>1. Continues(r) /\ Holds(r)
    BY <1>0, <1>8, GoesOn DEF Bind, At, Holds
  <2>2. CASE Upsert(r) /\ Return(r)
    <3>1. redeem'[r].step = "idle" /\ \A q \in Redeemer \ {r} : redeem'[q] = redeem[q]
      BY <1>0, <2>2, Returned
    <3>2. redeem[r].token \in Token /\ issuedTo[redeem[r].token] \in Account
      BY <1>i, <2>1 DEF Holds
    <3>3. /\ bound'[redeem[r].token] = bound[redeem[r].token] + 1
          /\ \A t \in Token \ {redeem[r].token} : bound'[t] = bound[t]
      BY <1>0, <2>2, <3>2 DEF Upsert, Presented
    <3>4. UNCHANGED <<env, stored, issuedTo>>
      BY <1>8 DEF Bind
    <3>5. \A q \in Redeemer : Holds(q) => redeem[q].token \in Token
      BY <1>i DEF Holds
    <3> QED BY <1>0, <2>1, <3>1, <3>2, <3>3, <3>4, <3>5 DEF OnceInv, Holds
  <2>3. CASE LinkedElsewhere(r) /\ GoTo(r, "restore") /\ UNCHANGED <<tenants, bound>>
    BY <1>8, <2>1, <2>3, NothingClaimed DEF Bind
  <2> QED BY <1>8, <2>2, <2>3 DEF Bind
<1>9. ASSUME NEW r \in Redeemer, RestoreToken(r) PROVE OnceInv'
  <2>1. redeem'[r].step = "idle" /\ \A q \in Redeemer \ {r} : redeem'[q] = redeem[q]
    BY <1>0, <1>9, Returned DEF RestoreToken
  <2>2. /\ stored' = stored \cup {redeem[r].token} /\ UNCHANGED <<env, issuedTo, bound>>
        /\ Holds(r)
    BY <1>9 DEF RestoreToken, Restore, Presented, Holds, At
  <2>3. redeem[r].token \in Token
    BY <1>i, <2>2 DEF Holds
  <2> QED BY <2>1, <2>2, <2>3 DEF OnceInv, Holds
<1>10. ASSUME NEW r \in Redeemer, QueryFails(r) PROVE OnceInv'
  <2>1. Continues(r)
    BY <1>0, <1>10, GoesOn DEF QueryFails, At
  <2>2. redeem'[r].step \in {"bind", "restore"} => Holds(r)
    BY <1>0, <1>10, Returned DEF QueryFails, At, Holds
  <2> QED BY <1>10, <2>1, <2>2, NothingClaimed DEF QueryFails
<1>11. ASSUME NEW r \in Redeemer, AnswerLost(r) PROVE OnceInv'
  BY <1>11 DEF AnswerLost, OnceInv
<1>12. CASE Crash
  BY <1>0, <1>12 DEF Crash, OnceInv, Holds
<1>13. CASE UNCHANGED vars
  BY <1>13 DEF vars, OnceInv, Holds
<1> QED
  BY Outline, <1>1, <1>2, <1>3, <1>4, <1>5, <1>6, <1>7, <1>8, <1>9, <1>10, <1>11, <1>12, <1>13

(* A token lets in one chat, once (redeemHandoff): whoever deletes its row *)
(* is the only one who can bind it or put it back.                         *)
THEOREM OneChatPerToken ==
  ASSUME HandoffAssumption
  PROVE  Spec => []TokenBindsOnce
<1>1. Init => OnceInv
  BY IdleCall DEF Init, OnceInv, Holds
<1>2. OnceInv => TokenBindsOnce
  BY DEF OnceInv, TokenBindsOnce
<1> QED BY <1>1, <1>2, OnceStep, TypedInvariant, PTL DEF Spec

-----------------------------------------------------------------------------
(* A suspended account stays out *)

(* A call made after the suspension finds the account suspended: it never  *)
(* passes the check of the account, and so never gets to the claim.        *)
Barred(r) ==
  /\ redeem[r].step \in {"expire", "check"}
  /\ "account" \notin redeem[r].read
  /\ tenants[issuedTo[redeem[r].token]].status = "SUSPENDED"

BanInv == \A r \in Redeemer : redeem[r].banned => Barred(r)

(* No step lifts a suspension or gives a presented token to somebody else. *)
LEMMA SuspensionStays ==
  ASSUME HandoffAssumption, Typed, [Next]_vars
  PROVE  /\ \A a \in Account : tenants[a].status = "SUSPENDED" => tenants'[a].status = "SUSPENDED"
         /\ \A t \in Token : issuedTo[t] \in Account => issuedTo'[t] = issuedTo[t]
<1>0. /\ tenants \in [Account -> Tenant] /\ issuedTo \in [Token -> Account \cup {None}]
      /\ None \notin Account
  BY DEF HandoffAssumption, Typed, TypeOK
<1>1. ASSUME NEW t \in Token, NEW a \in Account, IssueHandoff(t, a)
      PROVE  UNCHANGED tenants /\ \A u \in Token : issuedTo[u] \in Account => issuedTo'[u] = issuedTo[u]
  BY <1>0, <1>1 DEF IssueHandoff
<1>2. ASSUME NEW a \in Account, Suspend(a)
      PROVE  /\ \A b \in Account : tenants[b].status = "SUSPENDED" => tenants'[b].status = "SUSPENDED"
             /\ UNCHANGED issuedTo
  BY <1>0, <1>2 DEF Suspend, Tenant
<1>3. ASSUME NEW r \in Redeemer, Upsert(r)
      PROVE  \A b \in Account : tenants[b].status = "SUSPENDED" => tenants'[b].status = "SUSPENDED"
  BY <1>0, <1>3 DEF Upsert, Tenant
<1>4. \/ UNCHANGED <<tenants, issuedTo>>
      \/ \E t \in Token, a \in Account : IssueHandoff(t, a)
      \/ \E a \in Account : Suspend(a)
      \/ \E r \in Redeemer : Upsert(r) /\ UNCHANGED issuedTo
  BY Outline DEF vars, Expire, FindToken, DeleteExpired, PreCheck, Claim, Bind, RestoreToken,
                 QueryFails, AnswerLost, Crash
<1> QED BY <1>1, <1>2, <1>3, <1>4

(* What a call that is barred, or one that is not, becomes                 *)
LEMMA StaysBarred ==
  ASSUME HandoffAssumption, Typed, [Next]_vars, NEW r \in Redeemer, Barred(r),
         redeem'[r].step \in {"expire", "check"}, "account" \notin redeem'[r].read,
         redeem'[r].token = redeem[r].token
  PROVE  Barred(r)'
<1>1. redeem[r].token \in Token /\ issuedTo[redeem[r].token] \in Account
  BY DEF Typed, Presenting, Barred
<1> QED BY <1>1, SuspensionStays DEF Barred

LEMMA BanStep ==
  ASSUME HandoffAssumption, Typed, BanInv, [Next]_vars
  PROVE  BanInv'
<1> SUFFICES ASSUME NEW q \in Redeemer, redeem'[q].banned PROVE Barred(q)'
  BY DEF BanInv
<1>0. TypeOK /\ redeem \in [Redeemer -> Call] /\ Idle.banned = FALSE
  BY IdleCall DEF Typed, TypeOK
<1>k. ASSUME redeem'[q] = redeem[q] PROVE Barred(q)'
  <2>1. Barred(q)
    BY <1>k DEF BanInv
  <2> QED BY <1>k, <2>1, StaysBarred DEF Barred
<1>r. \A r \in Redeemer : Return(r) => redeem'[q] = redeem[q]
  <2>1. \A r \in Redeemer : Return(r) => redeem'[r] = Idle /\ \A p \in Redeemer \ {r} : redeem'[p] = redeem[p]
    BY <1>0, Returned
  <2> QED BY <1>0, <2>1
<1>g. ASSUME NEW r \in Redeemer, NEW step \in {"bind", "restore"}, GoTo(r, step),
             redeem[r].step \in {"claim", "bind"}
      PROVE  redeem'[q] = redeem[q]
  <2>1. /\ redeem'[r] = [redeem[r] EXCEPT !.step = step]
        /\ \A p \in Redeemer \ {r} : redeem'[p] = redeem[p]
    <3>1. TypeOK /\ GoTo(r, step)
                 /\ step \in {"idle", "expire", "check", "claim", "bind", "restore"}
      BY <1>0, <1>g
    <3> QED BY <3>1, Moved
  <2>2. redeem[r] \in Call
    BY <1>0
  <2>3. ~redeem[r].banned
    BY <1>g DEF BanInv, Barred
  <2>4. ~redeem'[r].banned
    BY <2>1, <2>2, <2>3 DEF Call
  <2> QED BY <2>1, <2>4
<1>1. ASSUME NEW r \in Redeemer, NEW t \in Token, NEW c \in Chat, FindToken(r, t, c) PROVE Barred(q)'
  <2>1. CASE q = r
    <3>1. /\ redeem'[r].step \in {"expire", "check"}
          /\ redeem'[r].token = t
          /\ redeem'[r].read = {}
          /\ redeem'[r].banned = (tenants[issuedTo[t]].status = "SUSPENDED")
      BY <1>0, <1>1, Found
    <3>2. UNCHANGED <<tenants, issuedTo>>
      BY <1>1 DEF FindToken
    <3> QED BY <2>1, <3>1, <3>2 DEF Barred
  <2>2. CASE q # r
    BY <1>0, <1>1, <1>k, <2>2, Found
  <2> QED BY <2>1, <2>2
<1>2. ASSUME NEW r \in Redeemer, NEW what \in {"chat", "account"}, PreCheck(r, what) PROVE Barred(q)'
  <2>1. CASE Return(r)
    BY <1>k, <1>r, <2>1
  <2>2. CASE ~Return(r)
    <3>1. /\ redeem'[r].step = (IF redeem[r].read = {} THEN "check" ELSE "claim")
          /\ redeem'[r].token = redeem[r].token
          /\ redeem'[r].read = redeem[r].read \cup {what}
          /\ redeem'[r].banned = redeem[r].banned
          /\ \A p \in Redeemer \ {r} : redeem'[p] = redeem[p]
      BY <1>0, <1>2, <2>2, Checked
    <3>2. CASE q # r
      BY <1>k, <3>1, <3>2
    <3>3. CASE q = r
      <4>1. Barred(r)
        BY <3>1, <3>3 DEF BanInv
      <4>2. what = "chat"
        BY <1>2, <2>2, <4>1 DEF PreCheck, MayEnter, AccountOf, Presented, Barred
      <4>3. redeem[r].read \in SUBSET {"chat", "account"} /\ what \notin redeem[r].read
        BY <1>0, <1>2 DEF PreCheck, Call
      <4>4. redeem[r].read = {}
        BY <4>1, <4>2, <4>3 DEF Barred
      <4> QED BY <3>1, <3>3, <4>1, <4>2, <4>4, StaysBarred
    <3> QED BY <3>2, <3>3
  <2> QED BY <2>1, <2>2
<1>3. ASSUME NEW r \in Redeemer, DeleteExpired(r) \/ Claim(r) \/ Bind(r) \/ RestoreToken(r)
      PROVE  redeem'[q] = redeem[q]
  BY <1>3, <1>r, <1>g DEF DeleteExpired, Claim, Bind, RestoreToken, At
<1>4. ASSUME NEW r \in Redeemer, QueryFails(r) \/ AnswerLost(r)
      PROVE  redeem'[q] = redeem[q]
  BY <1>4, <1>r, <1>g DEF QueryFails, AnswerLost, At
<1>5. CASE Crash
  BY <1>0, <1>5 DEF Crash
<1>6. \/ UNCHANGED redeem
      \/ \E r \in Redeemer, t \in Token, c \in Chat : FindToken(r, t, c)
      \/ \E r \in Redeemer, what \in {"chat", "account"} : PreCheck(r, what)
      \/ \E r \in Redeemer : DeleteExpired(r) \/ Claim(r) \/ Bind(r) \/ RestoreToken(r)
      \/ \E r \in Redeemer : QueryFails(r) \/ AnswerLost(r)
      \/ Crash
  BY Outline DEF IssueHandoff, Expire, Suspend, vars
<1> QED BY <1>k, <1>1, <1>2, <1>3, <1>4, <1>5, <1>6

(* No chat is linked to an account by a call made after the account was    *)
(* suspended (redeemHandoff, its pre-checks).                              *)
THEOREM SuspendedAreRefused ==
  ASSUME HandoffAssumption
  PROVE  Spec => SuspendedStaysOut
<1>1. Init => BanInv
  BY IdleCall DEF Init, BanInv
<1>2. ASSUME Typed, BanInv, [Next]_vars
      PROVE  [\A a \in Account :
                tenants'[a].chat # tenants[a].chat
                  => \E r \in Redeemer : At(r, "bind") /\ AccountOf(r) = a /\ ~redeem[r].banned]_vars
  <2>0. tenants \in [Account -> Tenant]
    BY <1>2 DEF Typed, TypeOK
  <2>1. ASSUME NEW a \in Account, tenants'[a].chat # tenants[a].chat
        PROVE  \E r \in Redeemer : At(r, "bind") /\ AccountOf(r) = a /\ ~redeem[r].banned
    <3>1. ASSUME NEW b \in Account, Suspend(b) PROVE FALSE
      <4>1. tenants'[a] = IF a = b THEN [tenants[b] EXCEPT !.status = "SUSPENDED"] ELSE tenants[a]
        BY <2>0, <3>1 DEF Suspend
      <4>2. [tenants[b] EXCEPT !.status = "SUSPENDED"].chat = tenants[b].chat
        BY <2>0 DEF Tenant
      <4>3. CASE a = b
        BY <2>1, <4>1, <4>2, <4>3
      <4>4. CASE a # b
        BY <2>1, <4>1, <4>4
      <4> QED BY <4>3, <4>4
    <3>2. PICK r \in Redeemer : At(r, "bind") /\ Upsert(r)
      BY <1>2, <2>1, <3>1, Outline DEF vars, IssueHandoff, Expire, FindToken, DeleteExpired, PreCheck,
           Claim, Bind, RestoreToken, QueryFails, AnswerLost, Crash
    <3>3. AccountOf(r) = a
      <4>1. SUFFICES ASSUME AccountOf(r) # a PROVE FALSE
        OBVIOUS
      <4>2. tenants'[a] = tenants[a]
        BY <2>0, <3>2, <4>1 DEF Upsert
      <4> QED BY <2>1, <4>2
    <3>4. ~redeem[r].banned
      BY <1>2, <3>2 DEF BanInv, Barred, At
    <3> QED BY <3>2, <3>3, <3>4
  <2>2. \A a \in Account : tenants'[a].chat # tenants[a].chat
          => \E r \in Redeemer : At(r, "bind") /\ AccountOf(r) = a /\ ~redeem[r].banned
    BY <2>1
  <2> QED BY <2>2
<1> QED BY <1>1, <1>2, BanStep, TypedInvariant, PTL DEF Spec, SuspendedStaysOut

-----------------------------------------------------------------------------
(* A token survives a failed call *)

(* A token that has been issued and has let nobody in is in its row, has   *)
(* expired, is held by the call that claimed it, or was burnt by two       *)
(* failures in a row; only expired tokens are deleted otherwise.           *)
Kept(t) == \/ t \in stored \cup expired \cup burnt
           \/ \E r \in Redeemer : Holds(r) /\ redeem[r].token = t

SurviveInv ==
  /\ \A r \in Redeemer : redeem[r].step = "expire" => redeem[r].token \in expired
  /\ env \cap {"lost", "crash"} = {} =>
       \A t \in Token : issuedTo[t] # None /\ bound[t] = 0 => Kept(t)

(* Steps of one call that delete no live row and hold on to what they hold *)
LEMMA HeldStays ==
  ASSUME Typed, SurviveInv, NEW r \in Redeemer, Continues(r),
         UNCHANGED <<env, issuedTo, bound, expired>>,
         stored \subseteq stored' \cup expired, burnt \subseteq burnt',
         redeem'[r].step # "expire" \/ redeem[r].step = "expire",
         Holds(r) => \/ redeem'[r].step \in {"bind", "restore"}
                     \/ redeem[r].token \in stored' \cup burnt'
  PROVE  SurviveInv'
<1>1. /\ \A q \in Redeemer \ {r} : redeem'[q] = redeem[q]
      /\ Holds(r) /\ redeem'[r].step \in {"bind", "restore"} => redeem'[r].token = redeem[r].token
      /\ redeem'[r].step = "expire" => redeem'[r].token = redeem[r].token
  BY DEF Continues
<1>2. \A q \in Redeemer : redeem'[q].step = "expire" => redeem'[q].token \in expired'
  BY <1>1 DEF SurviveInv
<1>3. ASSUME NEW t \in Token, Kept(t) PROVE Kept(t)'
  BY <1>1, <1>3 DEF Kept, Holds
<1> QED BY <1>2, <1>3 DEF SurviveInv

LEMMA SurviveStep ==
  ASSUME HandoffAssumption, Typed, SurviveInv, [Next]_vars
  PROVE  SurviveInv'
<1>0. /\ issuedTo \in [Token -> Account \cup {None}] /\ stored \subseteq Token
      /\ redeem \in [Redeemer -> Call] /\ bound \in [Token -> Nat] /\ TypeOK
      /\ Idle.step = "idle" /\ issuedTo' \in [Token -> Account \cup {None}]
  BY IdleCall, TypedStep DEF Typed, TypeOK
<1>1. ASSUME NEW t \in Token, NEW a \in Account, IssueHandoff(t, a) PROVE SurviveInv'
  <2>1. /\ \A u \in Token \ {t} : issuedTo'[u] = issuedTo[u]
        /\ issuedTo'[t] = issuedTo[t] \/ t \in stored'
        /\ stored \ expired \subseteq stored'
        /\ UNCHANGED <<env, expired, redeem, bound, burnt>>
    BY <1>0, <1>1 DEF IssueHandoff
  <2> QED BY <2>1 DEF SurviveInv, Kept, Holds
<1>2. ASSUME NEW t \in Token, Expire(t) PROVE SurviveInv'
  BY <1>2 DEF Expire, SurviveInv, Kept, Holds
<1>3. ASSUME NEW a \in Account, Suspend(a) PROVE SurviveInv'
  BY <1>3 DEF Suspend, SurviveInv, Kept, Holds
<1>4. ASSUME NEW r \in Redeemer, NEW t \in Token, NEW c \in Chat, FindToken(r, t, c)
      PROVE  SurviveInv'
  <2>1. UNCHANGED <<env, stored, issuedTo, expired, bound, burnt>> /\ ~Holds(r)
        /\ (redeem'[r].step = "expire" => t \in expired)
    <3>1. redeem'[r].step = IF t \in expired THEN "expire" ELSE "check"
      BY <1>0, <1>4 DEF FindToken
    <3> QED BY <1>4, <3>1 DEF FindToken, At, Holds
  <2>2. redeem'[r].token = t /\ \A q \in Redeemer \ {r} : redeem'[q] = redeem[q]
    BY <1>0, <1>4, Found
  <2> QED BY <2>1, <2>2 DEF SurviveInv, Kept, Holds
<1>5. ASSUME NEW r \in Redeemer, DeleteExpired(r) PROVE SurviveInv'
  <2>1. Continues(r) /\ redeem'[r].step = "idle"
    BY <1>0, <1>5, GoesOn, Returned DEF DeleteExpired
  <2>2. redeem[r].token \in expired /\ ~Holds(r)
    BY <1>5 DEF DeleteExpired, At, SurviveInv, Holds
  <2> QED BY <1>5, <2>1, <2>2, HeldStays DEF DeleteExpired, Presented
<1>6. ASSUME NEW r \in Redeemer, NEW what \in {"chat", "account"}, PreCheck(r, what)
      PROVE  SurviveInv'
  <2>1. Continues(r)
    BY <1>0, <1>6, GoesOn
  <2>2. redeem'[r].step \in {"idle", "check", "claim"} /\ ~Holds(r)
    BY <1>0, <1>6, Checked, Returned DEF PreCheck, At, Holds
  <2> QED BY <1>6, <2>1, <2>2, HeldStays DEF PreCheck
<1>7. ASSUME NEW r \in Redeemer, Claim(r) PROVE SurviveInv'
  <2>1. Continues(r) /\ ~Holds(r)
    BY <1>0, <1>7, GoesOn DEF Claim, At, Holds
  <2>2. /\ stored' = stored \ {redeem[r].token}
        /\ UNCHANGED <<env, issuedTo, expired, bound, burnt>>
    BY <1>7 DEF Claim, Presented
  <2>3. CASE ~Won(r) /\ Return(r)
    <3>1. redeem'[r].step = "idle" /\ stored' = stored
      BY <1>0, <2>2, <2>3, Returned DEF Won, Presented
    <3> QED BY <2>1, <2>2, <3>1, HeldStays
  <2>4. CASE Won(r) /\ GoTo(r, "bind")
    <3>1. redeem'[r].step = "bind" /\ redeem'[r].token = redeem[r].token
      <4>1. redeem'[r] = [redeem[r] EXCEPT !.step = "bind"] /\ redeem[r] \in Call
        BY <1>0, <2>4, Moved
      <4> QED BY <4>1 DEF Call
    <3>2. \A q \in Redeemer \ {r} : redeem'[q] = redeem[q]
      BY <2>1 DEF Continues
    <3>3. ASSUME NEW t \in Token, Kept(t) PROVE Kept(t)'
      BY <2>1, <2>2, <3>1, <3>2, <3>3 DEF Kept, Holds
    <3>4. \A q \in Redeemer : redeem'[q].step = "expire" => redeem'[q].token \in expired'
      BY <2>2, <3>1, <3>2 DEF SurviveInv
    <3> QED BY <2>2, <3>3, <3>4 DEF SurviveInv
  <2> QED BY <1>7, <2>3, <2>4 DEF Claim
<1>8. ASSUME NEW r \in Redeemer, Bind(r) PROVE SurviveInv'
  <2>1. Continues(r) /\ redeem[r].step = "bind" /\ redeem[r].token \in Token
    BY <1>0, <1>8, GoesOn DEF Bind, At, Typed, Presenting
  <2>2. UNCHANGED <<env, stored, issuedTo, expired, burnt>>
    BY <1>8 DEF Bind
  <2>3. CASE Upsert(r) /\ Return(r)
    <3>1. redeem'[r].step = "idle" /\ \A q \in Redeemer \ {r} : redeem'[q] = redeem[q]
      BY <1>0, <2>3, Returned
    <3>2. /\ bound'[redeem[r].token] # 0
          /\ \A t \in Token \ {redeem[r].token} : bound'[t] = bound[t]
      BY <1>0, <2>1, <2>3 DEF Upsert, Presented
    <3>3. ASSUME NEW t \in Token \ {redeem[r].token}, Kept(t) PROVE Kept(t)'
      BY <2>2, <3>1, <3>3 DEF Kept, Holds
    <3>4. \A q \in Redeemer : redeem'[q].step = "expire" => redeem'[q].token \in expired'
      BY <2>2, <3>1 DEF SurviveInv
    <3> QED BY <2>2, <3>2, <3>3, <3>4 DEF SurviveInv
  <2>4. CASE LinkedElsewhere(r) /\ GoTo(r, "restore") /\ UNCHANGED <<tenants, bound>>
    <3>1. redeem'[r].step = "restore"
      <4>1. redeem'[r] = [redeem[r] EXCEPT !.step = "restore"] /\ redeem[r] \in Call
        BY <1>0, <2>4, Moved
      <4> QED BY <4>1 DEF Call
    <3> QED BY <2>1, <2>2, <2>4, <3>1, HeldStays
  <2> QED BY <1>8, <2>3, <2>4 DEF Bind
<1>9. ASSUME NEW r \in Redeemer, RestoreToken(r) PROVE SurviveInv'
  <2>1. Continues(r) /\ redeem'[r].step = "idle"
    BY <1>0, <1>9, GoesOn, Returned DEF RestoreToken
  <2>2. /\ stored' = stored \cup {redeem[r].token}
        /\ UNCHANGED <<env, issuedTo, expired, bound, burnt>>
    BY <1>9 DEF RestoreToken, Restore, Presented
  <2> QED BY <2>1, <2>2, HeldStays
<1>10. ASSUME NEW r \in Redeemer, QueryFails(r) PROVE SurviveInv'
  <2>1. Continues(r)
    BY <1>0, <1>10, GoesOn DEF QueryFails, At
  <2>2. UNCHANGED <<env, stored, issuedTo, expired, bound>> /\ burnt \subseteq burnt'
    BY <1>10 DEF QueryFails
  <2>3. CASE redeem[r].step \in {"expire", "check", "claim"} /\ Return(r)
    BY <1>0, <2>1, <2>2, <2>3, Returned, HeldStays DEF Holds
  <2>4. CASE At(r, "bind") /\ GoTo(r, "restore")
    <3>1. redeem'[r].step = "restore"
      <4>1. redeem'[r] = [redeem[r] EXCEPT !.step = "restore"] /\ redeem[r] \in Call
        BY <1>0, <2>4, Moved
      <4> QED BY <4>1 DEF Call
    <3> QED BY <2>1, <2>2, <3>1, HeldStays
  <2>5. CASE At(r, "restore") /\ Return(r) /\ burnt' = burnt \cup {Presented(r)}
    BY <1>0, <2>1, <2>2, <2>5, Returned, HeldStays DEF Presented
  <2> QED BY <1>10, <2>3, <2>4, <2>5 DEF QueryFails
<1>11. ASSUME NEW r \in Redeemer, AnswerLost(r) PROVE SurviveInv'
  <2>1. /\ redeem'[r].step # "expire" /\ \A q \in Redeemer \ {r} : redeem'[q] = redeem[q]
        /\ UNCHANGED <<env, expired>> /\ "lost" \in env
    <3>1. Return(r) \/ GoTo(r, "restore")
      BY <1>11 DEF AnswerLost
    <3>2. redeem'[r] \in {Idle, [redeem[r] EXCEPT !.step = "restore"]} /\ redeem[r] \in Call
          /\ \A q \in Redeemer \ {r} : redeem'[q] = redeem[q]
      BY <1>0, <3>1, Returned, Moved
    <3>3. redeem'[r].step # "expire"
      BY <1>0, <3>2 DEF Call
    <3> QED BY <1>11, <3>2, <3>3 DEF AnswerLost
  <2> QED BY <2>1 DEF SurviveInv
<1>12. CASE Crash
  <2>1. UNCHANGED env /\ "crash" \in env /\ \A r \in Redeemer : redeem'[r].step = "idle"
    BY <1>0, <1>12 DEF Crash
  <2> QED BY <2>1 DEF SurviveInv
<1>13. CASE UNCHANGED vars
  BY <1>13 DEF vars, SurviveInv, Kept, Holds
<1> QED
  BY Outline, <1>1, <1>2, <1>3, <1>4, <1>5, <1>6, <1>7, <1>8, <1>9, <1>10, <1>11, <1>12, <1>13

(* A token that let nobody in stays usable until it expires, unless both   *)
(* its upsert and its restore failed (redeemHandoff): nothing between the  *)
(* claim and the restore loses it while the process lives and answers      *)
(* arrive.                                                                 *)
THEOREM FailedCallsKeepTokens ==
  ASSUME HandoffAssumption
  PROVE  Spec => []TokensSurvive
<1>1. Init => SurviveInv
  BY IdleCall DEF Init, SurviveInv
<1>2. SurviveInv => TokensSurvive
  BY DEF SurviveInv, Kept, TokensSurvive, Presented
<1> QED BY <1>1, <1>2, SurviveStep, TypedInvariant, PTL DEF Spec

=============================================================================
