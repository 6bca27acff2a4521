---------------------------- MODULE SessionProofs ----------------------------
(***************************************************************************)
(* Theorems about Session: for any number of requests, logins, attempts    *)
(* and faults.                                                             *)
(*                                                                         *)
(* The argument is about what the holder of a token knows of the server.   *)
(* A process that refreshes holds the token it refreshes (RefreshHeld); a  *)
(* token that was once given out (Issued) and is rejected stays rejected   *)
(* (RejectionIsFinal), so what a request was told is still true when its   *)
(* answer is read (Rejected); and as long as nothing from outside harms    *)
(* the session, the engine's token is the one the server takes (SignedIn). *)
(***************************************************************************)
EXTENDS Session, TLAPS

Askers == Requests \union Procs

(* The refresh of a process is under way. *)
Refreshing(p) == req[p].pc \notin {"over", "storing"}

(* A command other than setup makes no requests, and each step of a login  *)
(* finds what the step before it left.                                     *)
Commanded ==
    /\ cmd # "setup" => \A x \in Askers : Own(x) = "command" => req[x].pc = "over"
    /\ cmd = "web" => key["command"] # None
    /\ cmd = "password" => info["command"] # None

(* What bounds the attempts of a request. *)
Bounded ==
    \A x \in Askers :
        /\ req[x].pc = "throttled" => req[x].attempt < 2 * MaxAttempts
        /\ req[x].pc = "backoff" => req[x].attempt < MaxAttempts
        /\ req[x].pc = "refreshing" => req[x].refreshed
        /\ ~req[x].refreshed \/ req[x].pc = "refreshing"
             => req[x].attempt <= 2 * MaxAttempts

RefreshHeld ==
    \A p \in Procs : Refreshing(p) => info[p] # None /\ req[p].token = info[p]

(* The server gave this token out, and perhaps others since. *)
Issued(t) ==
    t # None => /\ t.gen <= server[t.login].gen
                /\ server[t.login].live \/ server[t.login].gen > 0

AllIssued ==
    /\ \A p \in Procs :
          /\ Issued(info[p])
          /\ job[p].value # None => Issued(job[p].value.info)
          /\ saving[p] # None => Issued(saving[p].info)
          /\ Answered(p, "ok") => Issued(Renewed(req[p].token))
    /\ \A x \in Askers : Issued(req[x].token)
    /\ store # None => Issued(store.info)
    /\ cmd = "web" => Issued([login |-> key["command"], gen |-> 0])

(* What the server said of a request's token is still so. *)
Rejected ==
    \A r \in Requests :
        /\ Answered(r, "unauthorized") => ~Accepts(req[r].token)
        /\ req[r].pc \in {"sent", "answered"} /\ req[r].token = None
             => info[Owner[r]] = None

(* A request that may still be sent again has not taken effect. *)
Unapplied ==
    \A r \in Requests \ Idempotent :
        /\ applied[r] <= 1
        /\ \/ req[r].pc \in {"ready", "gated", "sent", "refreshing", "throttled"}
           \/ Answered(r, "unauthorized") \/ Answered(r, "throttled")
           => applied[r] = 0
        /\ req[r].pc # "backoff"

(* The engine has the token the server takes, or the answer that renews it *)
(* is there to be read; the store has it, or is being told.                *)
SignedIn ==
    LET t == info["engine"]
        q == req["engine"]
    IN
    /\ cmd \in {"off", "setup"}
    /\ t # None /\ key["engine"] # None /\ status["engine"] = "logged_in"
    /\ q.answer # "refused"
    /\ q.answer = "ok" => q.pc \in {"answered", "storing"}
    /\ Refreshable(IF Answered("engine", "ok") THEN Renewed(t) ELSE t)
    /\ IF q.pc = "storing"
       THEN job["engine"].op = "set" /\ job["engine"].value # None
            /\ job["engine"].value.info = t
       ELSE job["engine"] = NoJob /\ store # None /\ store.info = t

Inv ==
    /\ TypeOK
    /\ Commanded /\ Bounded /\ RefreshHeld
    /\ AllIssued /\ Rejected /\ Unapplied
    /\ harmed \/ SignedIn

-----------------------------------------------------------------------------
(* Records of requests. *)
LEMMA RequestKept ==
    ASSUME NEW q \in Request
    PROVE  /\ \A c \in Pending \union {"over"} : [q EXCEPT !.pc = c] \in Request
           /\ \A t \in Token \union {None} : [q EXCEPT !.token = t] \in Request
           /\ \A b \in BOOLEAN : [q EXCEPT !.refreshed = b] \in Request
           /\ \A a \in Answers \union {None} :
                 [q EXCEPT !.answer = a] \in Request
    BY DEF Request

(* What a request that is sent again keeps. *)
LEMMA RequestAgain ==
    ASSUME NEW q \in Request, q.attempt <= 2 * MaxAttempts
    PROVE  /\ Again(q) \in Request
           /\ Again(q).pc = "ready" /\ Again(q).answer = None
           /\ Again(q).token = q.token /\ Again(q).refreshed = q.refreshed
           /\ Again(q).attempt = q.attempt + 1
<1>1. MaxAttempts \in Nat /\ q.attempt \in 1..(2 * MaxAttempts + 1)
    BY SessionAssumption DEF Request
<1>2. q.attempt + 1 \in 1..(2 * MaxAttempts + 1)
    BY <1>1
<1> QED
    BY <1>2 DEF Request, Pending, Again

(* Requests that are over, and those that begin. *)
LEMMA RequestNew ==
    /\ Over \in Request /\ Fresh \in Request
    /\ Over.pc = "over" /\ Over.answer = None /\ Over.attempt = 1 /\ ~Over.refreshed
    /\ Over.token = None
    /\ Fresh.pc = "ready" /\ Fresh.answer = None /\ Fresh.attempt = 1 /\ ~Fresh.refreshed
    /\ Fresh.token = None
    /\ \A t \in Token \union {None} :
          /\ [Fresh EXCEPT !.token = t] \in Request
          /\ [Fresh EXCEPT !.token = t].token = t
          /\ [Fresh EXCEPT !.token = t].pc = "ready"
<1>1. MaxAttempts \in Nat \ {0}
    BY SessionAssumption
<1>2. 1 \in 1..(2 * MaxAttempts + 1)
    BY <1>1
<1> QED
    BY <1>2 DEF Over, Fresh, Request, Pending

(* Whose the requests are. *)
LEMMA Owned ==
    /\ \A x \in Askers : Own(x) \in Procs
    /\ \A p \in Procs : Own(p) = p /\ p \in Askers /\ p \notin Requests /\ p \notin Idempotent
    /\ \A r \in Requests : Own(r) = Owner[r] /\ r \in Askers /\ r \notin Procs
    BY SessionAssumption DEF Own, Askers

(* What Settled() and Ended() make of the requests. *)
LEMMA SettledRequests ==
    ASSUME req \in [Askers -> Request], Bounded, NEW p \in Procs, NEW b \in {"renewed", "failed"}
    PROVE  /\ Settled(p, b) \in [Askers -> Request]
           /\ Settled(p, b)[p] = Over
           /\ \A x \in Waiting(p) :
                 /\ x \in Requests /\ x # p /\ Owner[x] = p /\ req[x].pc = "refreshing"
                 /\ b = "renewed" => Settled(p, b)[x] = Again(req[x])
                 /\ b = "failed" => Settled(p, b)[x] = Over
           /\ \A x \in Askers \ Waiting(p) : x # p => Settled(p, b)[x] = req[x]
<1>1. \A x \in Waiting(p) : /\ x \in Requests /\ x \in Askers /\ x # p
                            /\ Owner[x] = p /\ req[x].pc = "refreshing"
    BY Owned DEF Waiting
<1>2. \A x \in Waiting(p) : Again(req[x]) \in Request
    BY <1>1, RequestAgain DEF Bounded
<1>3. DOMAIN req = Askers /\ p \in Askers
    BY Owned
<1> HIDE DEF Waiting
<1>4. Settled(p, b) = [x \in Askers |-> IF x = p THEN Over
                                      ELSE IF x \notin Waiting(p) THEN req[x]
                                      ELSE IF b = "renewed" THEN Again(req[x]) ELSE Over]
    BY <1>3 DEF Settled
<1> QED
    BY <1>1, <1>2, <1>3, <1>4, RequestNew

LEMMA EndedRequests ==
    ASSUME req \in [Askers -> Request], Bounded, NEW x \in Askers
    PROVE  /\ Ended(x) \in [Askers -> Request]
           /\ x \in Requests => Ended(x) = [req EXCEPT ![x] = Over]
           /\ x \in Procs => Ended(x) = Settled(x, "failed")
    BY RequestNew, SettledRequests, Owned DEF Ended

-----------------------------------------------------------------------------
(* Every step keeps the types. *)
LEMMA RequestStep ==
    ASSUME Inv, [Next]_vars
    PROVE  req' \in [Askers -> Request]
<1> USE Owned, RequestNew DEF Answer
<1>0. /\ req \in [Askers -> Request] /\ Bounded
      /\ info \in [Procs -> Token \union {None}]
      /\ \A x \in Askers : req[x] \in Request
      /\ MaxAttempts \in Nat \ {0}
    BY SessionAssumption DEF Inv, TypeOK, Askers
<1>1. ASSUME NEW x \in Requests \union Procs,
            \/ Sends(x) \/ Succeeds(x) \/ Unauthorized(x) \/ Throttled(x)
            \/ ThrottleOver(x) \/ Failed(x) \/ BackoffOver(x) \/ ServerAccepts(x)
            \/ ServerRejects(x) \/ ServerThrottles(x) \/ AnswerFails(x)
     PROVE  req' \in [Askers -> Request]
  <2>1. CASE Sends(x)
    <3>1. CASE req' = [req EXCEPT ![x].pc = "gated"]
      BY <1>0, <1>1, <3>1, RequestKept DEF Pending, Answers
    <3>2. CASE req' = [req EXCEPT ![x].pc = "sent",
                                  ![x].token = IF x \in Procs THEN @ ELSE info[Own(x)]]
      <4>1. (IF x \in Procs THEN req[x].token ELSE info[Own(x)]) \in Token \union {None}
        BY <1>0, <1>1 DEF Request
      <4>2. PICK t \in Token \union {None} : t = IF x \in Procs THEN req[x].token ELSE info[Own(x)]
        BY <4>1
      <4>3. [[req[x] EXCEPT !.pc = "sent"] EXCEPT !.token = t] \in Request
        BY <1>0, <1>1, RequestKept DEF Pending, Answers
      <4> QED BY <1>0, <1>1, <3>2, <4>2, <4>3
    <3> QED BY <2>1, <3>1, <3>2 DEF Sends
  <2>2. CASE Succeeds(x)
    BY <1>0, <1>1, <2>2, EndedRequests DEF Succeeds
  <2>3. CASE Unauthorized(x)
    <3> DEFINE joined == [req EXCEPT ![x].pc = "refreshing", ![x].refreshed = TRUE]
    <3>1. joined \in [Askers -> Request]
      <4>1. [req[x] EXCEPT !.pc = "refreshing"] \in Request
        BY <1>0, <1>1, RequestKept DEF Pending, Answers
      <4>2. [[req[x] EXCEPT !.pc = "refreshing"] EXCEPT !.refreshed = TRUE] \in Request
        BY <4>1, RequestKept
      <4> QED BY <1>0, <1>1, <4>2
    <3>2. CASE req' = Ended(x)
      BY <1>0, <1>1, <3>2, EndedRequests
    <3>3. CASE /\ ~req[x].refreshed
               /\ req' = [req EXCEPT ![x] = [Again(@) EXCEPT !.refreshed = TRUE]]
      <4>1. Again(req[x]) \in Request
        BY <1>0, <1>1, <3>3, RequestAgain DEF Bounded
      <4>2. [Again(req[x]) EXCEPT !.refreshed = TRUE] \in Request
        BY <4>1, RequestKept
      <4> QED BY <1>0, <1>1, <3>3, <4>2
    <3>4. CASE req' = joined
      BY <3>1, <3>4
    <3>5. CASE /\ x \in Requests
               /\ req' = [joined EXCEPT ![Owner[x]] = [Fresh EXCEPT !.token = info[Owner[x]]]]
      <4> HIDE DEF joined
      <4> QED BY <1>0, <1>1, <3>1, <3>5
    <3> QED BY <2>3, <3>2, <3>3, <3>4, <3>5 DEF Unauthorized
  <2>4. CASE Throttled(x)
    <3>1. CASE req' = Ended(x)
      BY <1>0, <1>1, <3>1, EndedRequests
    <3>2. CASE req' = [req EXCEPT ![x].pc = "throttled"]
      BY <1>0, <1>1, <3>2, RequestKept DEF Pending, Answers
    <3> QED BY <2>4, <3>1, <3>2 DEF Throttled
  <2>5. CASE ThrottleOver(x)
    <3>1. Again(req[x]) \in Request
      BY <1>0, <1>1, <2>5, RequestAgain DEF ThrottleOver, Bounded, Request
    <3> QED BY <1>0, <1>1, <2>5, <3>1 DEF ThrottleOver
  <2>6. CASE Failed(x)
    <3>1. CASE req' = Ended(x)
      BY <1>0, <1>1, <3>1, EndedRequests
    <3>2. CASE req' = [req EXCEPT ![x].pc = "backoff"]
      BY <1>0, <1>1, <3>2, RequestKept DEF Pending, Answers
    <3> QED BY <2>6, <3>1, <3>2 DEF Failed
  <2>7. CASE BackoffOver(x)
    <3>1. req[x].attempt <= 2 * MaxAttempts
      BY <1>0, <1>1, <2>7 DEF BackoffOver, Bounded, Request
    <3>2. Again(req[x]) \in Request
      BY <1>0, <1>1, <3>1, RequestAgain
    <3> QED BY <1>0, <1>1, <2>7, <3>2 DEF BackoffOver
  <2>8. CASE ServerAccepts(x)
    <3>1. PICK a \in {"ok", "refused", "unauthorized", "throttled", "failed"} :
              req' = [req EXCEPT ![x].pc = "answered", ![x].answer = a]
      BY <2>8 DEF ServerAccepts
    <3> QED BY <1>0, <1>1, <3>1, RequestKept DEF Pending, Answers
  <2>9. CASE ServerRejects(x)
    <3>1. PICK a \in {"ok", "refused", "unauthorized", "throttled", "failed"} :
              req' = [req EXCEPT ![x].pc = "answered", ![x].answer = a]
      BY <2>9 DEF ServerRejects
    <3> QED BY <1>0, <1>1, <3>1, RequestKept DEF Pending, Answers
  <2>10. CASE ServerThrottles(x)
    <3>1. PICK a \in {"ok", "refused", "unauthorized", "throttled", "failed"} :
              req' = [req EXCEPT ![x].pc = "answered", ![x].answer = a]
      BY <2>10 DEF ServerThrottles
    <3> QED BY <1>0, <1>1, <3>1, RequestKept DEF Pending, Answers
  <2>11. CASE AnswerFails(x)
    <3>1. PICK a \in {"ok", "refused", "unauthorized", "throttled", "failed"} :
              req' = [req EXCEPT ![x].pc = "answered", ![x].answer = a]
      BY <2>11 DEF AnswerFails
    <3> QED BY <1>0, <1>1, <3>1, RequestKept DEF Pending, Answers
  <2> QED BY <2>1, <2>2, <2>3, <2>4, <2>5, <2>6, <2>7, <2>8, <2>9, <2>10, <2>11, <1>1
<1>2. ASSUME NEW r \in Requests,
            Begins(r)
     PROVE  req' \in [Askers -> Request]
  <2>1. CASE Begins(r)
    BY <1>0, <1>2, <2>1 DEF Begins, client, Ends
  <2> QED BY <2>1, <1>2
<1>3. ASSUME NEW p \in Procs,
            \/ RefreshGiven(p) \/ RefreshRefused(p) \/ StoreDone(p) \/ StoreFails(p)
            \/ GetCachePassword(p) \/ CachePasswordSaved(p)
     PROVE  req' \in [Askers -> Request]
  <2>1. CASE RefreshGiven(p)
    <3>1. CASE req' = Settled(p, "renewed")
      BY <1>0, <1>3, <3>1, SettledRequests
    <3>2. CASE req' = [req EXCEPT ![p].pc = "storing"]
      BY <1>0, <1>3, <3>2, RequestKept DEF Pending, Answers
    <3> QED BY <2>1, <3>1, <3>2 DEF RefreshGiven
  <2>2. CASE RefreshRefused(p)
    BY <1>0, <1>3, <2>2, RequestKept DEF RefreshRefused, Pending
  <2>3. CASE StoreDone(p)
    BY <1>0, <1>3, <2>3, SettledRequests DEF StoreDone
  <2>4. CASE StoreFails(p)
    BY <1>0, <1>3, <2>4, SettledRequests DEF StoreFails
  <2>5. CASE GetCachePassword(p)
    BY <1>0, <1>3, <2>5 DEF GetCachePassword, client, Ends
  <2>6. CASE CachePasswordSaved(p)
    BY <1>0, <1>3, <2>6 DEF CachePasswordSaved, client, Ends
  <2> QED BY <2>1, <2>2, <2>3, <2>4, <2>5, <2>6, <1>3
<1>4. ASSUME \/ Expires \/ Revoked \/ EngineRestarts \/ CommandStarts
           \/ CommandEnds \/ WebApproved \/ WebSession \/ PasswordAccepted
           \/ PasswordEnds \/ LogsOut \/ CommandStored \/ CommandStoreFails
     PROVE  req' \in [Askers -> Request]
  <2>1. CASE Expires
    BY <1>0, <1>4, <2>1 DEF Expires, client, Ends
  <2>2. CASE Revoked
    BY <1>0, <1>4, <2>2 DEF Revoked, client, Ends
  <2>3. CASE EngineRestarts
    BY <1>0, <1>4, <2>3 DEF EngineRestarts, client, Ends
  <2>4. CASE CommandStarts
    BY <1>0, <1>4, <2>4 DEF CommandStarts, client, Ends
  <2>5. CASE CommandEnds
    BY <1>0, <1>4, <2>5 DEF CommandEnds, client, Ends
  <2>6. CASE WebApproved
    BY <1>0, <1>4, <2>6 DEF WebApproved, client, Ends
  <2>7. CASE WebSession
    BY <1>0, <1>4, <2>7 DEF WebSession, client, Ends
  <2>8. CASE PasswordAccepted
    BY <1>0, <1>4, <2>8 DEF PasswordAccepted, client, Ends
  <2>9. CASE PasswordEnds
    BY <1>0, <1>4, <2>9 DEF PasswordEnds, client, Ends
  <2>10. CASE LogsOut
    BY <1>0, <1>4, <2>10 DEF LogsOut, client, Ends
  <2>11. CASE CommandStored
    BY <1>0, <1>4, <2>11 DEF CommandStored, client, Ends
  <2>12. CASE CommandStoreFails
    BY <1>0, <1>4, <2>12 DEF CommandStoreFails, client, Ends
  <2> QED BY <2>1, <2>2, <2>3, <2>4, <2>5, <2>6, <2>7, <2>8, <2>9, <2>10, <2>11, <2>12, <1>4
<1>5. CASE UNCHANGED vars
  BY <1>0, <1>5 DEF vars, client, Ends
<1> QED BY <1>1, <1>2, <1>3, <1>4, <1>5 DEF Next, ClientStep, ServerStep, RefreshStep, LoginStep
-----------------------------------------------------------------------------
(* What a process stores. *)
LEMMA StoredMade ==
    ASSUME TypeOK, NEW p \in Procs
    PROVE  /\ key[p] # None => \A t \in Token : [Persisted(p) EXCEPT !.info = t] \in Stored
           /\ info[p] # None => \A l \in Logins : [Persisted(p) EXCEPT !.key = l] \in Stored
           /\ key[p] # None /\ info[p] # None => [Persisted(p) EXCEPT !.cached = TRUE] \in Stored
    BY DEF TypeOK, Persisted, Stored

(* What a process loads from the store. *)
LEMMA LoadedTypes ==
    ASSUME TypeOK, NEW p \in Procs, NEW s \in Stored \union {None}, Loads(p, s)
    PROVE  /\ info' \in [Procs -> Token \union {None}]
           /\ key' \in [Procs -> Logins \union {None}]
           /\ cached' \in [Procs -> BOOLEAN]
           /\ status' \in [Procs -> {"logged_in", "needs_login"}]
<1>1. s # None => s.info \in Token /\ s.key \in Logins /\ s.cached \in BOOLEAN
    BY DEF Stored
<1> QED
    BY <1>1 DEF TypeOK, Loads

(* What the server makes of an account. *)
LEMMA AccountKept ==
    ASSUME NEW a \in Account
    PROVE  /\ Opened(a) \in Account /\ Opened(a).gen = a.gen /\ Opened(a).live
           /\ Expired(a) \in Account /\ Expired(a).gen = a.gen
           /\ Expired(a).live = a.live /\ ~Expired(a).fresh
           /\ Spent(a) \in Account /\ Spent(a).gen = a.gen + 1 /\ Spent(a).live = a.live
           /\ Closed(a) \in Account /\ Closed(a).gen = a.gen + 1 /\ ~Closed(a).live
<1>1. a.gen + 1 \in Nat
    BY DEF Account
<1> QED
    BY <1>1 DEF Account, Opened, Expired, Spent, Closed

(* A refresh that takes effect. *)
LEMMA EffectTypes ==
    ASSUME TypeOK, NEW p \in Procs, TakesEffect(p)
    PROVE  /\ req[p].token \in Token /\ UNCHANGED applied
           /\ server' = [server EXCEPT ![req[p].token.login] = Spent(@)]
           /\ server' \in [Logins -> Account]
<1>1. req[p].token \in Token /\ req[p].token.login \in Logins
  <2>1. req[p].token \in Token \union {None} /\ req[p].token # None
    BY DEF TypeOK, TakesEffect, Refreshable, Request
  <2> QED BY <2>1 DEF Token
<1>2. /\ server' = [server EXCEPT ![req[p].token.login] = Spent(@)]
      /\ UNCHANGED applied
  BY DEF TakesEffect
<1>3. server[req[p].token.login] \in Account
  BY <1>1 DEF TypeOK
<1>4. Spent(server[req[p].token.login]) \in Account
  BY <1>3, AccountKept
<1>5. server \in [Logins -> Account]
  BY DEF TypeOK
<1>6. server' \in [Logins -> Account]
  BY <1>1, <1>2, <1>4, <1>5
<1> QED BY <1>1, <1>2, <1>6

LEMMA TypeStep ==
    ASSUME Inv, [Next]_vars
    PROVE  TypeOK'
<1> USE DEF TypeOK, credentials, client, writes, LoginSteps
<1>0. /\ TypeOK /\ Commanded /\ RefreshHeld
      /\ req' \in [Askers -> Request] /\ req' \in [Requests \union Procs -> Request]
      /\ \A x \in Requests \union Procs : Own(x) \in Procs
      /\ \A x \in Requests : x \notin Procs
      /\ "command" \in Procs /\ "engine" \in Procs
  <2>1. req' \in [Askers -> Request]
    BY RequestStep
  <2> QED BY <2>1, Owned DEF Inv, Askers, Procs
<1>1. ASSUME NEW x \in Requests \union Procs,
            \/ Sends(x) \/ Succeeds(x) \/ Unauthorized(x) \/ Throttled(x)
            \/ ThrottleOver(x) \/ Failed(x) \/ BackoffOver(x) \/ ServerAccepts(x)
            \/ ServerRejects(x) \/ ServerThrottles(x) \/ AnswerFails(x)
     PROVE  TypeOK'
  <2>1. CASE Sends(x)
    BY <1>0, <1>1, <2>1 DEF Sends
  <2>2. CASE Succeeds(x)
    BY <1>0, <1>1, <2>2 DEF Succeeds
  <2>3. CASE Unauthorized(x)
    BY <1>0, <1>1, <2>3 DEF Unauthorized
  <2>4. CASE Throttled(x)
    BY <1>0, <1>1, <2>4 DEF Throttled
  <2>5. CASE ThrottleOver(x)
    BY <1>0, <1>1, <2>5 DEF ThrottleOver
  <2>6. CASE Failed(x)
    BY <1>0, <1>1, <2>6 DEF Failed
  <2>7. CASE BackoffOver(x)
    BY <1>0, <1>1, <2>7 DEF BackoffOver
  <2>8. CASE ServerAccepts(x)
    <3>1. CASE x \in Procs
      BY <1>0, <2>8, <3>1, EffectTypes DEF ServerAccepts
    <3>2. CASE x \in Requests
      BY <1>0, <3>2, <2>8 DEF ServerAccepts, TakesEffect
    <3> QED BY <1>1, <3>1, <3>2
  <2>9. CASE ServerRejects(x)
    BY <1>0, <1>1, <2>9 DEF ServerRejects
  <2>10. CASE ServerThrottles(x)
    BY <1>0, <1>1, <2>10 DEF ServerThrottles
  <2>11. CASE AnswerFails(x)
    <3>1. CASE x \in Procs /\ TakesEffect(x) /\ harmed' = (harmed \/ x \in Procs)
      BY <1>0, <2>11, <3>1, EffectTypes DEF AnswerFails
    <3>2. CASE x \in Requests /\ TakesEffect(x) /\ harmed' = (harmed \/ x \in Procs)
      BY <1>0, <3>2, <2>11 DEF AnswerFails, TakesEffect
    <3>3. CASE UNCHANGED <<server, applied, harmed>>
      BY <1>0, <1>1, <2>11, <3>3 DEF AnswerFails
    <3> QED BY <1>1, <2>11, <3>1, <3>2, <3>3 DEF AnswerFails
  <2> QED BY <2>1, <2>2, <2>3, <2>4, <2>5, <2>6, <2>7, <2>8, <2>9, <2>10, <2>11, <1>1
<1>2. ASSUME NEW r \in Requests,
            Begins(r)
     PROVE  TypeOK'
  <2>1. CASE Begins(r)
    BY <1>0, <1>2, <2>1 DEF Begins
  <2> QED BY <2>1, <1>2
<1>3. ASSUME NEW p \in Procs,
            \/ RefreshGiven(p) \/ RefreshRefused(p) \/ StoreDone(p) \/ StoreFails(p)
            \/ GetCachePassword(p) \/ CachePasswordSaved(p)
     PROVE  TypeOK'
  <2>1. CASE RefreshGiven(p)
    <3>1. req[p].token \in Token
      BY <1>0, <1>3, <2>1 DEF RefreshGiven, RefreshHeld, Refreshing, Answered
    <3>2. Renewed(req[p].token) \in Token
      BY <3>1 DEF Renewed, Token
    <3>3. key[p] # None => [Persisted(p) EXCEPT !.info = Renewed(req[p].token)] \in Stored
      BY <1>0, <1>3, <3>2, StoredMade
    <3>4. /\ info' = [info EXCEPT ![p] = Renewed(req[p].token)]
          /\ UNCHANGED <<server, applied, store, key, cached, status, gate, saving, cmd, harmed>>
          /\ \/ UNCHANGED job
             \/ /\ key[p] # None
                /\ job' = [job EXCEPT ![p] =
                             Write([Persisted(p) EXCEPT !.info = Renewed(req[p].token)])]
      BY <2>1 DEF RefreshGiven
    <3>5. job' \in [Procs -> Job]
      <4>1. key[p] # None =>
                Write([Persisted(p) EXCEPT !.info = Renewed(req[p].token)]) \in Job
        BY <3>3 DEF Job, Write
      <4> QED BY <1>0, <1>3, <3>4, <4>1
    <3> QED BY <1>0, <1>3, <3>2, <3>4, <3>5
  <2>2. CASE RefreshRefused(p)
    BY <1>0, <1>3, <2>2 DEF RefreshRefused, SignOut, Erase, Job
  <2>3. CASE StoreDone(p)
    BY <1>0, <1>3, <2>3 DEF StoreDone, Notify, NoJob, Job
  <2>4. CASE StoreFails(p)
    BY <1>0, <1>3, <2>4 DEF StoreFails, NoJob, Job
  <2>5. CASE GetCachePassword(p)
    BY <1>0, <1>3, <2>5, StoredMade DEF GetCachePassword, IsLoggedIn
  <2>6. CASE CachePasswordSaved(p)
    BY <1>0, <1>3, <2>6 DEF CachePasswordSaved
  <2> QED BY <2>1, <2>2, <2>3, <2>4, <2>5, <2>6, <1>3
<1>4. ASSUME \/ Expires \/ Revoked \/ EngineRestarts \/ CommandStarts
           \/ CommandEnds \/ WebApproved \/ WebSession \/ PasswordAccepted
           \/ PasswordEnds \/ LogsOut \/ CommandStored \/ CommandStoreFails
     PROVE  TypeOK'
  <2>1. CASE Expires
    <3>1. PICK l \in Logins : server' = [server EXCEPT ![l] = Expired(@)]
      BY <2>1 DEF Expires
    <3> QED BY <1>0, <2>1, <3>1, AccountKept DEF Expires
  <2>2. CASE Revoked
    <3>1. PICK l \in Logins : server' = [server EXCEPT ![l] = Closed(@)]
      BY <2>2 DEF Revoked
    <3> QED BY <1>0, <2>2, <3>1, AccountKept DEF Revoked
  <2>3. CASE EngineRestarts
    BY <1>0, <1>4, <2>3, LoadedTypes DEF EngineRestarts, Ends, NoJob, Job
  <2>4. CASE CommandStarts
    BY <1>0, <1>4, <2>4, LoadedTypes DEF CommandStarts
  <2>5. CASE CommandEnds
    BY <1>0, <1>4, <2>5, LoadedTypes DEF CommandEnds, Ends, NoJob, Job
  <2>6. CASE WebApproved
    <3>1. PICK l \in Logins :
              /\ Grants(l)
              /\ key' = [key EXCEPT !["command"] = l]
              /\ job' = IF info["command"] = None THEN job
                        ELSE [job EXCEPT !["command"] =
                                 Write([Persisted("command") EXCEPT !.key = l])]
      BY <2>6 DEF WebApproved
    <3>2. server' \in [Logins -> Account]
      BY <1>0, <3>1, AccountKept DEF Grants
    <3>3. info["command"] # None => Write([Persisted("command") EXCEPT !.key = l]) \in Job
      BY <1>0, <3>1, StoredMade DEF Job, Write, Procs
    <3> QED BY <1>0, <2>6, <3>1, <3>2, <3>3 DEF WebApproved
  <2>7. CASE WebSession
    <3>1. [login |-> key["command"], gen |-> 0] \in Token
      BY <1>0, <2>7 DEF WebSession, Commanded, Token, Procs
    <3>2. Write([Persisted("command") EXCEPT
                   !.info = [login |-> key["command"], gen |-> 0]]) \in Job
      BY <1>0, <2>7, <3>1, StoredMade DEF WebSession, Commanded, Job, Write, Procs
    <3> QED BY <1>0, <2>7, <3>1, <3>2 DEF WebSession
  <2>8. CASE PasswordAccepted
    <3>1. PICK l \in Logins :
              LET new == [login |-> l, gen |-> 0] IN
              /\ Grants(l)
              /\ info' = [info EXCEPT !["command"] = new]
              /\ job' = IF key["command"] = None THEN job
                        ELSE [job EXCEPT !["command"] =
                                 Write([Persisted("command") EXCEPT !.info = new])]
      BY <2>8 DEF PasswordAccepted
    <3>2. server' \in [Logins -> Account]
      BY <1>0, <3>1, AccountKept DEF Grants
    <3>3. [login |-> l, gen |-> 0] \in Token
      BY DEF Token
    <3>4. key["command"] # None =>
              Write([Persisted("command") EXCEPT !.info = [login |-> l, gen |-> 0]]) \in Job
      BY <1>0, <3>3, StoredMade DEF Job, Write, Procs
    <3> QED BY <1>0, <2>8, <3>1, <3>2, <3>3, <3>4 DEF PasswordAccepted
  <2>9. CASE PasswordEnds
    <3>1. CASE SignOut("command")
      BY <1>0, <2>9, <3>1 DEF PasswordEnds, SignOut, Erase, Job
    <3>2. CASE UNCHANGED <<credentials, job>>
      BY <1>0, <2>9, <3>2 DEF PasswordEnds
    <3>3. CASE LET l == info["command"].login IN
               /\ key' = [key EXCEPT !["command"] = l]
               /\ job' = [job EXCEPT !["command"] = Write([Persisted("command") EXCEPT !.key = l])]
               /\ UNCHANGED <<info, cached, status>>
      <4>1. info["command"] # None /\ info["command"] \in Token
        BY <1>0, <2>9 DEF PasswordEnds, Commanded, Procs
      <4>2. info["command"].login \in Logins
        BY <4>1 DEF Token
      <4>3. Write([Persisted("command") EXCEPT !.key = info["command"].login]) \in Job
        BY <4>1, <4>2, <1>0, StoredMade DEF Job, Write, Procs
      <4> QED BY <1>0, <2>9, <3>3, <4>2, <4>3 DEF PasswordEnds
    <3> QED BY <2>9, <3>1, <3>2, <3>3 DEF PasswordEnds
  <2>10. CASE LogsOut
    <3>1. server' \in [Logins -> Account]
      <4>1. CASE UNCHANGED server
        BY <1>0, <4>1
      <4>2. CASE /\ IsLoggedIn("command")
                 /\ server' = [server EXCEPT ![info["command"].login] =
                                  Closed(@)]
        <5>1. info["command"] \in Token
          BY <1>0, <4>2 DEF IsLoggedIn
        <5>2. info["command"].login \in Logins
          BY <5>1 DEF Token
        <5>3. server \in [Logins -> Account] /\ server[info["command"].login] \in Account
          BY <1>0, <5>2
        <5> QED BY <4>2, <5>2, <5>3, AccountKept
      <4> QED BY <2>10, <4>1, <4>2 DEF LogsOut
    <3> QED BY <1>0, <2>10, <3>1 DEF LogsOut, SignOut, Erase, Job
  <2>11. CASE CommandStored
    BY <1>0, <2>11 DEF CommandStored, Notify, NoJob, Job
  <2>12. CASE CommandStoreFails
    BY <1>0, <2>12 DEF CommandStoreFails, NoJob, Job
  <2> QED BY <2>1, <2>2, <2>3, <2>4, <2>5, <2>6, <2>7, <2>8, <2>9, <2>10, <2>11, <2>12, <1>4
<1>5. CASE UNCHANGED vars
  BY <1>0, <1>5 DEF vars
<1> QED BY <1>1, <1>2, <1>3, <1>4, <1>5 DEF Next, ClientStep, ServerStep, RefreshStep, LoginStep
-----------------------------------------------------------------------------
(* What a step may make of a request: its life, whoever takes the step. *)
Kept(q, r) == r.attempt = q.attempt /\ r.refreshed = q.refreshed

Moves(y, q, r) ==
    \/ r = q
    \/ r = Over
    \/ q.pc = "over" /\ r.pc = "ready" /\ r.attempt = 1 /\ ~r.refreshed
    \/ /\ q.pc \in {"ready", "gated"} /\ r.pc = "gated" /\ Kept(q, r) /\ r.token = q.token
    \/ /\ q.pc \in {"ready", "gated"} /\ r.pc = "sent" /\ Kept(q, r)
       /\ r.token = (IF y \in Procs THEN q.token ELSE info[Own(y)])
    \/ q.pc = "sent" /\ r.pc = "answered" /\ Kept(q, r) /\ r.token = q.token
    \/ /\ q.pc = "answered" /\ q.answer = "throttled" /\ r.pc = "throttled"
       /\ q.attempt < 2 * MaxAttempts /\ Kept(q, r)
    \/ q.pc = "answered" /\ q.answer = "failed" /\ r.pc = "backoff" /\ Retries(y) /\ Kept(q, r)
    \/ /\ q.pc \in {"throttled", "backoff", "refreshing"} /\ r.pc = "ready"
       /\ r.attempt = q.attempt + 1 /\ r.refreshed = q.refreshed
    \/ /\ q.pc = "answered" /\ q.answer = "unauthorized" /\ ~q.refreshed /\ r.refreshed
       /\ \/ r.pc = "ready" /\ r.attempt = q.attempt + 1
          \/ r.pc = "refreshing" /\ r.attempt = q.attempt
    \/ q.pc = "answered" /\ r.pc = "storing" /\ y \in Procs /\ Kept(q, r)

(* Every step makes one of these of every request. *)
LEMMA RequestMoves ==
    ASSUME Inv, [Next]_vars, NEW y \in Askers
    PROVE  Moves(y, req[y], req'[y])
<1> USE Owned, RequestNew DEF Answer, Kept
<1>0. /\ req \in [Askers -> Request] /\ Bounded
      /\ req[y] \in Request
      /\ MaxAttempts \in Nat \ {0}
    BY SessionAssumption DEF Inv, TypeOK, Askers
<1>a. ASSUME NEW p \in Procs, NEW b \in {"renewed", "failed"}, req' = Settled(p, b)
      PROVE  Moves(y, req[y], req'[y])
  <2>1. CASE y \in Waiting(p) /\ b = "renewed"
    <3>1. req'[y] = Again(req[y]) /\ req[y].pc = "refreshing"
      <4>0. b = "renewed"
        BY <2>1
      <4>1. req'[y] = Again(req[y])
        BY <1>0, <1>a, <2>1, <4>0, SettledRequests
      <4> QED BY <2>1, <4>1 DEF Waiting
    <3>2. req[y].attempt <= 2 * MaxAttempts
      BY <1>0, <3>1 DEF Bounded
    <3> QED BY <1>0, <3>1, <3>2, RequestAgain DEF Moves
  <2>2. CASE y \notin Waiting(p) \/ b = "failed"
    BY <1>0, <1>a, <2>2, SettledRequests DEF Moves
  <2> QED BY <1>a, <2>1, <2>2
<1>b. ASSUME NEW x \in Requests \union Procs, req' = Ended(x)
      PROVE  Moves(y, req[y], req'[y])
  <2>1. CASE x \in Procs
    BY <1>0, <1>a, <1>b, <2>1, EndedRequests
  <2>2. CASE x \in Requests
    <3>1. req' = [req EXCEPT ![x] = Over]
      BY <1>0, <1>b, <2>2, EndedRequests
    <3> QED BY <1>0, <2>2, <3>1 DEF Moves
  <2> QED BY <1>b, <2>1, <2>2
<1>1. ASSUME NEW x \in Requests \union Procs,
            \/ Sends(x) \/ Succeeds(x) \/ Unauthorized(x) \/ Throttled(x)
            \/ ThrottleOver(x) \/ Failed(x) \/ BackoffOver(x) \/ ServerAccepts(x)
            \/ ServerRejects(x) \/ ServerThrottles(x) \/ AnswerFails(x)
     PROVE  Moves(y, req[y], req'[y])
  <2>1. CASE Sends(x)
    <3>1. CASE y # x
      BY <1>0, <2>1, <3>1 DEF Sends, Moves
    <3>2. CASE y = x /\ req[x].pc = "ready" /\ req' = [req EXCEPT ![x].pc = "gated"]
      BY <1>0, <3>2 DEF Moves, Request
    <3>3. CASE /\ y = x /\ req[x].pc \in {"ready", "gated"}
               /\ req' = [req EXCEPT ![x].pc = "sent",
                                     ![x].token = IF x \in Procs THEN @ ELSE info[Own(x)]]
      BY <1>0, <3>3 DEF Moves, Request
    <3> QED BY <2>1, <3>1, <3>2, <3>3 DEF Sends
  <2>2. CASE Succeeds(x)
    BY <1>b, <2>2 DEF Succeeds
  <2>3. CASE Unauthorized(x)
    <3> DEFINE joined == [req EXCEPT ![x].pc = "refreshing", ![x].refreshed = TRUE]
    <3>0. x \in Requests /\ Answered(x, "unauthorized")
      BY <2>3 DEF Unauthorized
    <3>1. ~req[x].refreshed => Moves(y, req[y], joined[y])
      <4>1. CASE y # x
        BY <1>0, <3>0, <4>1 DEF Moves
      <4>2. CASE y = x
        <5>1. joined[y] = [[req[y] EXCEPT !.pc = "refreshing"] EXCEPT !.refreshed = TRUE]
          BY <1>0, <3>0, <4>2
        <5> HIDE DEF joined
        <5>2. /\ joined[y].pc = "refreshing" /\ joined[y].refreshed
              /\ joined[y].attempt = req[y].attempt
          BY <1>0, <5>1 DEF Request
        <5> QED BY <3>0, <4>2, <5>2 DEF Moves, Answered
      <4> QED BY <4>1, <4>2
    <3>2. CASE req' = Ended(x)
      BY <1>b, <3>0, <3>2
    <3>3. CASE /\ ~req[x].refreshed
               /\ req' = [req EXCEPT ![x] = [Again(@) EXCEPT !.refreshed = TRUE]]
      <4>1. CASE y # x
        BY <1>0, <3>3, <4>1 DEF Moves
      <4>2. CASE y = x
        <5>1. req[x].attempt <= 2 * MaxAttempts
          BY <1>0, <3>3, <4>2 DEF Bounded
        <5>2. Again(req[x]) \in Request /\ Again(req[x]).pc = "ready"
              /\ Again(req[x]).attempt = req[x].attempt + 1
          BY <1>0, <4>2, <5>1, RequestAgain
        <5>3. req'[x] = [Again(req[x]) EXCEPT !.refreshed = TRUE]
          BY <1>0, <3>3, <4>2
        <5>4. req'[x].pc = "ready" /\ req'[x].refreshed /\ req'[x].attempt = req[x].attempt + 1
          BY <5>2, <5>3 DEF Request
        <5> QED BY <3>0, <3>3, <4>2, <5>4 DEF Moves, Answered
      <4> QED BY <4>1, <4>2
    <3>4. CASE ~req[x].refreshed /\ req' = joined
      BY <3>1, <3>4
    <3>5. CASE /\ ~req[x].refreshed /\ req[Owner[x]].pc = "over"
               /\ req' = [joined EXCEPT ![Owner[x]] = [Fresh EXCEPT !.token = info[Owner[x]]]]
      <4>1. info[Owner[x]] \in Token \union {None} /\ Owner[x] \in Procs /\ DOMAIN joined = Askers
        BY <1>0, <3>0, SessionAssumption DEF Inv, TypeOK
      <4>2. CASE y = Owner[x]
        BY <1>0, <3>5, <4>1, <4>2 DEF Moves, Fresh, Over
      <4>3. CASE y # Owner[x]
        <5>1. req'[y] = joined[y]
          BY <3>5, <4>1, <4>3
        <5> QED BY <3>1, <3>5, <5>1
      <4> QED BY <4>2, <4>3
    <3> QED BY <2>3, <3>2, <3>3, <3>4, <3>5 DEF Unauthorized
  <2>4. CASE Throttled(x)
    <3>1. CASE req' = Ended(x)
      BY <1>1, <1>b, <3>1
    <3>2. CASE req[x].attempt < 2 * MaxAttempts /\ req' = [req EXCEPT ![x].pc = "throttled"]
      BY <1>0, <2>4, <3>2 DEF Throttled, Answered, Moves, Request
    <3>3. req[x].attempt \in Nat
      BY <1>0, <1>1 DEF Askers, Request
    <3> QED BY <1>0, <2>4, <3>1, <3>2, <3>3 DEF Throttled
  <2>5. CASE ThrottleOver(x)
    <3>1. req[x] \in Request /\ req[x].attempt <= 2 * MaxAttempts
      BY <1>0, <1>1, <2>5 DEF ThrottleOver, Bounded, Askers, Request
    <3> QED BY <1>0, <1>1, <2>5, <3>1, RequestAgain DEF ThrottleOver, Moves
  <2>6. CASE Failed(x)
    <3>1. CASE req' = Ended(x)
      BY <1>1, <1>b, <3>1
    <3>2. CASE Retries(x) /\ req' = [req EXCEPT ![x].pc = "backoff"]
      BY <1>0, <2>6, <3>2 DEF Failed, Answered, Moves, Request
    <3> QED BY <2>6, <3>1, <3>2 DEF Failed
  <2>7. CASE BackoffOver(x)
    <3>1. req[x] \in Request /\ req[x].attempt <= 2 * MaxAttempts
      BY <1>0, <1>1, <2>7 DEF BackoffOver, Bounded, Askers, Request
    <3> QED BY <1>0, <1>1, <2>7, <3>1, RequestAgain DEF BackoffOver, Moves
  <2>8. CASE ServerAccepts(x)
    BY <1>0, <2>8 DEF ServerAccepts, Moves, Request
  <2>9. CASE ServerRejects(x)
    BY <1>0, <2>9 DEF ServerRejects, Moves, Request
  <2>10. CASE ServerThrottles(x)
    BY <1>0, <2>10 DEF ServerThrottles, Moves, Request
  <2>11. CASE AnswerFails(x)
    BY <1>0, <2>11 DEF AnswerFails, Moves, Request
  <2> QED BY <2>1, <2>2, <2>3, <2>4, <2>5, <2>6, <2>7, <2>8, <2>9, <2>10, <2>11, <1>1
<1>2. ASSUME NEW r \in Requests,
            Begins(r)
     PROVE  Moves(y, req[y], req'[y])
  <2>1. CASE Begins(r)
    BY <1>0, <2>1 DEF Begins, Moves
  <2> QED BY <2>1, <1>2
<1>3. ASSUME NEW p \in Procs,
            \/ RefreshGiven(p) \/ RefreshRefused(p) \/ StoreDone(p) \/ StoreFails(p)
            \/ GetCachePassword(p) \/ CachePasswordSaved(p)
     PROVE  Moves(y, req[y], req'[y])
  <2>1. CASE RefreshGiven(p)
    <3>1. CASE req' = Settled(p, "renewed")
      BY <1>a, <3>1
    <3>2. CASE req' = [req EXCEPT ![p].pc = "storing"]
      BY <1>0, <2>1, <3>2 DEF RefreshGiven, Answered, Moves, Request
    <3> QED BY <2>1, <3>1, <3>2 DEF RefreshGiven
  <2>2. CASE RefreshRefused(p)
    BY <1>0, <2>2 DEF RefreshRefused, Answered, Moves, Request
  <2>3. CASE StoreDone(p)
    <3>1. (IF job[p].op = "set" THEN "renewed" ELSE "failed") \in {"renewed", "failed"}
      OBVIOUS
    <3> QED BY <1>a, <2>3, <3>1 DEF StoreDone
  <2>4. CASE StoreFails(p)
    BY <1>a, <2>4 DEF StoreFails
  <2>5. CASE GetCachePassword(p)
    BY <1>0, <1>3, <2>5 DEF GetCachePassword, client, Ends, Moves
  <2>6. CASE CachePasswordSaved(p)
    BY <1>0, <1>3, <2>6 DEF CachePasswordSaved, client, Ends, Moves
  <2> QED BY <2>1, <2>2, <2>3, <2>4, <2>5, <2>6, <1>3
<1>4. ASSUME \/ Expires \/ Revoked \/ EngineRestarts \/ CommandStarts
           \/ CommandEnds \/ WebApproved \/ WebSession \/ PasswordAccepted
           \/ PasswordEnds \/ LogsOut \/ CommandStored \/ CommandStoreFails
     PROVE  Moves(y, req[y], req'[y])
  <2>1. CASE Expires
    BY <1>0, <1>4, <2>1 DEF Expires, client, Ends, Moves
  <2>2. CASE Revoked
    BY <1>0, <1>4, <2>2 DEF Revoked, client, Ends, Moves
  <2>3. CASE EngineRestarts
    BY <1>0, <1>4, <2>3 DEF EngineRestarts, client, Ends, Moves
  <2>4. CASE CommandStarts
    BY <1>0, <1>4, <2>4 DEF CommandStarts, client, Ends, Moves
  <2>5. CASE CommandEnds
    BY <1>0, <1>4, <2>5 DEF CommandEnds, client, Ends, Moves
  <2>6. CASE WebApproved
    BY <1>0, <1>4, <2>6 DEF WebApproved, client, Ends, Moves
  <2>7. CASE WebSession
    BY <1>0, <1>4, <2>7 DEF WebSession, client, Ends, Moves
  <2>8. CASE PasswordAccepted
    BY <1>0, <1>4, <2>8 DEF PasswordAccepted, client, Ends, Moves
  <2>9. CASE PasswordEnds
    BY <1>0, <1>4, <2>9 DEF PasswordEnds, client, Ends, Moves
  <2>10. CASE LogsOut
    BY <1>0, <1>4, <2>10 DEF LogsOut, client, Ends, Moves
  <2>11. CASE CommandStored
    BY <1>0, <1>4, <2>11 DEF CommandStored, client, Ends, Moves
  <2>12. CASE CommandStoreFails
    BY <1>0, <1>4, <2>12 DEF CommandStoreFails, client, Ends, Moves
  <2> QED BY <2>1, <2>2, <2>3, <2>4, <2>5, <2>6, <2>7, <2>8, <2>9, <2>10, <2>11, <2>12, <1>4
<1>5. CASE UNCHANGED vars
  BY <1>0, <1>5 DEF vars, client, Ends, Moves
<1> QED BY <1>1, <1>2, <1>3, <1>4, <1>5 DEF Next, ClientStep, ServerStep, RefreshStep, LoginStep

(* The attempts stay bounded. *)
LEMMA BoundedStep ==
    ASSUME Inv, [Next]_vars
    PROVE  Bounded'
<1> SUFFICES ASSUME NEW y \in Askers
    PROVE  /\ req'[y].pc = "throttled" => req'[y].attempt < 2 * MaxAttempts
           /\ req'[y].pc = "backoff" => req'[y].attempt < MaxAttempts
           /\ req'[y].pc = "refreshing" => req'[y].refreshed
           /\ ~req'[y].refreshed \/ req'[y].pc = "refreshing"
                => req'[y].attempt <= 2 * MaxAttempts
    BY DEF Bounded
<1>1. Moves(y, req[y], req'[y])
    BY RequestMoves
<1>2. req[y] \in Request /\ MaxAttempts \in Nat \ {0} /\ req[y].attempt \in Nat
    BY SessionAssumption DEF Inv, TypeOK, Askers, Request
<1>3. /\ req[y].pc = "throttled" => req[y].attempt < 2 * MaxAttempts
      /\ req[y].pc = "backoff" => req[y].attempt < MaxAttempts
      /\ req[y].pc = "refreshing" => req[y].refreshed
      /\ ~req[y].refreshed \/ req[y].pc = "refreshing" => req[y].attempt <= 2 * MaxAttempts
    BY DEF Inv, Bounded
<1>4. PICK n \in Nat : n = 2 * MaxAttempts
    BY <1>2
<1>5. 1 <= n /\ MaxAttempts <= n
    BY <1>2, <1>4
<1>6. CASE req'[y] = req[y] \/ req'[y] = Over
    BY <1>2, <1>3, <1>4, <1>5, <1>6, RequestNew
<1>7. CASE req'[y] # req[y] /\ req'[y] # Over
  <2>1. req'[y].pc = "throttled" => req'[y].attempt < n
    BY <1>1, <1>4, <1>7 DEF Moves, Kept
  <2>2. req'[y].pc = "backoff" => req'[y].attempt < MaxAttempts
    BY <1>1, <1>7 DEF Moves, Kept, Retries
  <2>5. req'[y].pc = "refreshing" => req'[y].refreshed
    BY <1>1, <1>7 DEF Moves, Kept
  <2>3. CASE req[y].pc \in {"throttled", "backoff", "refreshing"} /\ req'[y].pc = "ready"
    BY <1>1, <1>2, <1>3, <1>4, <1>5, <1>7, <2>1, <2>2, <2>3, <2>5 DEF Moves, Kept
  <2>4. CASE ~(req[y].pc \in {"throttled", "backoff", "refreshing"} /\ req'[y].pc = "ready")
    <3>1. ~req'[y].refreshed \/ req'[y].pc = "refreshing" => req'[y].attempt <= n
      BY <1>1, <1>2, <1>3, <1>4, <1>5, <1>7, <2>4 DEF Moves, Kept
    <3> QED BY <1>4, <2>1, <2>2, <2>5, <3>1
  <2> QED BY <2>3, <2>4
<1> QED
    BY <1>6, <1>7
-----------------------------------------------------------------------------
(* A request that ends, or a refresh that is settled, leaves those alone   *)
(* that do not wait for it.                                                *)
LEMMA NotWaiting ==
    ASSUME Inv, NEW y \in Askers, y \in Procs \/ req[y].pc # "refreshing"
    PROVE  /\ \A q \in Procs, b \in {"renewed", "failed"} :
                 req' = Settled(q, b) => req'[y] = (IF y = q THEN Over ELSE req[y])
           /\ \A x \in Askers : req' = Ended(x) => req'[y] = (IF y = x THEN Over ELSE req[y])
<1>0. /\ req \in [Askers -> Request] /\ Bounded /\ \A q : y \notin Waiting(q)
    BY Owned DEF Inv, TypeOK, Askers, Waiting
<1>1. ASSUME NEW q \in Procs, NEW b \in {"renewed", "failed"}, req' = Settled(q, b)
      PROVE  req'[y] = IF y = q THEN Over ELSE req[y]
    BY <1>0, <1>1, SettledRequests
<1>2. ASSUME NEW x \in Askers, req' = Ended(x)
      PROVE  req'[y] = IF y = x THEN Over ELSE req[y]
  <2>1. CASE x \in Procs
    BY <1>0, <1>1, <1>2, <2>1, EndedRequests
  <2>2. CASE x \in Requests
    <3>1. req' = [req EXCEPT ![x] = Over]
      BY <1>0, <1>2, <2>2, EndedRequests
    <3> QED BY <1>0, <3>1
  <2> QED BY <1>2, <2>1, <2>2 DEF Askers
<1> QED
    BY <1>1, <1>2

(* What a rejected request makes of the requests: it ends, is sent again   *)
(* with the token of now, or waits for a refresh, which it may begin.      *)
LEMMA UnauthorizedMoves ==
    ASSUME Inv, NEW x \in Requests, Unauthorized(x), NEW y \in Askers
    PROVE  \/ req'[y] = req[y]
           \/ y = x /\ req'[y] = Over
           \/ /\ y = x /\ ~req[y].refreshed
              /\ req'[y] = [Again(req[y]) EXCEPT !.refreshed = TRUE]
           \/ /\ y = x /\ ~req[y].refreshed
              /\ req'[y] = [[req[y] EXCEPT !.pc = "refreshing"] EXCEPT !.refreshed = TRUE]
           \/ /\ y \in Procs /\ Owner[x] = y /\ req[y].pc = "over"
              /\ ~req[x].refreshed /\ info[y] # None
              /\ req[x].token = None \/ info[y] = req[x].token
              /\ req'[y] = [Fresh EXCEPT !.token = info[y]]
<1> DEFINE joined == [req EXCEPT ![x].pc = "refreshing", ![x].refreshed = TRUE]
<1>0. /\ req \in [Askers -> Request] /\ x \in Askers /\ x \notin Procs /\ Owner[x] \in Procs
      /\ req[x].pc = "answered"
    BY Owned, SessionAssumption DEF Inv, TypeOK, Askers, Unauthorized, Answered
<1>1. /\ joined \in [Askers -> {req[z] : z \in Askers} \union
                       {[[req[x] EXCEPT !.pc = "refreshing"] EXCEPT !.refreshed = TRUE]}]
      /\ joined[y] = IF y = x THEN [[req[x] EXCEPT !.pc = "refreshing"] EXCEPT !.refreshed = TRUE]
                     ELSE req[y]
    BY <1>0
<1>2. CASE req' = Ended(x)
  <2>1. req' = [req EXCEPT ![x] = Over]
    BY <1>0, <1>2, EndedRequests DEF Inv
  <2> QED BY <1>0, <2>1
<1>3. CASE ~req[x].refreshed /\ req' = [req EXCEPT ![x] = [Again(@) EXCEPT !.refreshed = TRUE]]
    BY <1>0, <1>3
<1>4. CASE ~req[x].refreshed /\ req' = joined
    BY <1>1, <1>4
<1>5. CASE /\ ~req[x].refreshed /\ info[Owner[x]] # None /\ req[Owner[x]].pc = "over"
           /\ req[x].token = None \/ info[Owner[x]] = req[x].token
           /\ req' = [joined EXCEPT ![Owner[x]] = [Fresh EXCEPT !.token = info[Owner[x]]]]
  <2> HIDE DEF joined
  <2>1. CASE y = Owner[x]
    BY <1>0, <1>1, <1>5, <2>1
  <2>2. CASE y # Owner[x]
    <3>1. req'[y] = joined[y]
      BY <1>1, <1>5, <2>2
    <3> QED BY <1>1, <1>5, <3>1
  <2> QED BY <2>1, <2>2
<1> QED
    BY <1>2, <1>3, <1>4, <1>5 DEF Unauthorized

(* The others: only the refresh of the process may begin. *)
LEMMA UnauthorizedOthers ==
    ASSUME Inv, NEW x \in Requests, Unauthorized(x), NEW y \in Askers, y # x
    PROVE  \/ req'[y] = req[y]
           \/ /\ y \in Procs /\ Owner[x] = y /\ req[y].pc = "over"
              /\ ~req[x].refreshed /\ info[y] # None
              /\ req[x].token = None \/ info[y] = req[x].token
              /\ req'[y] = [Fresh EXCEPT !.token = info[y]]
    BY UnauthorizedMoves

-----------------------------------------------------------------------------
(* How a request, or the refresh of a process, begins. *)
LEMMA Begun ==
    ASSUME Inv, [Next]_vars, NEW y \in Askers, req[y].pc = "over", req'[y].pc # "over"
    PROVE  \/ y \in Requests /\ Begins(y)
           \/ \E z \in Requests :
                 /\ y \in Procs /\ Owner[z] = y /\ Unauthorized(z)
                 /\ ~req[z].refreshed /\ info[y] # None
                 /\ req[z].token = None \/ info[y] = req[z].token
                 /\ req'[y] = [Fresh EXCEPT !.token = info[y]]
<1> USE Owned, RequestNew DEF Answer
<1>0. /\ TypeOK /\ Bounded /\ req \in [Askers -> Request] /\ req[y] # req'[y]
    BY DEF Inv, TypeOK, Askers
<1>1. ASSUME NEW x \in Requests \union Procs,
            \/ Sends(x) \/ Succeeds(x) \/ Unauthorized(x) \/ Throttled(x)
            \/ ThrottleOver(x) \/ Failed(x) \/ BackoffOver(x) \/ ServerAccepts(x)
            \/ ServerRejects(x) \/ ServerThrottles(x) \/ AnswerFails(x)
     PROVE  \/ y \in Requests /\ Begins(y)
            \/ \E z \in Requests :
                 /\ y \in Procs /\ Owner[z] = y /\ Unauthorized(z)
                 /\ ~req[z].refreshed /\ info[y] # None
                 /\ req[z].token = None \/ info[y] = req[z].token
                 /\ req'[y] = [Fresh EXCEPT !.token = info[y]]
  <2>1. CASE Sends(x)
    BY <1>0, <1>1, <2>1 DEF Sends, client, Ends
  <2>2. CASE Succeeds(x)
    BY <1>0, <1>1, <2>2, NotWaiting DEF Succeeds, Askers
  <2>3. CASE Unauthorized(x)
    <3>1. x \in Requests
      BY <2>3 DEF Unauthorized
    <3>2. x # y
      BY <1>0, <2>3 DEF Unauthorized, Answered
    <3> QED BY <1>0, <2>3, <3>1, <3>2, UnauthorizedOthers
  <2>4. CASE Throttled(x)
    <3>1. CASE req' = Ended(x)
      BY <1>0, <1>1, <3>1, NotWaiting DEF Askers
    <3>2. CASE req' = [req EXCEPT ![x].pc = "throttled"]
      BY <1>0, <2>4, <3>2 DEF Throttled, Answered
    <3> QED BY <2>4, <3>1, <3>2 DEF Throttled
  <2>5. CASE ThrottleOver(x)
    BY <1>0, <1>1, <2>5 DEF ThrottleOver, client, Ends
  <2>6. CASE Failed(x)
    <3>1. CASE req' = Ended(x)
      BY <1>0, <1>1, <3>1, NotWaiting DEF Askers
    <3>2. CASE req' = [req EXCEPT ![x].pc = "backoff"]
      BY <1>0, <2>6, <3>2 DEF Failed, Answered
    <3> QED BY <2>6, <3>1, <3>2 DEF Failed
  <2>7. CASE BackoffOver(x)
    BY <1>0, <1>1, <2>7 DEF BackoffOver, client, Ends
  <2>8. CASE ServerAccepts(x)
    BY <1>0, <1>1, <2>8 DEF ServerAccepts, client, Ends
  <2>9. CASE ServerRejects(x)
    BY <1>0, <1>1, <2>9 DEF ServerRejects, client, Ends
  <2>10. CASE ServerThrottles(x)
    BY <1>0, <1>1, <2>10 DEF ServerThrottles, client, Ends
  <2>11. CASE AnswerFails(x)
    BY <1>0, <1>1, <2>11 DEF AnswerFails, client, Ends
  <2> QED BY <2>1, <2>2, <2>3, <2>4, <2>5, <2>6, <2>7, <2>8, <2>9, <2>10, <2>11, <1>1
<1>2. ASSUME NEW r \in Requests,
            Begins(r)
     PROVE  \/ y \in Requests /\ Begins(y)
            \/ \E z \in Requests :
                 /\ y \in Procs /\ Owner[z] = y /\ Unauthorized(z)
                 /\ ~req[z].refreshed /\ info[y] # None
                 /\ req[z].token = None \/ info[y] = req[z].token
                 /\ req'[y] = [Fresh EXCEPT !.token = info[y]]
  <2>1. CASE Begins(r)
    <3>1. y = r
      BY <1>0, <2>1 DEF Begins
    <3> QED BY <1>2, <2>1, <3>1
  <2> QED BY <2>1, <1>2
<1>3. ASSUME NEW p \in Procs,
            \/ RefreshGiven(p) \/ RefreshRefused(p) \/ StoreDone(p) \/ StoreFails(p)
            \/ GetCachePassword(p) \/ CachePasswordSaved(p)
     PROVE  \/ y \in Requests /\ Begins(y)
            \/ \E z \in Requests :
                 /\ y \in Procs /\ Owner[z] = y /\ Unauthorized(z)
                 /\ ~req[z].refreshed /\ info[y] # None
                 /\ req[z].token = None \/ info[y] = req[z].token
                 /\ req'[y] = [Fresh EXCEPT !.token = info[y]]
  <2>1. CASE RefreshGiven(p)
    <3>1. CASE req' = Settled(p, "renewed")
      BY <1>0, <1>3, <3>1, NotWaiting
    <3>2. CASE req' = [req EXCEPT ![p].pc = "storing"]
      BY <1>0, <2>1, <3>2 DEF RefreshGiven, Answered, Refreshing
    <3> QED BY <2>1, <3>1, <3>2 DEF RefreshGiven
  <2>2. CASE RefreshRefused(p)
    BY <1>0, <2>2 DEF RefreshRefused, Answered
  <2>3. CASE StoreDone(p)
    BY <1>0, <1>3, <2>3, NotWaiting DEF StoreDone
  <2>4. CASE StoreFails(p)
    BY <1>0, <1>3, <2>4, NotWaiting DEF StoreFails
  <2>5. CASE GetCachePassword(p)
    BY <1>0, <1>3, <2>5 DEF GetCachePassword, client, Ends
  <2>6. CASE CachePasswordSaved(p)
    BY <1>0, <1>3, <2>6 DEF CachePasswordSaved, client, Ends
  <2> QED BY <2>1, <2>2, <2>3, <2>4, <2>5, <2>6, <1>3
<1>4. ASSUME \/ Expires \/ Revoked \/ EngineRestarts \/ CommandStarts
           \/ CommandEnds \/ WebApproved \/ WebSession \/ PasswordAccepted
           \/ PasswordEnds \/ LogsOut \/ CommandStored \/ CommandStoreFails
     PROVE  \/ y \in Requests /\ Begins(y)
            \/ \E z \in Requests :
                 /\ y \in Procs /\ Owner[z] = y /\ Unauthorized(z)
                 /\ ~req[z].refreshed /\ info[y] # None
                 /\ req[z].token = None \/ info[y] = req[z].token
                 /\ req'[y] = [Fresh EXCEPT !.token = info[y]]
  <2>1. CASE Expires
    BY <1>0, <1>4, <2>1 DEF Expires, client, Ends
  <2>2. CASE Revoked
    BY <1>0, <1>4, <2>2 DEF Revoked, client, Ends
  <2>3. CASE EngineRestarts
    BY <1>0, <1>4, <2>3 DEF EngineRestarts, client, Ends
  <2>4. CASE CommandStarts
    BY <1>0, <1>4, <2>4 DEF CommandStarts, client, Ends
  <2>5. CASE CommandEnds
    BY <1>0, <1>4, <2>5 DEF CommandEnds, client, Ends
  <2>6. CASE WebApproved
    BY <1>0, <1>4, <2>6 DEF WebApproved, client, Ends
  <2>7. CASE WebSession
    BY <1>0, <1>4, <2>7 DEF WebSession, client, Ends
  <2>8. CASE PasswordAccepted
    BY <1>0, <1>4, <2>8 DEF PasswordAccepted, client, Ends
  <2>9. CASE PasswordEnds
    BY <1>0, <1>4, <2>9 DEF PasswordEnds, client, Ends
  <2>10. CASE LogsOut
    BY <1>0, <1>4, <2>10 DEF LogsOut, client, Ends
  <2>11. CASE CommandStored
    BY <1>0, <1>4, <2>11 DEF CommandStored, client, Ends
  <2>12. CASE CommandStoreFails
    BY <1>0, <1>4, <2>12 DEF CommandStoreFails, client, Ends
  <2> QED BY <2>1, <2>2, <2>3, <2>4, <2>5, <2>6, <2>7, <2>8, <2>9, <2>10, <2>11, <2>12, <1>4
<1>5. CASE UNCHANGED vars
  BY <1>0, <1>5 DEF vars, client, Ends
<1> QED BY <1>1, <1>2, <1>3, <1>4, <1>5 DEF Next, ClientStep, ServerStep, RefreshStep, LoginStep

(* When the effects of a request change. *)
LEMMA AppliedMoves ==
    ASSUME Inv, [Next]_vars, NEW y \in Requests
    PROVE  \/ applied'[y] = applied[y]
           \/ applied'[y] = 0 /\ req[y].pc = "over"
           \/ /\ req[y].pc = "sent" /\ applied'[y] = applied[y] + 1
              /\ req'[y].pc = "answered" /\ req'[y].answer \in {"ok", "failed"}
<1>0. /\ req \in [Askers -> Request] /\ applied \in [Requests -> Nat]
      /\ req[y] \in Request /\ y \in Askers
    BY DEF Inv, TypeOK, Askers
<1>1. ASSUME NEW x \in Requests \union Procs,
            \/ Sends(x) \/ Succeeds(x) \/ Unauthorized(x) \/ Throttled(x)
            \/ ThrottleOver(x) \/ Failed(x) \/ BackoffOver(x) \/ ServerAccepts(x)
            \/ ServerRejects(x) \/ ServerThrottles(x) \/ AnswerFails(x)
     PROVE  \/ applied'[y] = applied[y]
            \/ applied'[y] = 0 /\ req[y].pc = "over"
            \/ /\ req[y].pc = "sent" /\ applied'[y] = applied[y] + 1
               /\ req'[y].pc = "answered" /\ req'[y].answer \in {"ok", "failed"}
  <2>1. CASE Sends(x)
    BY <1>0, <1>1, <2>1 DEF Sends
  <2>2. CASE Succeeds(x)
    BY <1>0, <1>1, <2>2 DEF Succeeds
  <2>3. CASE Unauthorized(x)
    BY <1>0, <1>1, <2>3 DEF Unauthorized
  <2>4. CASE Throttled(x)
    BY <1>0, <1>1, <2>4 DEF Throttled
  <2>5. CASE ThrottleOver(x)
    BY <1>0, <1>1, <2>5 DEF ThrottleOver
  <2>6. CASE Failed(x)
    BY <1>0, <1>1, <2>6 DEF Failed
  <2>7. CASE BackoffOver(x)
    BY <1>0, <1>1, <2>7 DEF BackoffOver
  <2>8. CASE ServerAccepts(x)
    <3>1. CASE UNCHANGED applied
      BY <3>1
    <3>2. CASE x \in Requests /\ applied' = [applied EXCEPT ![x] = @ + 1]
      BY <1>0, <2>8, <3>2 DEF ServerAccepts, Answer, Request
    <3> QED BY <1>1, <2>8, <3>1, <3>2 DEF ServerAccepts, TakesEffect
  <2>9. CASE ServerRejects(x)
    BY <1>0, <1>1, <2>9 DEF ServerRejects
  <2>10. CASE ServerThrottles(x)
    BY <1>0, <1>1, <2>10 DEF ServerThrottles
  <2>11. CASE AnswerFails(x)
    <3>1. CASE UNCHANGED applied
      BY <3>1
    <3>2. CASE x \in Requests /\ applied' = [applied EXCEPT ![x] = @ + 1]
      BY <1>0, <2>11, <3>2 DEF AnswerFails, Answer, Request
    <3> QED BY <1>1, <2>11, <3>1, <3>2 DEF AnswerFails, TakesEffect
  <2> QED BY <2>1, <2>2, <2>3, <2>4, <2>5, <2>6, <2>7, <2>8, <2>9, <2>10, <2>11, <1>1
<1>2. ASSUME NEW r \in Requests,
            Begins(r)
     PROVE  \/ applied'[y] = applied[y]
            \/ applied'[y] = 0 /\ req[y].pc = "over"
            \/ /\ req[y].pc = "sent" /\ applied'[y] = applied[y] + 1
               /\ req'[y].pc = "answered" /\ req'[y].answer \in {"ok", "failed"}
  <2>1. CASE Begins(r)
    BY <1>0, <1>2, <2>1 DEF Begins
  <2> QED BY <2>1, <1>2
<1>3. ASSUME NEW p \in Procs,
            \/ RefreshGiven(p) \/ RefreshRefused(p) \/ StoreDone(p) \/ StoreFails(p)
            \/ GetCachePassword(p) \/ CachePasswordSaved(p)
     PROVE  \/ applied'[y] = applied[y]
            \/ applied'[y] = 0 /\ req[y].pc = "over"
            \/ /\ req[y].pc = "sent" /\ applied'[y] = applied[y] + 1
               /\ req'[y].pc = "answered" /\ req'[y].answer \in {"ok", "failed"}
  <2>1. CASE RefreshGiven(p)
    BY <1>0, <1>3, <2>1 DEF RefreshGiven
  <2>2. CASE RefreshRefused(p)
    BY <1>0, <1>3, <2>2 DEF RefreshRefused
  <2>3. CASE StoreDone(p)
    BY <1>0, <1>3, <2>3 DEF StoreDone
  <2>4. CASE StoreFails(p)
    BY <1>0, <1>3, <2>4 DEF StoreFails
  <2>5. CASE GetCachePassword(p)
    BY <1>0, <1>3, <2>5 DEF GetCachePassword
  <2>6. CASE CachePasswordSaved(p)
    BY <1>0, <1>3, <2>6 DEF CachePasswordSaved
  <2> QED BY <2>1, <2>2, <2>3, <2>4, <2>5, <2>6, <1>3
<1>4. ASSUME \/ Expires \/ Revoked \/ EngineRestarts \/ CommandStarts
           \/ CommandEnds \/ WebApproved \/ WebSession \/ PasswordAccepted
           \/ PasswordEnds \/ LogsOut \/ CommandStored \/ CommandStoreFails
     PROVE  \/ applied'[y] = applied[y]
            \/ applied'[y] = 0 /\ req[y].pc = "over"
            \/ /\ req[y].pc = "sent" /\ applied'[y] = applied[y] + 1
               /\ req'[y].pc = "answered" /\ req'[y].answer \in {"ok", "failed"}
  <2>1. CASE Expires
    BY <1>0, <1>4, <2>1 DEF Expires
  <2>2. CASE Revoked
    BY <1>0, <1>4, <2>2 DEF Revoked
  <2>3. CASE EngineRestarts
    BY <1>0, <1>4, <2>3 DEF EngineRestarts
  <2>4. CASE CommandStarts
    BY <1>0, <1>4, <2>4 DEF CommandStarts
  <2>5. CASE CommandEnds
    BY <1>0, <1>4, <2>5 DEF CommandEnds
  <2>6. CASE WebApproved
    BY <1>0, <1>4, <2>6 DEF WebApproved
  <2>7. CASE WebSession
    BY <1>0, <1>4, <2>7 DEF WebSession
  <2>8. CASE PasswordAccepted
    BY <1>0, <1>4, <2>8 DEF PasswordAccepted
  <2>9. CASE PasswordEnds
    BY <1>0, <1>4, <2>9 DEF PasswordEnds
  <2>10. CASE LogsOut
    BY <1>0, <1>4, <2>10 DEF LogsOut
  <2>11. CASE CommandStored
    BY <1>0, <1>4, <2>11 DEF CommandStored
  <2>12. CASE CommandStoreFails
    BY <1>0, <1>4, <2>12 DEF CommandStoreFails
  <2> QED BY <2>1, <2>2, <2>3, <2>4, <2>5, <2>6, <2>7, <2>8, <2>9, <2>10, <2>11, <2>12, <1>4
<1>5. CASE UNCHANGED vars
  BY <1>0, <1>5 DEF vars
<1> QED BY <1>1, <1>2, <1>3, <1>4, <1>5 DEF Next, ClientStep, ServerStep, RefreshStep, LoginStep

(* A request that may be sent again has had no effect. *)
LEMMA UnappliedStep ==
    ASSUME Inv, [Next]_vars
    PROVE  Unapplied'
<1> SUFFICES ASSUME NEW y \in Requests \ Idempotent
    PROVE  /\ applied'[y] <= 1
           /\ \/ req'[y].pc \in {"ready", "gated", "sent", "refreshing", "throttled"}
              \/ req'[y].pc = "answered" /\ req'[y].answer \in {"unauthorized", "throttled"}
              => applied'[y] = 0
           /\ req'[y].pc # "backoff"
    BY DEF Unapplied, Answered
<1>1. y \in Askers /\ y \in Requests /\ y \notin Idempotent /\ y \notin Procs
    BY Owned
<1>2. Moves(y, req[y], req'[y])
    BY <1>1, RequestMoves
<1>3. \/ applied'[y] = applied[y] /\ (req[y].pc = "over" => req'[y].pc = "over")
      \/ applied'[y] = 0 /\ req[y].pc = "over"
      \/ /\ req[y].pc = "sent" /\ applied'[y] = applied[y] + 1
         /\ req'[y].pc = "answered" /\ req'[y].answer \in {"ok", "failed"}
  <2>1. req[y].pc = "over" /\ req'[y].pc # "over" => Begins(y)
    BY <1>1, Begun
  <2>2. Begins(y) => applied'[y] = 0
    BY <1>1 DEF Begins, Inv, TypeOK
  <2> QED BY <1>1, <2>1, <2>2, AppliedMoves
<1>4. /\ applied[y] \in Nat /\ applied[y] <= 1
      /\ \/ req[y].pc \in {"ready", "gated", "sent", "refreshing", "throttled"}
         \/ req[y].pc = "answered" /\ req[y].answer \in {"unauthorized", "throttled"}
         => applied[y] = 0
      /\ req[y].pc # "backoff"
    BY <1>1 DEF Inv, TypeOK, Unapplied, Answered
<1>5. req'[y].pc # "backoff"
    BY <1>1, <1>2, <1>4, RequestNew DEF Moves, Retries
<1>6. CASE applied'[y] # applied[y]
    BY <1>3, <1>4, <1>5, <1>6, <1>2, <1>1, RequestNew DEF Moves
<1>7. CASE applied'[y] = applied[y]
    BY <1>1, <1>2, <1>3, <1>4, <1>5, <1>7, RequestNew DEF Moves
<1> QED
    BY <1>6, <1>7

(* The token that a refresh carries, and the one it is renewed to. *)
LEMMA TokenHeld ==
    ASSUME Inv, NEW p \in Procs, Refreshing(p)
    PROVE  /\ info[p] \in Token /\ info[p] # None /\ req[p].token = info[p]
           /\ info[p].login \in Logins /\ info[p].gen \in Nat
           /\ Renewed(info[p]) \in Token /\ Renewed(info[p]) # None
           /\ Renewed(info[p]).login = info[p].login
           /\ Renewed(info[p]).gen = info[p].gen + 1
<1>1. info[p] \in Token /\ info[p] # None /\ req[p].token = info[p]
    BY DEF Inv, TypeOK, RefreshHeld
<1>2. None \notin Token
    BY SessionAssumption
<1>3. info[p].login \in Logins /\ info[p].gen \in Nat /\ info[p].gen + 1 \in Nat
    BY <1>1 DEF Token
<1> QED
    BY <1>1, <1>2, <1>3 DEF Token, Renewed

(* A command other than setup makes no requests. *)
LEMMA CommandQuiet ==
    ASSUME Inv, [Next]_vars, cmd # "setup", NEW y \in Askers, Own(y) = "command"
    PROVE  req'[y].pc = "over"
<1>1. \A x \in Askers : Own(x) = "command" => req[x].pc = "over"
    BY DEF Inv, Commanded
<1>2. ~Begins(y)
    BY DEF Begins
<1>3. ASSUME NEW z \in Requests, Owner[z] = y, Unauthorized(z)
      PROVE  FALSE
    BY <1>1, <1>3, Owned DEF Unauthorized, Answered, Own
<1> QED BY <1>1, <1>2, <1>3, Begun

(* The steps of a command follow each other. *)
LEMMA CommandedStep ==
    ASSUME Inv, [Next]_vars
    PROVE  Commanded'
<1>0. /\ TypeOK /\ Commanded /\ "command" \in Procs /\ "engine" # "command"
      /\ Own("command") = "command" /\ "command" \in Askers
      /\ info \in [Procs -> Token \union {None}] /\ key \in [Procs -> Logins \union {None}]
      /\ None \notin Logins \union Token
      /\ req' \in [Askers -> Request]
    BY SessionAssumption, Owned, RequestStep DEF Inv, TypeOK, Procs
<1>a. cmd # "setup" => \A x \in Askers : Own(x) = "command" => req'[x].pc = "over"
    BY CommandQuiet
<1>b. cmd # "setup" => \A x \in Askers : Own(x) = "command" => req[x].pc = "over"
    BY <1>0 DEF Commanded
<1> DEFINE Left == /\ cmd' # "setup" => \A x \in Askers : Own(x) = "command" => req'[x].pc = "over"
                   /\ cmd' = "web" => key'["command"] # None
                   /\ cmd' = "password" => info'["command"] # None
<1>c. Left => Commanded'
    BY DEF Commanded
<1> SUFFICES Left
    BY <1>c
<1>d. cmd \in {"web", "password"} => cmd # "setup" /\ req["command"].pc = "over"
    BY <1>0, <1>b
<1>1. ASSUME NEW x \in Requests \union Procs,
            \/ Sends(x) \/ Succeeds(x) \/ Unauthorized(x) \/ Throttled(x)
            \/ ThrottleOver(x) \/ Failed(x) \/ BackoffOver(x) \/ ServerAccepts(x)
            \/ ServerRejects(x) \/ ServerThrottles(x) \/ AnswerFails(x)
     PROVE  Left
  <2>1. CASE Sends(x)
    BY <1>0, <1>a, <2>1 DEF Sends, Commanded, credentials
  <2>2. CASE Succeeds(x)
    BY <1>0, <1>a, <2>2 DEF Succeeds, Commanded, credentials
  <2>3. CASE Unauthorized(x)
    BY <1>0, <1>a, <2>3 DEF Unauthorized, Commanded, credentials
  <2>4. CASE Throttled(x)
    BY <1>0, <1>a, <2>4 DEF Throttled, Commanded, credentials
  <2>5. CASE ThrottleOver(x)
    BY <1>0, <1>a, <2>5 DEF ThrottleOver, Commanded, credentials
  <2>6. CASE Failed(x)
    BY <1>0, <1>a, <2>6 DEF Failed, Commanded, credentials
  <2>7. CASE BackoffOver(x)
    BY <1>0, <1>a, <2>7 DEF BackoffOver, Commanded, credentials
  <2>8. CASE ServerAccepts(x)
    BY <1>0, <1>a, <2>8 DEF ServerAccepts, Commanded, credentials
  <2>9. CASE ServerRejects(x)
    BY <1>0, <1>a, <2>9 DEF ServerRejects, Commanded, credentials
  <2>10. CASE ServerThrottles(x)
    BY <1>0, <1>a, <2>10 DEF ServerThrottles, Commanded, credentials
  <2>11. CASE AnswerFails(x)
    BY <1>0, <1>a, <2>11 DEF AnswerFails, Commanded, credentials
  <2> QED BY <2>1, <2>2, <2>3, <2>4, <2>5, <2>6, <2>7, <2>8, <2>9, <2>10, <2>11, <1>1
<1>2. ASSUME NEW r \in Requests,
            Begins(r)
     PROVE  Left
  <2>1. CASE Begins(r)
    BY <1>0, <1>a, <2>1 DEF Begins, Commanded, credentials
  <2> QED BY <2>1, <1>2
<1>3. ASSUME NEW p \in Procs,
            \/ RefreshGiven(p) \/ RefreshRefused(p) \/ StoreDone(p) \/ StoreFails(p)
            \/ GetCachePassword(p) \/ CachePasswordSaved(p)
     PROVE  Left
  <2>1. CASE RefreshGiven(p)
    <3>1. info'["command"] = info["command"] \/ info'["command"] # None
      <4>1. CASE p = "command"
        BY <1>0, <2>1, <4>1, TokenHeld DEF RefreshGiven, Answered, Refreshing
      <4>2. CASE p # "command"
        BY <1>0, <2>1, <4>2 DEF RefreshGiven
      <4> QED BY <4>1, <4>2
    <3> QED BY <1>0, <1>a, <2>1, <3>1 DEF RefreshGiven, Commanded
  <2>2. CASE RefreshRefused(p)
    BY <1>0, <1>a, <1>d, <1>3, <2>2 DEF RefreshRefused, Answered, Commanded, SignOut
  <2>3. CASE StoreDone(p)
    BY <1>0, <1>a, <2>3 DEF StoreDone, Commanded, credentials
  <2>4. CASE StoreFails(p)
    BY <1>0, <1>a, <2>4 DEF StoreFails, Commanded, credentials
  <2>5. CASE GetCachePassword(p)
    BY <1>0, <1>a, <2>5 DEF GetCachePassword, Commanded, credentials
  <2>6. CASE CachePasswordSaved(p)
    BY <1>0, <1>a, <2>6 DEF CachePasswordSaved, Commanded, credentials
  <2> QED BY <2>1, <2>2, <2>3, <2>4, <2>5, <2>6, <1>3
<1>4. ASSUME \/ Expires \/ Revoked \/ EngineRestarts \/ CommandStarts
           \/ CommandEnds \/ WebApproved \/ WebSession \/ PasswordAccepted
           \/ PasswordEnds \/ LogsOut \/ CommandStored \/ CommandStoreFails
     PROVE  Left
  <2>1. CASE Expires
    BY <1>0, <1>a, <2>1 DEF Expires, Commanded, credentials
  <2>2. CASE Revoked
    BY <1>0, <1>a, <2>2 DEF Revoked, Commanded, credentials
  <2>3. CASE EngineRestarts
    BY <1>0, <1>a, <2>3 DEF EngineRestarts, Commanded, Loads
  <2>4. CASE CommandStarts
    BY <1>0, <1>b, <2>4 DEF CommandStarts, client
  <2>5. CASE CommandEnds
    <3>1. \A x \in Askers : Own(x) = "command" => req'[x].pc = "over"
      BY <1>0, <2>5, RequestNew DEF CommandEnds, Ends, TypeOK, Askers
    <3> QED BY <3>1, <2>5 DEF CommandEnds
  <2>6. CASE WebApproved
    BY <1>0, <1>a, <2>6 DEF WebApproved
  <2>7. CASE WebSession
    BY <1>0, <1>a, <2>7 DEF WebSession
  <2>8. CASE PasswordAccepted
    <3>1. PICK l \in Logins : info' = [info EXCEPT !["command"] = [login |-> l, gen |-> 0]]
      BY <2>8 DEF PasswordAccepted
    <3>2. [login |-> l, gen |-> 0] \in Token
      BY DEF Token
    <3> QED BY <1>0, <1>a, <3>1, <3>2, <2>8 DEF PasswordAccepted
  <2>9. CASE PasswordEnds
    BY <1>0, <1>a, <2>9 DEF PasswordEnds
  <2>10. CASE LogsOut
    BY <1>0, <1>a, <2>10 DEF LogsOut
  <2>11. CASE CommandStored
    BY <1>0, <1>a, <1>d, <2>11 DEF CommandStored, Commanded, LoginSteps, credentials
  <2>12. CASE CommandStoreFails
    BY <1>0, <1>a, <1>d, <2>12 DEF CommandStoreFails, Commanded, LoginSteps, credentials
  <2> QED BY <2>1, <2>2, <2>3, <2>4, <2>5, <2>6, <2>7, <2>8, <2>9, <2>10, <2>11, <2>12, <1>4
<1>5. CASE UNCHANGED vars
  BY <1>0, <1>5 DEF vars, Commanded, credentials, client, LoginSteps
<1> QED BY <1>1, <1>2, <1>3, <1>4, <1>5 DEF Next, ClientStep, ServerStep, RefreshStep, LoginStep
-----------------------------------------------------------------------------
(* While a process refreshes, nothing changes its session. *)
LEMMA RefreshSteady ==
    ASSUME Inv, [Next]_vars, NEW z \in Procs,
           Refreshing(z), req'[z].pc \notin {"over", "storing"}
    PROVE  info'[z] = info[z] /\ req'[z].token = req[z].token
<1>0. /\ TypeOK /\ Bounded /\ req \in [Askers -> Request] /\ z \in Askers /\ z \notin Requests
      /\ Owner \in [Requests -> Procs]
      /\ info \in [Procs -> Token \union {None}] /\ req[z] \in Request
      /\ req[z].pc \notin {"over", "storing"} /\ req'[z].pc \notin {"over", "storing"}
      /\ z = "command" => cmd = "setup"
  <2>1. z = "command" => cmd = "setup"
    BY Owned DEF Inv, Commanded, Refreshing
  <2> QED BY <2>1, Owned, SessionAssumption DEF Inv, TypeOK, Askers, Refreshing
<1>1. ASSUME NEW x \in Requests \union Procs,
            \/ Sends(x) \/ Succeeds(x) \/ Unauthorized(x) \/ Throttled(x)
            \/ ThrottleOver(x) \/ Failed(x) \/ BackoffOver(x) \/ ServerAccepts(x)
            \/ ServerRejects(x) \/ ServerThrottles(x) \/ AnswerFails(x)
     PROVE  info'[z] = info[z] /\ req'[z].token = req[z].token
  <2>1. CASE Sends(x)
    BY <1>0, <2>1 DEF Sends, credentials, Request
  <2>2. CASE Succeeds(x)
    BY <1>0, <1>1, <2>2, NotWaiting DEF Succeeds, Askers, credentials
  <2>3. CASE Unauthorized(x)
    <3>1. x \in Requests /\ x # z /\ UNCHANGED info
      BY <1>0, <2>3 DEF Unauthorized, credentials
    <3>2. req'[z] = req[z]
      <4>1. z \in Askers /\ z # x /\ req[z].pc # "over"
        BY <1>0, <3>1
      <4>2. \/ req'[z] = req[z]
            \/ req[z].pc = "over"
        BY <2>3, <3>1, <4>1, UnauthorizedOthers
      <4> QED BY <4>1, <4>2
    <3> QED BY <3>1, <3>2
  <2>4. CASE Throttled(x)
    <3>1. CASE req' = Ended(x)
      BY <1>0, <1>1, <2>4, <3>1, NotWaiting, RequestNew DEF Askers, Throttled, credentials
    <3>2. CASE req' = [req EXCEPT ![x].pc = "throttled"]
      BY <1>0, <2>4, <3>2 DEF Throttled, credentials, Request
    <3> QED BY <2>4, <3>1, <3>2 DEF Throttled
  <2>5. CASE ThrottleOver(x)
    <3>1. Again(req[x]).token = req[x].token
      BY <1>0, <1>1 DEF Again, Request, Askers
    <3> QED BY <1>0, <2>5, <3>1 DEF ThrottleOver, credentials
  <2>6. CASE Failed(x)
    <3>1. CASE req' = Ended(x)
      BY <1>0, <1>1, <2>6, <3>1, NotWaiting, RequestNew DEF Askers, Failed, credentials
    <3>2. CASE req' = [req EXCEPT ![x].pc = "backoff"]
      BY <1>0, <2>6, <3>2 DEF Failed, credentials, Request
    <3> QED BY <2>6, <3>1, <3>2 DEF Failed
  <2>7. CASE BackoffOver(x)
    <3>1. Again(req[x]).token = req[x].token
      BY <1>0, <1>1 DEF Again, Request, Askers
    <3> QED BY <1>0, <2>7, <3>1 DEF BackoffOver, credentials
  <2>8. CASE ServerAccepts(x)
    BY <1>0, <2>8 DEF ServerAccepts, Answer, credentials, Request
  <2>9. CASE ServerRejects(x)
    BY <1>0, <2>9 DEF ServerRejects, Answer, credentials, Request
  <2>10. CASE ServerThrottles(x)
    BY <1>0, <2>10 DEF ServerThrottles, Answer, credentials, Request
  <2>11. CASE AnswerFails(x)
    BY <1>0, <2>11 DEF AnswerFails, Answer, credentials, Request
  <2> QED BY <2>1, <2>2, <2>3, <2>4, <2>5, <2>6, <2>7, <2>8, <2>9, <2>10, <2>11, <1>1
<1>2. ASSUME NEW r \in Requests,
            Begins(r)
     PROVE  info'[z] = info[z] /\ req'[z].token = req[z].token
  <2>1. CASE Begins(r)
    BY <1>0, <1>2, <2>1 DEF Begins, credentials
  <2> QED BY <2>1, <1>2
<1>3. ASSUME NEW p \in Procs,
            \/ RefreshGiven(p) \/ RefreshRefused(p) \/ StoreDone(p) \/ StoreFails(p)
            \/ GetCachePassword(p) \/ CachePasswordSaved(p)
     PROVE  info'[z] = info[z] /\ req'[z].token = req[z].token
  <2>1. CASE RefreshGiven(p)
    <3>1. CASE req' = Settled(p, "renewed")
      BY <1>0, <1>3, <2>1, <3>1, NotWaiting, RequestNew DEF RefreshGiven
    <3>2. CASE req' = [req EXCEPT ![p].pc = "storing"]
      BY <1>0, <1>3, <2>1, <3>2 DEF RefreshGiven, Request
    <3> QED BY <2>1, <3>1, <3>2 DEF RefreshGiven
  <2>2. CASE RefreshRefused(p)
    BY <1>0, <1>3, <2>2 DEF RefreshRefused, SignOut, Request
  <2>3. CASE StoreDone(p)
    BY <1>0, <1>3, <2>3, NotWaiting, RequestNew DEF StoreDone, credentials
  <2>4. CASE StoreFails(p)
    BY <1>0, <1>3, <2>4, NotWaiting, RequestNew DEF StoreFails, credentials
  <2>5. CASE GetCachePassword(p)
    BY <1>0, <1>3, <2>5 DEF GetCachePassword, credentials, client
  <2>6. CASE CachePasswordSaved(p)
    BY <1>0, <1>3, <2>6 DEF CachePasswordSaved, credentials, client
  <2> QED BY <2>1, <2>2, <2>3, <2>4, <2>5, <2>6, <1>3
<1>4. ASSUME \/ Expires \/ Revoked \/ EngineRestarts \/ CommandStarts
           \/ CommandEnds \/ WebApproved \/ WebSession \/ PasswordAccepted
           \/ PasswordEnds \/ LogsOut \/ CommandStored \/ CommandStoreFails
     PROVE  info'[z] = info[z] /\ req'[z].token = req[z].token
  <2>1. CASE Expires
    BY <1>0, <1>4, <2>1 DEF Expires, credentials, client
  <2>2. CASE Revoked
    BY <1>0, <1>4, <2>2 DEF Revoked, credentials, client
  <2>3. CASE EngineRestarts
    BY <1>0, <2>3, Owned, RequestNew DEF EngineRestarts, Ends, Loads, Procs
  <2>4. CASE CommandStarts
    BY <1>0, <2>4 DEF CommandStarts, Loads, client, Procs
  <2>5. CASE CommandEnds
    BY <1>0, <2>5, Owned, RequestNew DEF CommandEnds, Ends, Loads, Procs
  <2>6. CASE WebApproved
    BY <1>0, <1>4, <2>6 DEF WebApproved, credentials, client
  <2>7. CASE WebSession
    BY <1>0, <2>7 DEF WebSession, SignOut, client, credentials, Procs
  <2>8. CASE PasswordAccepted
    BY <1>0, <2>8 DEF PasswordAccepted, SignOut, client, credentials, Procs
  <2>9. CASE PasswordEnds
    BY <1>0, <2>9 DEF PasswordEnds, SignOut, client, credentials, Procs
  <2>10. CASE LogsOut
    BY <1>0, <2>10 DEF LogsOut, SignOut, client, credentials, Procs
  <2>11. CASE CommandStored
    BY <1>0, <1>4, <2>11 DEF CommandStored, credentials, client
  <2>12. CASE CommandStoreFails
    BY <1>0, <1>4, <2>12 DEF CommandStoreFails, credentials, client
  <2> QED BY <2>1, <2>2, <2>3, <2>4, <2>5, <2>6, <2>7, <2>8, <2>9, <2>10, <2>11, <2>12, <1>4
<1>5. CASE UNCHANGED vars
  BY <1>0, <1>5 DEF vars, credentials, client
<1> QED BY <1>1, <1>2, <1>3, <1>4, <1>5 DEF Next, ClientStep, ServerStep, RefreshStep, LoginStep

(* What is being refreshed is what the process holds. *)
LEMMA HeldStep ==
    ASSUME Inv, [Next]_vars
    PROVE  RefreshHeld'
<1> SUFFICES ASSUME NEW z \in Procs, Refreshing(z)'
    PROVE  info'[z] # None /\ req'[z].token = info'[z]
    BY DEF RefreshHeld
<1>1. z \in Askers /\ z \notin Requests /\ req'[z].pc \notin {"over", "storing"}
    BY Owned DEF Refreshing
<1>2. CASE Refreshing(z)
    BY <1>1, <1>2, RefreshSteady DEF Inv, RefreshHeld
<1>3. CASE req[z].pc = "over"
  <2>1. PICK x \in Requests : /\ Unauthorized(x) /\ info[z] # None
                              /\ req'[z] = [Fresh EXCEPT !.token = info[z]]
    BY <1>1, <1>3, Begun
  <2>2. UNCHANGED info /\ info[z] \in Token \union {None}
    BY <2>1 DEF Unauthorized, credentials, Inv, TypeOK
  <2> QED BY <2>1, <2>2, RequestNew
<1>4. CASE req[z].pc = "storing"
    BY <1>1, <1>4, RequestMoves, RequestNew DEF Moves
<1> QED
    BY <1>2, <1>3, <1>4 DEF Refreshing

-----------------------------------------------------------------------------
(* What a step may make of a login's account. *)
LEMMA ServerMoves ==
    ASSUME Inv, [Next]_vars, NEW m \in Logins
    PROVE  \/ server'[m] \in {server[m], Expired(server[m]), Spent(server[m]), Closed(server[m])}
           \/ Grants(m)
<1>0. TypeOK /\ server \in [Logins -> Account] /\ info \in [Procs -> Token \union {None}]
    BY DEF Inv, TypeOK
<1>a. ASSUME NEW l \in Logins, NEW e,
             server' = [server EXCEPT ![l] = e],
             e \in {Expired(server[l]), Spent(server[l]), Closed(server[l])}
      PROVE  server'[m] \in {server[m], Expired(server[m]), Spent(server[m]), Closed(server[m])}
    BY <1>0, <1>a
<1>b. ASSUME NEW x \in Requests \union Procs, TakesEffect(x)
      PROVE  server'[m] \in {server[m], Spent(server[m])}
  <2>1. CASE x \in Procs
    BY <1>0, <1>b, <2>1, EffectTypes
  <2>2. CASE x \notin Procs
    BY <1>b, <2>2 DEF TakesEffect
  <2> QED BY <2>1, <2>2
<1>1. ASSUME NEW x \in Requests \union Procs,
            \/ Sends(x) \/ Succeeds(x) \/ Unauthorized(x) \/ Throttled(x)
            \/ ThrottleOver(x) \/ Failed(x) \/ BackoffOver(x) \/ ServerAccepts(x)
            \/ ServerRejects(x) \/ ServerThrottles(x) \/ AnswerFails(x)
     PROVE  \/ server'[m] \in {server[m], Expired(server[m]), Spent(server[m]),
                                 Closed(server[m])}
            \/ Grants(m)
  <2>1. CASE Sends(x)
    BY <1>0, <1>1, <2>1 DEF Sends
  <2>2. CASE Succeeds(x)
    BY <1>0, <1>1, <2>2 DEF Succeeds
  <2>3. CASE Unauthorized(x)
    BY <1>0, <1>1, <2>3 DEF Unauthorized
  <2>4. CASE Throttled(x)
    BY <1>0, <1>1, <2>4 DEF Throttled
  <2>5. CASE ThrottleOver(x)
    BY <1>0, <1>1, <2>5 DEF ThrottleOver
  <2>6. CASE Failed(x)
    BY <1>0, <1>1, <2>6 DEF Failed
  <2>7. CASE BackoffOver(x)
    BY <1>0, <1>1, <2>7 DEF BackoffOver
  <2>8. CASE ServerAccepts(x)
    BY <1>1, <2>8, <1>b DEF ServerAccepts
  <2>9. CASE ServerRejects(x)
    BY <1>0, <1>1, <2>9 DEF ServerRejects
  <2>10. CASE ServerThrottles(x)
    BY <1>0, <1>1, <2>10 DEF ServerThrottles
  <2>11. CASE AnswerFails(x)
    BY <1>1, <2>11, <1>b DEF AnswerFails
  <2> QED BY <2>1, <2>2, <2>3, <2>4, <2>5, <2>6, <2>7, <2>8, <2>9, <2>10, <2>11, <1>1
<1>2. ASSUME NEW r \in Requests,
            Begins(r)
     PROVE  \/ server'[m] \in {server[m], Expired(server[m]), Spent(server[m]),
                                 Closed(server[m])}
            \/ Grants(m)
  <2>1. CASE Begins(r)
    BY <1>0, <1>2, <2>1 DEF Begins
  <2> QED BY <2>1, <1>2
<1>3. ASSUME NEW p \in Procs,
            \/ RefreshGiven(p) \/ RefreshRefused(p) \/ StoreDone(p) \/ StoreFails(p)
            \/ GetCachePassword(p) \/ CachePasswordSaved(p)
     PROVE  \/ server'[m] \in {server[m], Expired(server[m]), Spent(server[m]),
                                 Closed(server[m])}
            \/ Grants(m)
  <2>1. CASE RefreshGiven(p)
    BY <1>0, <1>3, <2>1 DEF RefreshGiven
  <2>2. CASE RefreshRefused(p)
    BY <1>0, <1>3, <2>2 DEF RefreshRefused
  <2>3. CASE StoreDone(p)
    BY <1>0, <1>3, <2>3 DEF StoreDone
  <2>4. CASE StoreFails(p)
    BY <1>0, <1>3, <2>4 DEF StoreFails
  <2>5. CASE GetCachePassword(p)
    BY <1>0, <1>3, <2>5 DEF GetCachePassword
  <2>6. CASE CachePasswordSaved(p)
    BY <1>0, <1>3, <2>6 DEF CachePasswordSaved
  <2> QED BY <2>1, <2>2, <2>3, <2>4, <2>5, <2>6, <1>3
<1>4. ASSUME \/ Expires \/ Revoked \/ EngineRestarts \/ CommandStarts
           \/ CommandEnds \/ WebApproved \/ WebSession \/ PasswordAccepted
           \/ PasswordEnds \/ LogsOut \/ CommandStored \/ CommandStoreFails
     PROVE  \/ server'[m] \in {server[m], Expired(server[m]), Spent(server[m]),
                                 Closed(server[m])}
            \/ Grants(m)
  <2>1. CASE Expires
    <3>1. PICK l \in Logins : server' = [server EXCEPT ![l] = Expired(@)]
      BY <2>1 DEF Expires
    <3> QED BY <1>0, <3>1
  <2>2. CASE Revoked
    <3>1. PICK l \in Logins : server' = [server EXCEPT ![l] = Closed(@)]
      BY <2>2 DEF Revoked
    <3> QED BY <1>0, <3>1
  <2>3. CASE EngineRestarts
    BY <1>0, <1>4, <2>3 DEF EngineRestarts
  <2>4. CASE CommandStarts
    BY <1>0, <1>4, <2>4 DEF CommandStarts
  <2>5. CASE CommandEnds
    BY <1>0, <1>4, <2>5 DEF CommandEnds
  <2>6. CASE WebApproved
    <3>1. PICK l \in Logins : Grants(l)
      BY <2>6 DEF WebApproved
    <3>2. CASE l = m
      BY <3>1, <3>2
    <3>3. CASE l # m
      BY <1>0, <3>1, <3>3 DEF Grants
    <3> QED BY <3>2, <3>3
  <2>7. CASE WebSession
    BY <1>0, <1>4, <2>7 DEF WebSession
  <2>8. CASE PasswordAccepted
    <3>1. PICK l \in Logins : Grants(l)
      BY <2>8 DEF PasswordAccepted
    <3>2. CASE l = m
      BY <3>1, <3>2
    <3>3. CASE l # m
      BY <1>0, <3>1, <3>3 DEF Grants
    <3> QED BY <3>2, <3>3
  <2>9. CASE PasswordEnds
    BY <1>0, <1>4, <2>9 DEF PasswordEnds
  <2>10. CASE LogsOut
    <3>1. CASE UNCHANGED server
      BY <3>1
    <3>2. CASE server' = [server EXCEPT ![info["command"].login] = Closed(@)]
      BY <1>0, <3>2
    <3> QED BY <2>10, <3>1, <3>2 DEF LogsOut
  <2>11. CASE CommandStored
    BY <1>0, <1>4, <2>11 DEF CommandStored
  <2>12. CASE CommandStoreFails
    BY <1>0, <1>4, <2>12 DEF CommandStoreFails
  <2> QED BY <2>1, <2>2, <2>3, <2>4, <2>5, <2>6, <2>7, <2>8, <2>9, <2>10, <2>11, <2>12, <1>4
<1>5. CASE UNCHANGED vars
  BY <1>0, <1>5 DEF vars
<1> QED BY <1>1, <1>2, <1>3, <1>4, <1>5 DEF Next, ClientStep, ServerStep, RefreshStep, LoginStep

(* A token that was given out stays so, and one that was given out and is  *)
(* rejected is never accepted again.                                       *)
LEMMA TokensOfTheServer ==
    ASSUME Inv, [Next]_vars, NEW t \in Token \union {None}, Issued(t)
    PROVE  /\ Issued(t)'
           /\ ~Accepts(t) => ~Accepts(t)'
           /\ ~Refreshable(t) => ~Refreshable(t)'
<1>1. CASE t = None
    BY <1>1 DEF Issued, Accepts, Refreshable
<1>2. CASE t # None
  <2>1. t.login \in Logins /\ t.gen \in Nat /\ server[t.login] \in Account
    BY <1>2 DEF Token, Inv, TypeOK
  <2> DEFINE a == server[t.login]
             b == server'[t.login]
  <2>2. a.gen \in Nat /\ a.live \in BOOLEAN /\ a.fresh \in BOOLEAN
    BY <2>1 DEF Account
  <2>3. t.gen <= a.gen /\ (a.live \/ a.gen > 0)
    BY <1>2 DEF Issued
  <2>4. \/ b \in {a, Expired(a), Spent(a), Closed(a)}
        \/ Grants(t.login)
    BY <2>1, ServerMoves
  <2>5. ~Grants(t.login)
    BY <2>2, <2>3 DEF Grants
  <2> HIDE DEF a, b
  <2>6. a \in Account
    BY <2>1 DEF a
  <2>7. \/ b = a
        \/ b.gen = a.gen /\ b.live = a.live /\ ~b.fresh
        \/ b.gen = a.gen + 1 /\ b.live = a.live
        \/ b.gen = a.gen + 1 /\ ~b.live
    BY <2>4, <2>5, <2>6, AccountKept
  <2>8. t.gen <= b.gen /\ (b.live \/ b.gen > 0)
    BY <2>1, <2>2, <2>3, <2>7
  <2>9. ~(a.live /\ a.gen = t.gen) => ~(b.live /\ b.gen = t.gen)
    BY <2>1, <2>2, <2>3, <2>7
  <2>10. ~(a.live /\ a.gen = t.gen /\ a.fresh) => ~(b.live /\ b.gen = t.gen /\ b.fresh)
    BY <2>1, <2>2, <2>3, <2>7
  <2>11. Issued(t)' = (t # None => t.gen <= b.gen /\ (b.live \/ b.gen > 0))
    BY DEF Issued, b
  <2>12. /\ Refreshable(t) = (t # None /\ a.live /\ a.gen = t.gen)
         /\ Refreshable(t)' = (t # None /\ b.live /\ b.gen = t.gen)
         /\ Accepts(t) = (Refreshable(t) /\ a.fresh)
         /\ Accepts(t)' = (Refreshable(t)' /\ b.fresh)
    BY DEF Refreshable, Accepts, a, b
  <2> QED BY <1>2, <2>8, <2>9, <2>10, <2>11, <2>12
<1> QED BY <1>1, <1>2

-----------------------------------------------------------------------------
(* Where the answers come from. *)
LEMMA AnswerMade ==
    ASSUME Inv, [Next]_vars, NEW y \in Askers, req[y].pc = "sent", req'[y].pc = "answered"
    PROVE  /\ req'[y].token = req[y].token
           /\ \/ req'[y].answer \in {"throttled", "failed"}
              \/ req'[y].answer = "ok" /\ ServerAccepts(y)
              \/ /\ req'[y].answer = IF y \in Procs THEN "refused" ELSE "unauthorized"
                 /\ ServerRejects(y)
<1>0. /\ req \in [Askers -> Request] /\ req[y] \in Request
      /\ req'[y] # req[y] /\ req'[y] # Over
      /\ SessionAssumption /\ y \in Requests \union Procs
    BY SessionAssumption, RequestNew DEF Inv, TypeOK, Askers
<1>1. ASSUME NEW x \in Requests \union Procs,
            \/ Sends(x) \/ Succeeds(x) \/ Unauthorized(x) \/ Throttled(x)
            \/ ThrottleOver(x) \/ Failed(x) \/ BackoffOver(x) \/ ServerAccepts(x)
            \/ ServerRejects(x) \/ ServerThrottles(x) \/ AnswerFails(x)
     PROVE  /\ req'[y].token = req[y].token
            /\ \/ req'[y].answer \in {"throttled", "failed"}
               \/ req'[y].answer = "ok" /\ ServerAccepts(y)
               \/ /\ req'[y].answer = IF y \in Procs THEN "refused" ELSE "unauthorized"
                  /\ ServerRejects(y)
  <2>1. CASE Sends(x)
    BY <1>0, <1>1, <2>1 DEF Sends, client
  <2>2. CASE Succeeds(x)
    BY <1>0, <1>1, <2>2, NotWaiting DEF Succeeds, Askers
  <2>3. CASE Unauthorized(x)
    <3>1. x \in Requests /\ x # y
      BY <1>0, <2>3 DEF Unauthorized, Answered
    <3> QED BY <1>0, <2>3, <3>1, UnauthorizedOthers
  <2>4. CASE Throttled(x)
    <3>1. CASE req' = Ended(x)
      BY <1>0, <1>1, <3>1, NotWaiting DEF Askers
    <3>2. CASE req' # Ended(x)
      BY <1>0, <2>4, <3>2 DEF Throttled, Answered
    <3> QED BY <3>1, <3>2
  <2>5. CASE ThrottleOver(x)
    BY <1>0, <1>1, <2>5 DEF ThrottleOver, client
  <2>6. CASE Failed(x)
    <3>1. CASE req' = Ended(x)
      BY <1>0, <1>1, <3>1, NotWaiting DEF Askers
    <3>2. CASE req' # Ended(x)
      BY <1>0, <2>6, <3>2 DEF Failed, Answered
    <3> QED BY <3>1, <3>2
  <2>7. CASE BackoffOver(x)
    BY <1>0, <1>1, <2>7 DEF BackoffOver, client
  <2>8. CASE ServerAccepts(x)
    <3>1. y = x
      BY <1>0, <2>8 DEF ServerAccepts, Answer
    <3>2. req'[y].answer = "ok" /\ req'[y].token = req[y].token
      BY <1>0, <2>8, <3>1 DEF ServerAccepts, Answer, Request
    <3> QED BY <2>8, <3>1, <3>2
  <2>9. CASE ServerRejects(x)
    <3>1. y = x
      BY <1>0, <2>9 DEF ServerRejects, Answer
    <3>2. /\ req'[y].answer = IF y \in Procs THEN "refused" ELSE "unauthorized"
          /\ req'[y].token = req[y].token
      BY <1>0, <2>9, <3>1 DEF ServerRejects, Answer, Request
    <3> QED BY <2>9, <3>1, <3>2
  <2>10. CASE ServerThrottles(x)
    <3>1. y = x
      BY <1>0, <2>10 DEF ServerThrottles, Answer
    <3>2. req'[y].answer \in {"throttled", "failed"} /\ req'[y].token = req[y].token
      BY <1>0, <2>10, <3>1 DEF ServerThrottles, Answer, Request
    <3> QED BY <2>10, <3>1, <3>2
  <2>11. CASE AnswerFails(x)
    <3>1. y = x
      BY <1>0, <2>11 DEF AnswerFails, Answer
    <3>2. req'[y].answer \in {"throttled", "failed"} /\ req'[y].token = req[y].token
      BY <1>0, <2>11, <3>1 DEF AnswerFails, Answer, Request
    <3> QED BY <2>11, <3>1, <3>2
  <2> QED BY <2>1, <2>2, <2>3, <2>4, <2>5, <2>6, <2>7, <2>8, <2>9, <2>10, <2>11, <1>1
<1>2. ASSUME NEW r \in Requests,
            Begins(r)
     PROVE  /\ req'[y].token = req[y].token
            /\ \/ req'[y].answer \in {"throttled", "failed"}
               \/ req'[y].answer = "ok" /\ ServerAccepts(y)
               \/ /\ req'[y].answer = IF y \in Procs THEN "refused" ELSE "unauthorized"
                  /\ ServerRejects(y)
  <2>1. CASE Begins(r)
    BY <1>0, <1>2, <2>1 DEF Begins, client
  <2> QED BY <2>1, <1>2
<1>3. ASSUME NEW p \in Procs,
            \/ RefreshGiven(p) \/ RefreshRefused(p) \/ StoreDone(p) \/ StoreFails(p)
            \/ GetCachePassword(p) \/ CachePasswordSaved(p)
     PROVE  /\ req'[y].token = req[y].token
            /\ \/ req'[y].answer \in {"throttled", "failed"}
               \/ req'[y].answer = "ok" /\ ServerAccepts(y)
               \/ /\ req'[y].answer = IF y \in Procs THEN "refused" ELSE "unauthorized"
                  /\ ServerRejects(y)
  <2>1. CASE RefreshGiven(p)
    <3>1. CASE req' = Settled(p, "renewed")
      BY <1>0, <1>3, <3>1, NotWaiting
    <3>2. CASE req' # Settled(p, "renewed")
      BY <1>0, <2>1, <3>2 DEF RefreshGiven, Answered
    <3> QED BY <3>1, <3>2
  <2>2. CASE RefreshRefused(p)
    BY <1>0, <2>2 DEF RefreshRefused, Answered
  <2>3. CASE StoreDone(p)
    BY <1>0, <1>3, <2>3, NotWaiting DEF StoreDone
  <2>4. CASE StoreFails(p)
    BY <1>0, <1>3, <2>4, NotWaiting DEF StoreFails
  <2>5. CASE GetCachePassword(p)
    BY <1>0, <1>3, <2>5 DEF GetCachePassword, client
  <2>6. CASE CachePasswordSaved(p)
    BY <1>0, <1>3, <2>6 DEF CachePasswordSaved, client
  <2> QED BY <2>1, <2>2, <2>3, <2>4, <2>5, <2>6, <1>3
<1>4. ASSUME \/ Expires \/ Revoked \/ EngineRestarts \/ CommandStarts
           \/ CommandEnds \/ WebApproved \/ WebSession \/ PasswordAccepted
           \/ PasswordEnds \/ LogsOut \/ CommandStored \/ CommandStoreFails
     PROVE  /\ req'[y].token = req[y].token
            /\ \/ req'[y].answer \in {"throttled", "failed"}
               \/ req'[y].answer = "ok" /\ ServerAccepts(y)
               \/ /\ req'[y].answer = IF y \in Procs THEN "refused" ELSE "unauthorized"
                  /\ ServerRejects(y)
  <2>1. CASE Expires
    BY <1>0, <1>4, <2>1 DEF Expires, client
  <2>2. CASE Revoked
    BY <1>0, <1>4, <2>2 DEF Revoked, client
  <2>3. CASE EngineRestarts
    <3>1. req'[y] = req[y] \/ req'[y] = Over
      BY <1>0, <2>3 DEF EngineRestarts, Ends
    <3> QED BY <1>0, <3>1
  <2>4. CASE CommandStarts
    BY <1>0, <1>4, <2>4 DEF CommandStarts, client
  <2>5. CASE CommandEnds
    <3>1. req'[y] = req[y] \/ req'[y] = Over
      BY <1>0, <2>5 DEF CommandEnds, Ends
    <3> QED BY <1>0, <3>1
  <2>6. CASE WebApproved
    BY <1>0, <1>4, <2>6 DEF WebApproved, client
  <2>7. CASE WebSession
    BY <1>0, <1>4, <2>7 DEF WebSession, client
  <2>8. CASE PasswordAccepted
    BY <1>0, <1>4, <2>8 DEF PasswordAccepted, client
  <2>9. CASE PasswordEnds
    BY <1>0, <1>4, <2>9 DEF PasswordEnds, client
  <2>10. CASE LogsOut
    BY <1>0, <1>4, <2>10 DEF LogsOut, client
  <2>11. CASE CommandStored
    BY <1>0, <1>4, <2>11 DEF CommandStored, client
  <2>12. CASE CommandStoreFails
    BY <1>0, <1>4, <2>12 DEF CommandStoreFails, client
  <2> QED BY <2>1, <2>2, <2>3, <2>4, <2>5, <2>6, <2>7, <2>8, <2>9, <2>10, <2>11, <2>12, <1>4
<1>5. CASE UNCHANGED vars
  BY <1>0, <1>5 DEF vars, client
<1> QED BY <1>1, <1>2, <1>3, <1>4, <1>5 DEF Next, ClientStep, ServerStep, RefreshStep, LoginStep

(* A session that is unknown stays so while a request of the process runs. *)
LEMMA UnknownStays ==
    ASSUME Inv, [Next]_vars, NEW y \in Requests, info[Owner[y]] = None,
           req[y].pc # "over", req'[y].pc # "over"
    PROVE  info'[Owner[y]] = None
<1> DEFINE z == Owner[y]
<1>0. /\ TypeOK /\ info[z] = None /\ z \in Procs /\ Own(y) = z /\ y \in Askers /\ y \notin Procs
      /\ info \in [Procs -> Token \union {None}] /\ req \in [Askers -> Request]
      /\ z = "command" => cmd = "setup"
      /\ ~Refreshing(z)
  <2>1. z \in Procs /\ Own(y) = z /\ y \in Askers /\ y \notin Procs
    BY Owned, SessionAssumption
  <2>2. z = "command" => cmd = "setup"
    BY <2>1 DEF Inv, Commanded
  <2>3. ~Refreshing(z)
    BY <2>1 DEF Inv, RefreshHeld
  <2> QED BY <2>1, <2>2, <2>3 DEF Inv, TypeOK, Askers
<1> HIDE DEF z
<1> SUFFICES info'[z] = None
    BY DEF z
<1>1. ASSUME NEW x \in Requests \union Procs,
            \/ Sends(x) \/ Succeeds(x) \/ Unauthorized(x) \/ Throttled(x)
            \/ ThrottleOver(x) \/ Failed(x) \/ BackoffOver(x) \/ ServerAccepts(x)
            \/ ServerRejects(x) \/ ServerThrottles(x) \/ AnswerFails(x)
     PROVE  info'[z] = None
  <2>1. CASE Sends(x)
    BY <1>0, <2>1 DEF Sends, credentials
  <2>2. CASE Succeeds(x)
    BY <1>0, <2>2 DEF Succeeds, credentials
  <2>3. CASE Unauthorized(x)
    BY <1>0, <2>3 DEF Unauthorized, credentials
  <2>4. CASE Throttled(x)
    BY <1>0, <2>4 DEF Throttled, credentials
  <2>5. CASE ThrottleOver(x)
    BY <1>0, <2>5 DEF ThrottleOver, credentials
  <2>6. CASE Failed(x)
    BY <1>0, <2>6 DEF Failed, credentials
  <2>7. CASE BackoffOver(x)
    BY <1>0, <2>7 DEF BackoffOver, credentials
  <2>8. CASE ServerAccepts(x)
    BY <1>0, <2>8 DEF ServerAccepts, credentials
  <2>9. CASE ServerRejects(x)
    BY <1>0, <2>9 DEF ServerRejects, credentials
  <2>10. CASE ServerThrottles(x)
    BY <1>0, <2>10 DEF ServerThrottles, credentials
  <2>11. CASE AnswerFails(x)
    BY <1>0, <2>11 DEF AnswerFails, credentials
  <2> QED BY <2>1, <2>2, <2>3, <2>4, <2>5, <2>6, <2>7, <2>8, <2>9, <2>10, <2>11, <1>1
<1>2. ASSUME NEW r \in Requests,
            Begins(r)
     PROVE  info'[z] = None
  <2>1. CASE Begins(r)
    BY <1>0, <2>1 DEF Begins, credentials
  <2> QED BY <2>1, <1>2
<1>3. ASSUME NEW p \in Procs,
            \/ RefreshGiven(p) \/ RefreshRefused(p) \/ StoreDone(p) \/ StoreFails(p)
            \/ GetCachePassword(p) \/ CachePasswordSaved(p)
     PROVE  info'[z] = None
  <2>1. CASE RefreshGiven(p)
    BY <1>0, <2>1 DEF RefreshGiven, Answered, Refreshing
  <2>2. CASE RefreshRefused(p)
    BY <1>0, <2>2 DEF RefreshRefused, SignOut
  <2>3. CASE StoreDone(p)
    BY <1>0, <2>3 DEF StoreDone, credentials
  <2>4. CASE StoreFails(p)
    BY <1>0, <2>4 DEF StoreFails, credentials
  <2>5. CASE GetCachePassword(p)
    BY <1>0, <2>5 DEF GetCachePassword, credentials
  <2>6. CASE CachePasswordSaved(p)
    BY <1>0, <2>6 DEF CachePasswordSaved, credentials
  <2> QED BY <2>1, <2>2, <2>3, <2>4, <2>5, <2>6, <1>3
<1>4. ASSUME \/ Expires \/ Revoked \/ EngineRestarts \/ CommandStarts
           \/ CommandEnds \/ WebApproved \/ WebSession \/ PasswordAccepted
           \/ PasswordEnds \/ LogsOut \/ CommandStored \/ CommandStoreFails
     PROVE  info'[z] = None
  <2>1. CASE Expires
    BY <1>0, <2>1 DEF Expires, credentials
  <2>2. CASE Revoked
    BY <1>0, <2>2 DEF Revoked, credentials
  <2>3. CASE EngineRestarts
    <3>1. z = "engine" => req'[y] = Over
      BY <1>0, <2>3 DEF EngineRestarts, Ends
    <3> QED BY <1>0, <2>3, <3>1, RequestNew DEF EngineRestarts, Loads, Procs
  <2>4. CASE CommandStarts
    BY <1>0, <2>4 DEF CommandStarts, Loads, Procs
  <2>5. CASE CommandEnds
    BY <1>0, <2>5 DEF CommandEnds, Loads, Procs
  <2>6. CASE WebApproved
    BY <1>0, <2>6 DEF WebApproved, credentials
  <2>7. CASE WebSession
    BY <1>0, <2>7 DEF WebSession, SignOut, Procs, credentials
  <2>8. CASE PasswordAccepted
    BY <1>0, <2>8 DEF PasswordAccepted, SignOut, Procs, credentials
  <2>9. CASE PasswordEnds
    BY <1>0, <2>9 DEF PasswordEnds, SignOut, Procs, credentials
  <2>10. CASE LogsOut
    BY <1>0, <2>10 DEF LogsOut, SignOut, Procs, credentials
  <2>11. CASE CommandStored
    BY <1>0, <2>11 DEF CommandStored, credentials
  <2>12. CASE CommandStoreFails
    BY <1>0, <2>12 DEF CommandStoreFails, credentials
  <2> QED BY <2>1, <2>2, <2>3, <2>4, <2>5, <2>6, <2>7, <2>8, <2>9, <2>10, <2>11, <2>12, <1>4
<1>5. CASE UNCHANGED vars
  BY <1>0, <1>5 DEF vars, credentials
<1> QED BY <1>1, <1>2, <1>3, <1>4, <1>5 DEF Next, ClientStep, ServerStep, RefreshStep, LoginStep

(* What a request was told is still so. *)
LEMMA RejectedStep ==
    ASSUME Inv, [Next]_vars
    PROVE  Rejected'
<1> SUFFICES ASSUME NEW y \in Requests
    PROVE  /\ (req'[y].pc = "answered" /\ req'[y].answer = "unauthorized")
                => ~Accepts(req[y].token)'
           /\ req'[y].pc \in {"sent", "answered"} /\ req'[y].token = None
                => info'[Owner[y]] = None
    BY DEF Rejected, Answered
<1>1. /\ y \in Askers /\ y \notin Procs /\ Own(y) = Owner[y] /\ req[y] \in Request
      /\ Moves(y, req[y], req'[y])
    BY Owned, RequestMoves DEF Inv, TypeOK, Askers
<1>2. PICK t \in Token \union {None} : t = req[y].token
    BY <1>1 DEF Request
<1>3. Issued(t) /\ (req[y].pc = "answered" /\ req[y].answer = "unauthorized" => ~Accepts(t))
    BY <1>1, <1>2 DEF Inv, AllIssued, Rejected, Answered
<1>4. req'[y].token = t => (Accepts(req[y].token)' <=> Accepts(t)')
    BY DEF Accepts, Refreshable
<1>5. ASSUME req'[y].pc = "answered", req'[y].answer = "unauthorized"
      PROVE  ~Accepts(req[y].token)'
  <2>1. CASE req'[y] = req[y]
    BY <1>2, <1>3, <1>4, <1>5, <2>1, TokensOfTheServer
  <2>2. CASE req[y].pc = "sent"
    <3>1. ServerRejects(y) /\ req'[y].token = t
      BY <1>1, <1>2, <1>5, <2>2, AnswerMade
    <3>2. ~Accepts(t)
      BY <1>1, <1>2, <3>1 DEF ServerRejects
    <3> QED BY <1>2, <1>3, <1>4, <3>1, <3>2, TokensOfTheServer
  <2> QED BY <1>1, <1>5, <2>1, <2>2, RequestNew DEF Moves
<1>6. ASSUME req'[y].pc \in {"sent", "answered"}, req'[y].token = None
      PROVE  info'[Owner[y]] = None
  <2>1. req[y].pc # "over"
    BY <1>1, <1>6, RequestNew DEF Moves
  <2>2. info[Owner[y]] = None
    <3>1. CASE req[y].pc \in {"sent", "answered"} /\ req[y].token = None
      BY <3>1 DEF Inv, Rejected
    <3>2. CASE req'[y].token = info[Owner[y]]
      BY <1>6, <3>2
    <3> QED BY <1>1, <1>6, <3>1, <3>2, RequestNew DEF Moves
  <2> QED BY <1>6, <2>1, <2>2, UnknownStays
<1> QED
    BY <1>5, <1>6

-----------------------------------------------------------------------------
(* Where tokens come from. *)
LEMMA InfoMoves ==
    ASSUME Inv, [Next]_vars, NEW z \in Procs
    PROVE  \/ info'[z] \in {info[z], None}
           \/ store # None /\ info'[z] = store.info
           \/ job["engine"].value # None /\ info'[z] = job["engine"].value.info
           \/ Answered(z, "ok") /\ info'[z] = Renewed(req[z].token)
           \/ cmd = "web" /\ info'[z] = [login |-> key["command"], gen |-> 0]
           \/ \E l \in Logins : Grants(l) /\ info'[z] = [login |-> l, gen |-> 0]
<1>0. info \in [Procs -> Token \union {None}] /\ "engine" \in Procs /\ "command" \in Procs
    BY DEF Inv, TypeOK, Procs
<1>1. ASSUME NEW x \in Requests \union Procs,
            \/ Sends(x) \/ Succeeds(x) \/ Unauthorized(x) \/ Throttled(x)
            \/ ThrottleOver(x) \/ Failed(x) \/ BackoffOver(x) \/ ServerAccepts(x)
            \/ ServerRejects(x) \/ ServerThrottles(x) \/ AnswerFails(x)
     PROVE  \/ info'[z] \in {info[z], None}
            \/ store # None /\ info'[z] = store.info
            \/ job["engine"].value # None /\ info'[z] = job["engine"].value.info
            \/ Answered(z, "ok") /\ info'[z] = Renewed(req[z].token)
            \/ cmd = "web" /\ info'[z] = [login |-> key["command"], gen |-> 0]
            \/ \E l \in Logins : Grants(l) /\ info'[z] = [login |-> l, gen |-> 0]
  <2>1. CASE Sends(x)
    BY <1>0, <1>1, <2>1 DEF Sends, credentials
  <2>2. CASE Succeeds(x)
    BY <1>0, <1>1, <2>2 DEF Succeeds, credentials
  <2>3. CASE Unauthorized(x)
    BY <1>0, <1>1, <2>3 DEF Unauthorized, credentials
  <2>4. CASE Throttled(x)
    BY <1>0, <1>1, <2>4 DEF Throttled, credentials
  <2>5. CASE ThrottleOver(x)
    BY <1>0, <1>1, <2>5 DEF ThrottleOver, credentials
  <2>6. CASE Failed(x)
    BY <1>0, <1>1, <2>6 DEF Failed, credentials
  <2>7. CASE BackoffOver(x)
    BY <1>0, <1>1, <2>7 DEF BackoffOver, credentials
  <2>8. CASE ServerAccepts(x)
    BY <1>0, <1>1, <2>8 DEF ServerAccepts, credentials
  <2>9. CASE ServerRejects(x)
    BY <1>0, <1>1, <2>9 DEF ServerRejects, credentials
  <2>10. CASE ServerThrottles(x)
    BY <1>0, <1>1, <2>10 DEF ServerThrottles, credentials
  <2>11. CASE AnswerFails(x)
    BY <1>0, <1>1, <2>11 DEF AnswerFails, credentials
  <2> QED BY <2>1, <2>2, <2>3, <2>4, <2>5, <2>6, <2>7, <2>8, <2>9, <2>10, <2>11, <1>1
<1>2. ASSUME NEW r \in Requests,
            Begins(r)
     PROVE  \/ info'[z] \in {info[z], None}
            \/ store # None /\ info'[z] = store.info
            \/ job["engine"].value # None /\ info'[z] = job["engine"].value.info
            \/ Answered(z, "ok") /\ info'[z] = Renewed(req[z].token)
            \/ cmd = "web" /\ info'[z] = [login |-> key["command"], gen |-> 0]
            \/ \E l \in Logins : Grants(l) /\ info'[z] = [login |-> l, gen |-> 0]
  <2>1. CASE Begins(r)
    BY <1>0, <1>2, <2>1 DEF Begins, credentials
  <2> QED BY <2>1, <1>2
<1>3. ASSUME NEW p \in Procs,
            \/ RefreshGiven(p) \/ RefreshRefused(p) \/ StoreDone(p) \/ StoreFails(p)
            \/ GetCachePassword(p) \/ CachePasswordSaved(p)
     PROVE  \/ info'[z] \in {info[z], None}
            \/ store # None /\ info'[z] = store.info
            \/ job["engine"].value # None /\ info'[z] = job["engine"].value.info
            \/ Answered(z, "ok") /\ info'[z] = Renewed(req[z].token)
            \/ cmd = "web" /\ info'[z] = [login |-> key["command"], gen |-> 0]
            \/ \E l \in Logins : Grants(l) /\ info'[z] = [login |-> l, gen |-> 0]
  <2>1. CASE RefreshGiven(p)
    BY <1>0, <1>3, <2>1 DEF RefreshGiven, credentials
  <2>2. CASE RefreshRefused(p)
    BY <1>0, <2>2 DEF RefreshRefused, SignOut
  <2>3. CASE StoreDone(p)
    BY <1>0, <1>3, <2>3 DEF StoreDone, credentials
  <2>4. CASE StoreFails(p)
    BY <1>0, <1>3, <2>4 DEF StoreFails, credentials
  <2>5. CASE GetCachePassword(p)
    BY <1>0, <1>3, <2>5 DEF GetCachePassword, credentials
  <2>6. CASE CachePasswordSaved(p)
    BY <1>0, <1>3, <2>6 DEF CachePasswordSaved, credentials
  <2> QED BY <2>1, <2>2, <2>3, <2>4, <2>5, <2>6, <1>3
<1>4. ASSUME \/ Expires \/ Revoked \/ EngineRestarts \/ CommandStarts
           \/ CommandEnds \/ WebApproved \/ WebSession \/ PasswordAccepted
           \/ PasswordEnds \/ LogsOut \/ CommandStored \/ CommandStoreFails
     PROVE  \/ info'[z] \in {info[z], None}
            \/ store # None /\ info'[z] = store.info
            \/ job["engine"].value # None /\ info'[z] = job["engine"].value.info
            \/ Answered(z, "ok") /\ info'[z] = Renewed(req[z].token)
            \/ cmd = "web" /\ info'[z] = [login |-> key["command"], gen |-> 0]
            \/ \E l \in Logins : Grants(l) /\ info'[z] = [login |-> l, gen |-> 0]
  <2>1. CASE Expires
    BY <1>0, <1>4, <2>1 DEF Expires, credentials
  <2>2. CASE Revoked
    BY <1>0, <1>4, <2>2 DEF Revoked, credentials
  <2>3. CASE EngineRestarts
    <3>1. PICK s \in {store} \union (IF job["engine"] = NoJob THEN {} ELSE {job["engine"].value}) :
              Loads("engine", s)
      BY <2>3 DEF EngineRestarts
    <3> QED BY <1>0, <3>1 DEF Loads
  <2>4. CASE CommandStarts
    BY <1>0, <2>4 DEF CommandStarts, Loads
  <2>5. CASE CommandEnds
    BY <1>0, <2>5 DEF CommandEnds, Loads
  <2>6. CASE WebApproved
    BY <1>0, <1>4, <2>6 DEF WebApproved, credentials
  <2>7. CASE WebSession
    BY <1>0, <1>4, <2>7 DEF WebSession, credentials
  <2>8. CASE PasswordAccepted
    <3>1. PICK l \in Logins : /\ Grants(l)
                              /\ info' = [info EXCEPT !["command"] = [login |-> l, gen |-> 0]]
      BY <2>8 DEF PasswordAccepted
    <3> QED BY <1>0, <3>1
  <2>9. CASE PasswordEnds
    BY <1>0, <2>9 DEF PasswordEnds, SignOut, credentials
  <2>10. CASE LogsOut
    BY <1>0, <2>10 DEF LogsOut, SignOut, credentials
  <2>11. CASE CommandStored
    BY <1>0, <1>4, <2>11 DEF CommandStored, credentials
  <2>12. CASE CommandStoreFails
    BY <1>0, <1>4, <2>12 DEF CommandStoreFails, credentials
  <2> QED BY <2>1, <2>2, <2>3, <2>4, <2>5, <2>6, <2>7, <2>8, <2>9, <2>10, <2>11, <2>12, <1>4
<1>5. CASE UNCHANGED vars
  BY <1>0, <1>5 DEF vars, credentials
<1> QED BY <1>1, <1>2, <1>3, <1>4, <1>5 DEF Next, ClientStep, ServerStep, RefreshStep, LoginStep

(* Every write of the store is of a session the process has or gets. *)
LEMMA JobMoves ==
    ASSUME Inv, [Next]_vars, NEW z \in Procs
    PROVE  \/ job'[z] = job[z]
           \/ job'[z].value = None
           \/ job'[z].value.info \in {info[z], info'[z]}
<1>0. /\ info \in [Procs -> Token \union {None}] /\ "engine" \in Procs /\ "command" \in Procs
      /\ job \in [Procs -> Job]
    BY DEF Inv, TypeOK, Procs
<1>a. NoJob.value = None /\ Erase.value = None
    BY DEF NoJob, Erase
<1>1. ASSUME NEW x \in Requests \union Procs,
            \/ Sends(x) \/ Succeeds(x) \/ Unauthorized(x) \/ Throttled(x)
            \/ ThrottleOver(x) \/ Failed(x) \/ BackoffOver(x) \/ ServerAccepts(x)
            \/ ServerRejects(x) \/ ServerThrottles(x) \/ AnswerFails(x)
     PROVE  \/ job'[z] = job[z]
            \/ job'[z].value = None
            \/ job'[z].value.info \in {info[z], info'[z]}
  <2>1. CASE Sends(x)
    BY <1>0, <1>1, <2>1 DEF Sends, writes
  <2>2. CASE Succeeds(x)
    BY <1>0, <1>1, <2>2 DEF Succeeds, writes
  <2>3. CASE Unauthorized(x)
    BY <1>0, <1>1, <2>3 DEF Unauthorized, writes
  <2>4. CASE Throttled(x)
    BY <1>0, <1>1, <2>4 DEF Throttled, writes
  <2>5. CASE ThrottleOver(x)
    BY <1>0, <1>1, <2>5 DEF ThrottleOver, writes
  <2>6. CASE Failed(x)
    BY <1>0, <1>1, <2>6 DEF Failed, writes
  <2>7. CASE BackoffOver(x)
    BY <1>0, <1>1, <2>7 DEF BackoffOver, writes
  <2>8. CASE ServerAccepts(x)
    BY <1>0, <1>1, <2>8 DEF ServerAccepts, writes
  <2>9. CASE ServerRejects(x)
    BY <1>0, <1>1, <2>9 DEF ServerRejects, writes
  <2>10. CASE ServerThrottles(x)
    BY <1>0, <1>1, <2>10 DEF ServerThrottles, writes
  <2>11. CASE AnswerFails(x)
    BY <1>0, <1>1, <2>11 DEF AnswerFails, writes
  <2> QED BY <2>1, <2>2, <2>3, <2>4, <2>5, <2>6, <2>7, <2>8, <2>9, <2>10, <2>11, <1>1
<1>2. ASSUME NEW r \in Requests,
            Begins(r)
     PROVE  \/ job'[z] = job[z]
            \/ job'[z].value = None
            \/ job'[z].value.info \in {info[z], info'[z]}
  <2>1. CASE Begins(r)
    BY <1>0, <1>2, <2>1 DEF Begins, writes
  <2> QED BY <2>1, <1>2
<1>3. ASSUME NEW p \in Procs,
            \/ RefreshGiven(p) \/ RefreshRefused(p) \/ StoreDone(p) \/ StoreFails(p)
            \/ GetCachePassword(p) \/ CachePasswordSaved(p)
     PROVE  \/ job'[z] = job[z]
            \/ job'[z].value = None
            \/ job'[z].value.info \in {info[z], info'[z]}
  <2>1. CASE RefreshGiven(p)
    <3>1. CASE UNCHANGED job
      BY <3>1
    <3>2. CASE z # p
      BY <1>0, <2>1, <3>2 DEF RefreshGiven
    <3>3. CASE /\ z = p
               /\ job' = [job EXCEPT ![p] =
                            Write([Persisted(p) EXCEPT !.info = Renewed(req[p].token)])]
      <4>1. job'[z] = Write([Persisted(p) EXCEPT !.info = Renewed(req[p].token)])
        BY <1>0, <3>3
      <4>2. job'[z].value.info = Renewed(req[p].token)
        BY <4>1 DEF Write, Persisted
      <4> QED BY <1>0, <1>3, <2>1, <3>3, <4>2 DEF RefreshGiven
    <3> QED BY <2>1, <3>1, <3>2, <3>3 DEF RefreshGiven
  <2>2. CASE RefreshRefused(p)
    BY <1>0, <1>a, <2>2 DEF RefreshRefused, SignOut
  <2>3. CASE StoreDone(p)
    BY <1>0, <1>a, <2>3 DEF StoreDone, Ends
  <2>4. CASE StoreFails(p)
    BY <1>0, <1>a, <2>4 DEF StoreFails, Ends
  <2>5. CASE GetCachePassword(p)
    BY <1>0, <1>3, <2>5 DEF GetCachePassword, writes
  <2>6. CASE CachePasswordSaved(p)
    BY <1>0, <1>3, <2>6 DEF CachePasswordSaved, writes
  <2> QED BY <2>1, <2>2, <2>3, <2>4, <2>5, <2>6, <1>3
<1>4. ASSUME \/ Expires \/ Revoked \/ EngineRestarts \/ CommandStarts
           \/ CommandEnds \/ WebApproved \/ WebSession \/ PasswordAccepted
           \/ PasswordEnds \/ LogsOut \/ CommandStored \/ CommandStoreFails
     PROVE  \/ job'[z] = job[z]
            \/ job'[z].value = None
            \/ job'[z].value.info \in {info[z], info'[z]}
  <2>1. CASE Expires
    BY <1>0, <1>4, <2>1 DEF Expires, writes
  <2>2. CASE Revoked
    BY <1>0, <1>4, <2>2 DEF Revoked, writes
  <2>3. CASE EngineRestarts
    BY <1>0, <1>a, <2>3 DEF EngineRestarts, Ends
  <2>4. CASE CommandStarts
    BY <1>0, <1>4, <2>4 DEF CommandStarts, writes
  <2>5. CASE CommandEnds
    BY <1>0, <1>a, <2>5 DEF CommandEnds, Ends
  <2>6. CASE WebApproved
    <3>1. PICK l \in Logins :
              \/ UNCHANGED job
              \/ job' = [job EXCEPT !["command"] = Write([Persisted("command") EXCEPT !.key = l])]
      BY <2>6 DEF WebApproved
    <3>2. CASE z = "command" /\ job'[z] = Write([Persisted("command") EXCEPT !.key = l])
      BY <3>2 DEF Write, Persisted
    <3> QED BY <1>0, <3>1, <3>2
  <2>7. CASE WebSession
    <3> DEFINE new == [login |-> key["command"], gen |-> 0]
    <3>1. /\ job' = [job EXCEPT !["command"] = Write([Persisted("command") EXCEPT !.info = new])]
          /\ info' = [info EXCEPT !["command"] = new]
      BY <2>7 DEF WebSession
    <3> HIDE DEF new
    <3>2. CASE z = "command"
      <4>1. job'[z].value.info = new
        BY <1>0, <3>1, <3>2 DEF Write, Persisted
      <4> QED BY <1>0, <3>1, <3>2, <4>1
    <3> QED BY <1>0, <3>1, <3>2
  <2>8. CASE PasswordAccepted
    <3>1. PICK l \in Logins :
              /\ info' = [info EXCEPT !["command"] = [login |-> l, gen |-> 0]]
              /\ \/ UNCHANGED job
                 \/ job' = [job EXCEPT !["command"] =
                              Write([Persisted("command") EXCEPT
                                       !.info = [login |-> l, gen |-> 0]])]
      BY <2>8 DEF PasswordAccepted
    <3>2. PICK new : new = [login |-> l, gen |-> 0]
      OBVIOUS
    <3>3. CASE z = "command" /\ ~UNCHANGED job
      <4>1. job'[z] = Write([Persisted("command") EXCEPT !.info = new])
        BY <1>0, <3>1, <3>2, <3>3
      <4>2. job'[z].value.info = new
        BY <4>1 DEF Write, Persisted
      <4> QED BY <1>0, <3>1, <3>2, <3>3, <4>2
    <3> QED BY <1>0, <3>1, <3>3
  <2>9. CASE PasswordEnds
    <3>1. CASE SignOut("command")
      BY <1>0, <1>a, <3>1 DEF SignOut
    <3>2. CASE UNCHANGED <<credentials, job>>
      BY <3>2
    <3>3. CASE job' = [job EXCEPT !["command"] =
                         Write([Persisted("command") EXCEPT !.key = info["command"].login])]
      <4>1. CASE z = "command"
        <5>1. job'[z] = Write([Persisted("command") EXCEPT !.key = info["command"].login])
          BY <1>0, <3>3, <4>1
        <5> QED BY <4>1, <5>1 DEF Write, Persisted
      <4> QED BY <1>0, <3>3, <4>1
    <3> QED BY <2>9, <3>1, <3>2, <3>3 DEF PasswordEnds
  <2>10. CASE LogsOut
    BY <1>0, <1>a, <2>10 DEF LogsOut, SignOut
  <2>11. CASE CommandStored
    BY <1>0, <1>a, <2>11 DEF CommandStored, Ends
  <2>12. CASE CommandStoreFails
    BY <1>0, <1>a, <2>12 DEF CommandStoreFails, Ends
  <2> QED BY <2>1, <2>2, <2>3, <2>4, <2>5, <2>6, <2>7, <2>8, <2>9, <2>10, <2>11, <2>12, <1>4
<1>5. CASE UNCHANGED vars
  BY <1>0, <1>5 DEF vars, writes
<1> QED BY <1>1, <1>2, <1>3, <1>4, <1>5 DEF Next, ClientStep, ServerStep, RefreshStep, LoginStep

(* The same of the write of the cache password. *)
LEMMA SavingMoves ==
    ASSUME Inv, [Next]_vars, NEW z \in Procs
    PROVE  saving'[z] \in {saving[z], None} \/ saving'[z].info = info[z]
<1>0. /\ saving \in [Procs -> Stored \union {None}] /\ "engine" \in Procs /\ "command" \in Procs
      /\ \A q : [Persisted(q) EXCEPT !.cached = TRUE].info = info[q]
    BY DEF Inv, TypeOK, Procs, Persisted
<1>1. ASSUME NEW x \in Requests \union Procs,
            \/ Sends(x) \/ Succeeds(x) \/ Unauthorized(x) \/ Throttled(x)
            \/ ThrottleOver(x) \/ Failed(x) \/ BackoffOver(x) \/ ServerAccepts(x)
            \/ ServerRejects(x) \/ ServerThrottles(x) \/ AnswerFails(x)
     PROVE  saving'[z] \in {saving[z], None} \/ saving'[z].info = info[z]
  <2>1. CASE Sends(x)
    BY <1>0, <1>1, <2>1 DEF Sends, writes, Ends
  <2>2. CASE Succeeds(x)
    BY <1>0, <1>1, <2>2 DEF Succeeds, writes, Ends
  <2>3. CASE Unauthorized(x)
    BY <1>0, <1>1, <2>3 DEF Unauthorized, writes, Ends
  <2>4. CASE Throttled(x)
    BY <1>0, <1>1, <2>4 DEF Throttled, writes, Ends
  <2>5. CASE ThrottleOver(x)
    BY <1>0, <1>1, <2>5 DEF ThrottleOver, writes, Ends
  <2>6. CASE Failed(x)
    BY <1>0, <1>1, <2>6 DEF Failed, writes, Ends
  <2>7. CASE BackoffOver(x)
    BY <1>0, <1>1, <2>7 DEF BackoffOver, writes, Ends
  <2>8. CASE ServerAccepts(x)
    BY <1>0, <1>1, <2>8 DEF ServerAccepts, writes, Ends
  <2>9. CASE ServerRejects(x)
    BY <1>0, <1>1, <2>9 DEF ServerRejects, writes, Ends
  <2>10. CASE ServerThrottles(x)
    BY <1>0, <1>1, <2>10 DEF ServerThrottles, writes, Ends
  <2>11. CASE AnswerFails(x)
    BY <1>0, <1>1, <2>11 DEF AnswerFails, writes, Ends
  <2> QED BY <2>1, <2>2, <2>3, <2>4, <2>5, <2>6, <2>7, <2>8, <2>9, <2>10, <2>11, <1>1
<1>2. ASSUME NEW r \in Requests,
            Begins(r)
     PROVE  saving'[z] \in {saving[z], None} \/ saving'[z].info = info[z]
  <2>1. CASE Begins(r)
    BY <1>0, <1>2, <2>1 DEF Begins, writes, Ends
  <2> QED BY <2>1, <1>2
<1>3. ASSUME NEW p \in Procs,
            \/ RefreshGiven(p) \/ RefreshRefused(p) \/ StoreDone(p) \/ StoreFails(p)
            \/ GetCachePassword(p) \/ CachePasswordSaved(p)
     PROVE  saving'[z] \in {saving[z], None} \/ saving'[z].info = info[z]
  <2>1. CASE RefreshGiven(p)
    BY <1>0, <1>3, <2>1 DEF RefreshGiven, writes, Ends
  <2>2. CASE RefreshRefused(p)
    BY <2>2 DEF RefreshRefused
  <2>3. CASE StoreDone(p)
    BY <1>0, <1>3, <2>3 DEF StoreDone, writes, Ends
  <2>4. CASE StoreFails(p)
    BY <1>0, <1>3, <2>4 DEF StoreFails, writes, Ends
  <2>5. CASE GetCachePassword(p)
    BY <1>0, <1>3, <2>5 DEF GetCachePassword, writes, Ends
  <2>6. CASE CachePasswordSaved(p)
    BY <1>0, <1>3, <2>6 DEF CachePasswordSaved, writes, Ends
  <2> QED BY <2>1, <2>2, <2>3, <2>4, <2>5, <2>6, <1>3
<1>4. ASSUME \/ Expires \/ Revoked \/ EngineRestarts \/ CommandStarts
           \/ CommandEnds \/ WebApproved \/ WebSession \/ PasswordAccepted
           \/ PasswordEnds \/ LogsOut \/ CommandStored \/ CommandStoreFails
     PROVE  saving'[z] \in {saving[z], None} \/ saving'[z].info = info[z]
  <2>1. CASE Expires
    BY <1>0, <1>4, <2>1 DEF Expires, writes, Ends
  <2>2. CASE Revoked
    BY <1>0, <1>4, <2>2 DEF Revoked, writes, Ends
  <2>3. CASE EngineRestarts
    BY <1>0, <1>4, <2>3 DEF EngineRestarts, writes, Ends
  <2>4. CASE CommandStarts
    BY <1>0, <1>4, <2>4 DEF CommandStarts, writes, Ends
  <2>5. CASE CommandEnds
    BY <1>0, <1>4, <2>5 DEF CommandEnds, writes, Ends
  <2>6. CASE WebApproved
    BY <1>0, <1>4, <2>6 DEF WebApproved, writes, Ends
  <2>7. CASE WebSession
    BY <1>0, <1>4, <2>7 DEF WebSession, writes, Ends
  <2>8. CASE PasswordAccepted
    BY <1>0, <1>4, <2>8 DEF PasswordAccepted, writes, Ends
  <2>9. CASE PasswordEnds
    BY <1>0, <1>4, <2>9 DEF PasswordEnds, writes, Ends
  <2>10. CASE LogsOut
    BY <1>0, <1>4, <2>10 DEF LogsOut, writes, Ends
  <2>11. CASE CommandStored
    BY <1>0, <1>4, <2>11 DEF CommandStored, writes, Ends
  <2>12. CASE CommandStoreFails
    BY <1>0, <1>4, <2>12 DEF CommandStoreFails, writes, Ends
  <2> QED BY <2>1, <2>2, <2>3, <2>4, <2>5, <2>6, <2>7, <2>8, <2>9, <2>10, <2>11, <2>12, <1>4
<1>5. CASE UNCHANGED vars
  BY <1>0, <1>5 DEF vars, writes, Ends
<1> QED BY <1>1, <1>2, <1>3, <1>4, <1>5 DEF Next, ClientStep, ServerStep, RefreshStep, LoginStep

(* The store holds what was written to it. *)
LEMMA StoreMoves ==
    ASSUME Inv, [Next]_vars
    PROVE  \/ store' = store
           \/ \E z \in Procs : store' \in {job[z].value, saving[z]}
<1>0. "engine" \in Procs /\ "command" \in Procs
    BY DEF Procs
<1>1. ASSUME NEW x \in Requests \union Procs,
            \/ Sends(x) \/ Succeeds(x) \/ Unauthorized(x) \/ Throttled(x)
            \/ ThrottleOver(x) \/ Failed(x) \/ BackoffOver(x) \/ ServerAccepts(x)
            \/ ServerRejects(x) \/ ServerThrottles(x) \/ AnswerFails(x)
     PROVE  \/ store' = store
            \/ \E z \in Procs : store' \in {job[z].value, saving[z]}
  <2>1. CASE Sends(x)
    BY <1>0, <1>1, <2>1 DEF Sends
  <2>2. CASE Succeeds(x)
    BY <1>0, <1>1, <2>2 DEF Succeeds
  <2>3. CASE Unauthorized(x)
    BY <1>0, <1>1, <2>3 DEF Unauthorized
  <2>4. CASE Throttled(x)
    BY <1>0, <1>1, <2>4 DEF Throttled
  <2>5. CASE ThrottleOver(x)
    BY <1>0, <1>1, <2>5 DEF ThrottleOver
  <2>6. CASE Failed(x)
    BY <1>0, <1>1, <2>6 DEF Failed
  <2>7. CASE BackoffOver(x)
    BY <1>0, <1>1, <2>7 DEF BackoffOver
  <2>8. CASE ServerAccepts(x)
    BY <1>0, <1>1, <2>8 DEF ServerAccepts
  <2>9. CASE ServerRejects(x)
    BY <1>0, <1>1, <2>9 DEF ServerRejects
  <2>10. CASE ServerThrottles(x)
    BY <1>0, <1>1, <2>10 DEF ServerThrottles
  <2>11. CASE AnswerFails(x)
    BY <1>0, <1>1, <2>11 DEF AnswerFails
  <2> QED BY <2>1, <2>2, <2>3, <2>4, <2>5, <2>6, <2>7, <2>8, <2>9, <2>10, <2>11, <1>1
<1>2. ASSUME NEW r \in Requests,
            Begins(r)
     PROVE  \/ store' = store
            \/ \E z \in Procs : store' \in {job[z].value, saving[z]}
  <2>1. CASE Begins(r)
    BY <1>0, <1>2, <2>1 DEF Begins
  <2> QED BY <2>1, <1>2
<1>3. ASSUME NEW p \in Procs,
            \/ RefreshGiven(p) \/ RefreshRefused(p) \/ StoreDone(p) \/ StoreFails(p)
            \/ GetCachePassword(p) \/ CachePasswordSaved(p)
     PROVE  \/ store' = store
            \/ \E z \in Procs : store' \in {job[z].value, saving[z]}
  <2>1. CASE RefreshGiven(p)
    BY <1>0, <1>3, <2>1 DEF RefreshGiven
  <2>2. CASE RefreshRefused(p)
    BY <1>0, <1>3, <2>2 DEF RefreshRefused
  <2>3. CASE StoreDone(p)
    BY <1>0, <1>3, <2>3 DEF StoreDone
  <2>4. CASE StoreFails(p)
    BY <1>0, <1>3, <2>4 DEF StoreFails
  <2>5. CASE GetCachePassword(p)
    BY <1>0, <1>3, <2>5 DEF GetCachePassword
  <2>6. CASE CachePasswordSaved(p)
    BY <1>0, <1>3, <2>6 DEF CachePasswordSaved
  <2> QED BY <2>1, <2>2, <2>3, <2>4, <2>5, <2>6, <1>3
<1>4. ASSUME \/ Expires \/ Revoked \/ EngineRestarts \/ CommandStarts
           \/ CommandEnds \/ WebApproved \/ WebSession \/ PasswordAccepted
           \/ PasswordEnds \/ LogsOut \/ CommandStored \/ CommandStoreFails
     PROVE  \/ store' = store
            \/ \E z \in Procs : store' \in {job[z].value, saving[z]}
  <2>1. CASE Expires
    BY <1>0, <1>4, <2>1 DEF Expires
  <2>2. CASE Revoked
    BY <1>0, <1>4, <2>2 DEF Revoked
  <2>3. CASE EngineRestarts
    BY <1>0, <1>4, <2>3 DEF EngineRestarts
  <2>4. CASE CommandStarts
    BY <1>0, <1>4, <2>4 DEF CommandStarts
  <2>5. CASE CommandEnds
    BY <1>0, <1>4, <2>5 DEF CommandEnds
  <2>6. CASE WebApproved
    BY <1>0, <1>4, <2>6 DEF WebApproved
  <2>7. CASE WebSession
    BY <1>0, <1>4, <2>7 DEF WebSession
  <2>8. CASE PasswordAccepted
    BY <1>0, <1>4, <2>8 DEF PasswordAccepted
  <2>9. CASE PasswordEnds
    BY <1>0, <1>4, <2>9 DEF PasswordEnds
  <2>10. CASE LogsOut
    BY <1>0, <1>4, <2>10 DEF LogsOut
  <2>11. CASE CommandStored
    BY <1>0, <1>4, <2>11 DEF CommandStored
  <2>12. CASE CommandStoreFails
    BY <1>0, <1>4, <2>12 DEF CommandStoreFails
  <2> QED BY <2>1, <2>2, <2>3, <2>4, <2>5, <2>6, <2>7, <2>8, <2>9, <2>10, <2>11, <2>12, <1>4
<1>5. CASE UNCHANGED vars
  BY <1>0, <1>5 DEF vars
<1> QED BY <1>1, <1>2, <1>3, <1>4, <1>5 DEF Next, ClientStep, ServerStep, RefreshStep, LoginStep

(* A request carries the token of its process. *)
LEMMA TokenMoves ==
    ASSUME Inv, [Next]_vars, NEW y \in Askers
    PROVE  req'[y].token \in {req[y].token, None, info[Own(y)]}
<1>0. /\ req \in [Askers -> Request] /\ Bounded /\ req[y] \in Request
      /\ Over.token = None /\ Fresh.token = None
      /\ \A q \in Request : Again(q).token = q.token
    BY RequestNew DEF Inv, TypeOK, Askers, Again, Request
<1>c. ASSUME NEW q \in Procs, NEW b \in {"renewed", "failed"}, req' = Settled(q, b)
      PROVE  req'[y].token \in {req[y].token, None, info[Own(y)]}
  <2>1. req'[y] \in {req[y], Over, Again(req[y])}
    BY <1>0, <1>c, SettledRequests
  <2> QED BY <1>0, <2>1
<1>d. ASSUME NEW x \in Askers, req' = Ended(x)
      PROVE  req'[y].token \in {req[y].token, None, info[Own(y)]}
  <2>1. CASE x \in Procs
    BY <1>0, <1>c, <1>d, <2>1, EndedRequests
  <2>2. CASE x \in Requests
    <3>1. req' = [req EXCEPT ![x] = Over]
      BY <1>0, <1>d, <2>2, EndedRequests
    <3> QED BY <1>0, <3>1
  <2> QED BY <1>d, <2>1, <2>2 DEF Askers
<1>1. ASSUME NEW x \in Requests \union Procs,
            \/ Sends(x) \/ Succeeds(x) \/ Unauthorized(x) \/ Throttled(x)
            \/ ThrottleOver(x) \/ Failed(x) \/ BackoffOver(x) \/ ServerAccepts(x)
            \/ ServerRejects(x) \/ ServerThrottles(x) \/ AnswerFails(x)
     PROVE  req'[y].token \in {req[y].token, None, info[Own(y)]}
  <2>1. CASE Sends(x)
    BY <1>0, <2>1 DEF Sends, Request
  <2>2. CASE Succeeds(x)
    BY <1>1, <1>d, <2>2 DEF Succeeds, Askers
  <2>3. CASE Unauthorized(x)
    <3>1. x \in Requests /\ x \in Askers
      BY <2>3 DEF Unauthorized, Askers
    <3>2. [Again(req[y]) EXCEPT !.refreshed = TRUE].token = req[y].token
      BY <1>0 DEF Again, Request
    <3>3. [[req[y] EXCEPT !.pc = "refreshing"] EXCEPT !.refreshed = TRUE].token = req[y].token
      BY <1>0 DEF Request
    <3>4. y \in Procs => Own(y) = y /\ [Fresh EXCEPT !.token = info[y]].token = info[y]
      BY Owned DEF Fresh, Over
    <3> QED BY <1>0, <2>3, <3>1, <3>2, <3>3, <3>4, UnauthorizedMoves
  <2>4. CASE Throttled(x)
    <3>1. CASE req' = Ended(x)
      BY <1>1, <1>d, <3>1 DEF Askers
    <3>2. CASE req' = [req EXCEPT ![x].pc = "throttled"]
      BY <1>0, <3>2 DEF Request
    <3> QED BY <2>4, <3>1, <3>2 DEF Throttled
  <2>5. CASE ThrottleOver(x)
    <3>1. Again(req[x]).token = req[x].token
      BY <1>0, <1>1 DEF Askers
    <3> QED BY <1>0, <2>5, <3>1 DEF ThrottleOver
  <2>6. CASE Failed(x)
    <3>1. CASE req' = Ended(x)
      BY <1>1, <1>d, <3>1 DEF Askers
    <3>2. CASE req' = [req EXCEPT ![x].pc = "backoff"]
      BY <1>0, <3>2 DEF Request
    <3> QED BY <2>6, <3>1, <3>2 DEF Failed
  <2>7. CASE BackoffOver(x)
    <3>1. Again(req[x]).token = req[x].token
      BY <1>0, <1>1 DEF Askers
    <3> QED BY <1>0, <2>7, <3>1 DEF BackoffOver
  <2>8. CASE ServerAccepts(x)
    BY <1>0, <2>8 DEF ServerAccepts, Answer, Request
  <2>9. CASE ServerRejects(x)
    BY <1>0, <2>9 DEF ServerRejects, Answer, Request
  <2>10. CASE ServerThrottles(x)
    BY <1>0, <2>10 DEF ServerThrottles, Answer, Request
  <2>11. CASE AnswerFails(x)
    BY <1>0, <2>11 DEF AnswerFails, Answer, Request
  <2> QED BY <2>1, <2>2, <2>3, <2>4, <2>5, <2>6, <2>7, <2>8, <2>9, <2>10, <2>11, <1>1
<1>2. ASSUME NEW r \in Requests,
            Begins(r)
     PROVE  req'[y].token \in {req[y].token, None, info[Own(y)]}
  <2>1. CASE Begins(r)
    BY <1>0, <1>2, <2>1 DEF Begins, client
  <2> QED BY <2>1, <1>2
<1>3. ASSUME NEW p \in Procs,
            \/ RefreshGiven(p) \/ RefreshRefused(p) \/ StoreDone(p) \/ StoreFails(p)
            \/ GetCachePassword(p) \/ CachePasswordSaved(p)
     PROVE  req'[y].token \in {req[y].token, None, info[Own(y)]}
  <2>1. CASE RefreshGiven(p)
    <3>1. CASE req' = Settled(p, "renewed")
      BY <1>c, <1>3, <3>1
    <3>2. CASE req' = [req EXCEPT ![p].pc = "storing"]
      BY <1>0, <3>2 DEF Request
    <3> QED BY <2>1, <3>1, <3>2 DEF RefreshGiven
  <2>2. CASE RefreshRefused(p)
    BY <1>0, <2>2 DEF RefreshRefused, Request
  <2>3. CASE StoreDone(p)
    BY <1>c, <1>3, <2>3 DEF StoreDone
  <2>4. CASE StoreFails(p)
    BY <1>c, <1>3, <2>4 DEF StoreFails
  <2>5. CASE GetCachePassword(p)
    BY <1>0, <1>3, <2>5 DEF GetCachePassword, client
  <2>6. CASE CachePasswordSaved(p)
    BY <1>0, <1>3, <2>6 DEF CachePasswordSaved, client
  <2> QED BY <2>1, <2>2, <2>3, <2>4, <2>5, <2>6, <1>3
<1>4. ASSUME \/ Expires \/ Revoked \/ EngineRestarts \/ CommandStarts
           \/ CommandEnds \/ WebApproved \/ WebSession \/ PasswordAccepted
           \/ PasswordEnds \/ LogsOut \/ CommandStored \/ CommandStoreFails
     PROVE  req'[y].token \in {req[y].token, None, info[Own(y)]}
  <2>1. CASE Expires
    BY <1>0, <1>4, <2>1 DEF Expires, client
  <2>2. CASE Revoked
    BY <1>0, <1>4, <2>2 DEF Revoked, client
  <2>3. CASE EngineRestarts
    <3>1. req'[y] = req[y] \/ req'[y] = Over
      BY <1>0, <2>3 DEF EngineRestarts, Ends
    <3> QED BY <1>0, <3>1
  <2>4. CASE CommandStarts
    BY <1>0, <1>4, <2>4 DEF CommandStarts, client
  <2>5. CASE CommandEnds
    <3>1. req'[y] = req[y] \/ req'[y] = Over
      BY <1>0, <2>5 DEF CommandEnds, Ends
    <3> QED BY <1>0, <3>1
  <2>6. CASE WebApproved
    BY <1>0, <1>4, <2>6 DEF WebApproved, client
  <2>7. CASE WebSession
    BY <1>0, <1>4, <2>7 DEF WebSession, client
  <2>8. CASE PasswordAccepted
    BY <1>0, <1>4, <2>8 DEF PasswordAccepted, client
  <2>9. CASE PasswordEnds
    BY <1>0, <1>4, <2>9 DEF PasswordEnds, client
  <2>10. CASE LogsOut
    BY <1>0, <1>4, <2>10 DEF LogsOut, client
  <2>11. CASE CommandStored
    BY <1>0, <1>4, <2>11 DEF CommandStored, client
  <2>12. CASE CommandStoreFails
    BY <1>0, <1>4, <2>12 DEF CommandStoreFails, client
  <2> QED BY <2>1, <2>2, <2>3, <2>4, <2>5, <2>6, <2>7, <2>8, <2>9, <2>10, <2>11, <2>12, <1>4
<1>5. CASE UNCHANGED vars
  BY <1>0, <1>5 DEF vars, client
<1> QED BY <1>1, <1>2, <1>3, <1>4, <1>5 DEF Next, ClientStep, ServerStep, RefreshStep, LoginStep

(* Where the key password of a login in the browser comes from. *)
LEMMA WebMoves ==
    ASSUME Inv, [Next]_vars, cmd' = "web"
    PROVE  \/ cmd = "web" /\ key'["command"] = key["command"]
           \/ \E l \in Logins : Grants(l) /\ key'["command"] = l
<1>0. /\ "command" \in Procs /\ key \in [Procs -> Logins \union {None}]
      /\ cmd = "web" => req["command"].pc = "over" /\ "command" # "engine"
    BY Owned DEF Inv, TypeOK, Procs, Commanded
<1>1. ASSUME NEW x \in Requests \union Procs,
            \/ Sends(x) \/ Succeeds(x) \/ Unauthorized(x) \/ Throttled(x)
            \/ ThrottleOver(x) \/ Failed(x) \/ BackoffOver(x) \/ ServerAccepts(x)
            \/ ServerRejects(x) \/ ServerThrottles(x) \/ AnswerFails(x)
     PROVE  \/ cmd = "web" /\ key'["command"] = key["command"]
            \/ \E l \in Logins : Grants(l) /\ key'["command"] = l
  <2>1. CASE Sends(x)
    BY <1>0, <1>1, <2>1 DEF Sends, credentials
  <2>2. CASE Succeeds(x)
    BY <1>0, <1>1, <2>2 DEF Succeeds, credentials
  <2>3. CASE Unauthorized(x)
    BY <1>0, <1>1, <2>3 DEF Unauthorized, credentials
  <2>4. CASE Throttled(x)
    BY <1>0, <1>1, <2>4 DEF Throttled, credentials
  <2>5. CASE ThrottleOver(x)
    BY <1>0, <1>1, <2>5 DEF ThrottleOver, credentials
  <2>6. CASE Failed(x)
    BY <1>0, <1>1, <2>6 DEF Failed, credentials
  <2>7. CASE BackoffOver(x)
    BY <1>0, <1>1, <2>7 DEF BackoffOver, credentials
  <2>8. CASE ServerAccepts(x)
    BY <1>0, <1>1, <2>8 DEF ServerAccepts, credentials
  <2>9. CASE ServerRejects(x)
    BY <1>0, <1>1, <2>9 DEF ServerRejects, credentials
  <2>10. CASE ServerThrottles(x)
    BY <1>0, <1>1, <2>10 DEF ServerThrottles, credentials
  <2>11. CASE AnswerFails(x)
    BY <1>0, <1>1, <2>11 DEF AnswerFails, credentials
  <2> QED BY <2>1, <2>2, <2>3, <2>4, <2>5, <2>6, <2>7, <2>8, <2>9, <2>10, <2>11, <1>1
<1>2. ASSUME NEW r \in Requests,
            Begins(r)
     PROVE  \/ cmd = "web" /\ key'["command"] = key["command"]
            \/ \E l \in Logins : Grants(l) /\ key'["command"] = l
  <2>1. CASE Begins(r)
    BY <1>0, <1>2, <2>1 DEF Begins, credentials
  <2> QED BY <2>1, <1>2
<1>3. ASSUME NEW p \in Procs,
            \/ RefreshGiven(p) \/ RefreshRefused(p) \/ StoreDone(p) \/ StoreFails(p)
            \/ GetCachePassword(p) \/ CachePasswordSaved(p)
     PROVE  \/ cmd = "web" /\ key'["command"] = key["command"]
            \/ \E l \in Logins : Grants(l) /\ key'["command"] = l
  <2>1. CASE RefreshGiven(p)
    BY <1>0, <1>3, <2>1 DEF RefreshGiven, credentials
  <2>2. CASE RefreshRefused(p)
    BY <1>0, <2>2 DEF RefreshRefused, SignOut, Answered
  <2>3. CASE StoreDone(p)
    BY <1>0, <1>3, <2>3 DEF StoreDone, credentials
  <2>4. CASE StoreFails(p)
    BY <1>0, <1>3, <2>4 DEF StoreFails, credentials
  <2>5. CASE GetCachePassword(p)
    BY <1>0, <1>3, <2>5 DEF GetCachePassword, credentials
  <2>6. CASE CachePasswordSaved(p)
    BY <1>0, <1>3, <2>6 DEF CachePasswordSaved, credentials
  <2> QED BY <2>1, <2>2, <2>3, <2>4, <2>5, <2>6, <1>3
<1>4. ASSUME \/ Expires \/ Revoked \/ EngineRestarts \/ CommandStarts
           \/ CommandEnds \/ WebApproved \/ WebSession \/ PasswordAccepted
           \/ PasswordEnds \/ LogsOut \/ CommandStored \/ CommandStoreFails
     PROVE  \/ cmd = "web" /\ key'["command"] = key["command"]
            \/ \E l \in Logins : Grants(l) /\ key'["command"] = l
  <2>1. CASE Expires
    BY <1>0, <1>4, <2>1 DEF Expires, credentials
  <2>2. CASE Revoked
    BY <1>0, <1>4, <2>2 DEF Revoked, credentials
  <2>3. CASE EngineRestarts
    BY <1>0, <2>3 DEF EngineRestarts, Loads
  <2>4. CASE CommandStarts
    BY <1>0, <2>4 DEF CommandStarts, Loads
  <2>5. CASE CommandEnds
    BY <1>0, <2>5 DEF CommandEnds, Loads
  <2>6. CASE WebApproved
    BY <1>0, <1>4, <2>6 DEF WebApproved, credentials
  <2>7. CASE WebSession
    BY <1>0, <1>4, <2>7 DEF WebSession, credentials
  <2>8. CASE PasswordAccepted
    BY <1>0, <1>4, <2>8 DEF PasswordAccepted, credentials
  <2>9. CASE PasswordEnds
    BY <1>0, <1>4, <2>9 DEF PasswordEnds, credentials
  <2>10. CASE LogsOut
    BY <1>0, <1>4, <2>10 DEF LogsOut, credentials
  <2>11. CASE CommandStored
    BY <1>0, <1>4, <2>11 DEF CommandStored, credentials
  <2>12. CASE CommandStoreFails
    BY <1>0, <1>4, <2>12 DEF CommandStoreFails, credentials
  <2> QED BY <2>1, <2>2, <2>3, <2>4, <2>5, <2>6, <2>7, <2>8, <2>9, <2>10, <2>11, <2>12, <1>4
<1>5. CASE UNCHANGED vars
  BY <1>0, <1>5 DEF vars, credentials
<1> QED BY <1>1, <1>2, <1>3, <1>4, <1>5 DEF Next, ClientStep, ServerStep, RefreshStep, LoginStep

(* No process holds, stores or sends a token the server has not given. *)
LEMMA IssuedStep ==
    ASSUME Inv, [Next]_vars
    PROVE  AllIssued'
<1>0. /\ TypeOK /\ AllIssued /\ TypeOK'
      /\ "engine" \in Procs /\ "command" \in Procs
    BY TypeStep DEF Inv, Procs
<1>K. ASSUME NEW t \in Token \union {None}, Issued(t)
      PROVE  Issued(t)'
    BY <1>K, TokensOfTheServer
<1>N. ASSUME NEW l \in Logins, Grants(l)
      PROVE  Issued([login |-> l, gen |-> 0])'
  <2>1. server[l] \in Account /\ server'[l] = Opened(server[l])
    BY <1>0, <1>N DEF TypeOK, Grants
  <2>2. server'[l].live /\ server'[l].gen \in Nat
    BY <2>1, AccountKept DEF Account
  <2> QED BY <2>2 DEF Issued
<1>0w. cmd = "web" => [login |-> key["command"], gen |-> 0] \in Token
    BY <1>0 DEF Inv, Commanded, TypeOK, Token
<1>1. ASSUME NEW z \in Procs, NEW t \in Token \union {None}, t = info'[z]
      PROVE  Issued(t)'
  <2>1. CASE t = info[z] \/ t = None
    BY <1>0, <1>K, <2>1 DEF AllIssued, Issued
  <2>2. CASE store # None /\ t = store.info
    BY <1>0, <1>K, <2>2 DEF AllIssued
  <2>3. CASE job["engine"].value # None /\ t = job["engine"].value.info
    BY <1>0, <1>K, <2>3 DEF AllIssued
  <2>4. CASE Answered(z, "ok") /\ t = Renewed(req[z].token)
    BY <1>0, <1>K, <2>4 DEF AllIssued
  <2>5. CASE cmd = "web" /\ t = [login |-> key["command"], gen |-> 0]
    BY <1>0, <1>K, <2>5 DEF AllIssued
  <2>6. CASE \E l \in Logins : Grants(l) /\ t = [login |-> l, gen |-> 0]
    BY <1>N, <2>6
  <2> QED BY <1>1, <2>1, <2>2, <2>3, <2>4, <2>5, <2>6, InfoMoves
<1>2. ASSUME NEW z \in Procs
      PROVE  Issued(info[z])'
  <2>1. PICK t \in Token \union {None} : t = info'[z]
    BY <1>0 DEF TypeOK
  <2>2. Issued(t)'
    BY <1>1, <2>1
  <2> QED BY <2>1, <2>2 DEF Issued
<1>3. ASSUME NEW z \in Procs, job'[z].value # None
      PROVE  Issued(job[z].value.info)'
  <2>1. PICK t \in Token : t = job'[z].value.info
    BY <1>0, <1>3 DEF TypeOK, Job, Stored
  <2>2. Issued(t)'
    <3>1. CASE job'[z] = job[z]
      BY <1>0, <1>3, <1>K, <2>1, <3>1 DEF AllIssued
    <3>2. CASE t = info[z]
      BY <1>0, <1>K, <3>2 DEF AllIssued
    <3>3. CASE t = info'[z]
      BY <1>1, <3>3
    <3> QED BY <1>3, <2>1, <3>1, <3>2, <3>3, JobMoves
  <2> QED BY <2>1, <2>2 DEF Issued
<1>4. ASSUME NEW z \in Procs, saving'[z] # None
      PROVE  Issued(saving[z].info)'
  <2>1. PICK t \in Token : t = saving'[z].info
    BY <1>0, <1>4 DEF TypeOK, Stored
  <2>2. Issued(t)'
    <3>1. CASE saving'[z] = saving[z]
      BY <1>0, <1>4, <1>K, <2>1, <3>1 DEF AllIssued
    <3>2. CASE t = info[z]
      BY <1>0, <1>K, <3>2 DEF AllIssued
    <3> QED BY <1>4, <2>1, <3>1, <3>2, SavingMoves
  <2> QED BY <2>1, <2>2 DEF Issued
<1>5. ASSUME NEW y \in Askers
      PROVE  Issued(req[y].token)'
  <2>1. PICK t \in Token \union {None} : t = req'[y].token
    BY <1>0 DEF TypeOK, Askers, Request
  <2>2. Own(y) \in Procs
    BY Owned
  <2>3. Issued(t)
    BY <1>0, <2>1, <2>2, TokenMoves DEF AllIssued, Issued
  <2>4. Issued(t)'
    BY <1>K, <2>3
  <2> QED BY <2>1, <2>4 DEF Issued
<1>6. ASSUME store' # None
      PROVE  Issued(store.info)'
  <2>1. PICK t \in Token : t = store'.info
    BY <1>0, <1>6 DEF TypeOK, Stored
  <2>2. Issued(t)
    BY <1>0, <1>6, <2>1, StoreMoves DEF AllIssued
  <2>3. Issued(t)'
    BY <1>K, <2>2
  <2> QED BY <2>1, <2>3 DEF Issued
<1>7. ASSUME NEW z \in Procs, req'[z].pc = "answered", req'[z].answer = "ok"
      PROVE  Issued(Renewed(req[z].token))'
  <2>0. z \in Askers /\ z \in Requests \union Procs /\ req[z] \in Request
    BY <1>0, Owned DEF TypeOK
  <2>1. CASE req'[z] = req[z]
    <3>1. Refreshing(z) /\ Answered(z, "ok")
      BY <1>7, <2>1 DEF Refreshing, Answered
    <3>2. PICK t \in Token : t = Renewed(req[z].token)
      BY <3>1, TokenHeld
    <3>3. Issued(t)'
      BY <1>0, <1>K, <3>1, <3>2 DEF AllIssued
    <3>4. Renewed(req[z].token)' = t
      BY <2>1, <3>2 DEF Renewed
    <3> QED BY <3>3, <3>4 DEF Issued
  <2>2. CASE req[z].pc = "sent"
    <3>1. ServerAccepts(z) /\ req'[z].token = req[z].token
      BY <1>7, <2>0, <2>2, AnswerMade
    <3>2. Refreshing(z)
      BY <2>2 DEF Refreshing
    <3>3. TakesEffect(z) /\ server[req[z].token.login] \in Account
          /\ server'[req[z].token.login] = Spent(server[req[z].token.login])
          /\ server[req[z].token.login].gen = req[z].token.gen
      <4>1. TakesEffect(z) /\ req[z].token.login \in Logins
        BY <3>1, <3>2, TokenHeld DEF ServerAccepts
      <4> QED BY <1>0, <4>1, EffectTypes DEF TakesEffect, Refreshable, TypeOK
    <3>4. server'[req[z].token.login].gen = req[z].token.gen + 1
      BY <3>3, AccountKept
    <3>5. PICK t \in Token : t = Renewed(req[z].token)
      BY <3>2, TokenHeld
    <3>6. t.login = req[z].token.login /\ t.gen = req[z].token.gen + 1 /\ req[z].token.gen \in Nat
      BY <3>2, <3>5, TokenHeld
    <3>7. Issued(t)'
      BY <3>4, <3>6 DEF Issued
    <3>8. Renewed(req[z].token)' = t
      BY <3>1, <3>5 DEF Renewed
    <3> QED BY <3>7, <3>8 DEF Issued
  <2> QED BY <1>7, <2>0, <2>1, <2>2, RequestMoves, RequestNew DEF Moves
<1>8. ASSUME cmd' = "web"
      PROVE  Issued([login |-> key["command"], gen |-> 0])'
  <2>1. CASE cmd = "web" /\ key'["command"] = key["command"]
    <3>1. PICK t \in Token : t = [login |-> key["command"], gen |-> 0]
      BY <1>0w, <2>1
    <3>2. Issued(t)'
      BY <1>0, <1>K, <2>1, <3>1 DEF AllIssued
    <3> QED BY <2>1, <3>1, <3>2 DEF Issued
  <2>2. CASE \E l \in Logins : Grants(l) /\ key'["command"] = l
    BY <1>N, <2>2 DEF Issued
  <2> QED BY <1>8, <2>1, <2>2, WebMoves
<1> QED
    BY <1>2, <1>3, <1>4, <1>5, <1>6, <1>7, <1>8 DEF AllIssued, Answered

-----------------------------------------------------------------------------
(* What harmed the session is not forgotten. *)
LEMMA HarmStays ==
    ASSUME [Next]_vars, harmed
    PROVE  harmed'
<1>0. harmed
    OBVIOUS
<1>1. ASSUME NEW x \in Requests \union Procs,
            \/ Sends(x) \/ Succeeds(x) \/ Unauthorized(x) \/ Throttled(x)
            \/ ThrottleOver(x) \/ Failed(x) \/ BackoffOver(x) \/ ServerAccepts(x)
            \/ ServerRejects(x) \/ ServerThrottles(x) \/ AnswerFails(x)
     PROVE  harmed'
  <2>1. CASE Sends(x)
    BY <1>0, <1>1, <2>1 DEF Sends
  <2>2. CASE Succeeds(x)
    BY <1>0, <1>1, <2>2 DEF Succeeds
  <2>3. CASE Unauthorized(x)
    BY <1>0, <1>1, <2>3 DEF Unauthorized
  <2>4. CASE Throttled(x)
    BY <1>0, <1>1, <2>4 DEF Throttled
  <2>5. CASE ThrottleOver(x)
    BY <1>0, <1>1, <2>5 DEF ThrottleOver
  <2>6. CASE Failed(x)
    BY <1>0, <1>1, <2>6 DEF Failed
  <2>7. CASE BackoffOver(x)
    BY <1>0, <1>1, <2>7 DEF BackoffOver
  <2>8. CASE ServerAccepts(x)
    BY <1>0, <1>1, <2>8 DEF ServerAccepts
  <2>9. CASE ServerRejects(x)
    BY <1>0, <1>1, <2>9 DEF ServerRejects
  <2>10. CASE ServerThrottles(x)
    BY <1>0, <1>1, <2>10 DEF ServerThrottles
  <2>11. CASE AnswerFails(x)
    BY <1>0, <1>1, <2>11 DEF AnswerFails
  <2> QED BY <2>1, <2>2, <2>3, <2>4, <2>5, <2>6, <2>7, <2>8, <2>9, <2>10, <2>11, <1>1
<1>2. ASSUME NEW r \in Requests,
            Begins(r)
     PROVE  harmed'
  <2>1. CASE Begins(r)
    BY <1>0, <1>2, <2>1 DEF Begins
  <2> QED BY <2>1, <1>2
<1>3. ASSUME NEW p \in Procs,
            \/ RefreshGiven(p) \/ RefreshRefused(p) \/ StoreDone(p) \/ StoreFails(p)
            \/ GetCachePassword(p) \/ CachePasswordSaved(p)
     PROVE  harmed'
  <2>1. CASE RefreshGiven(p)
    BY <1>0, <1>3, <2>1 DEF RefreshGiven
  <2>2. CASE RefreshRefused(p)
    BY <1>0, <1>3, <2>2 DEF RefreshRefused
  <2>3. CASE StoreDone(p)
    BY <1>0, <1>3, <2>3 DEF StoreDone
  <2>4. CASE StoreFails(p)
    BY <1>0, <1>3, <2>4 DEF StoreFails
  <2>5. CASE GetCachePassword(p)
    BY <1>0, <1>3, <2>5 DEF GetCachePassword
  <2>6. CASE CachePasswordSaved(p)
    BY <1>0, <1>3, <2>6 DEF CachePasswordSaved
  <2> QED BY <2>1, <2>2, <2>3, <2>4, <2>5, <2>6, <1>3
<1>4. ASSUME \/ Expires \/ Revoked \/ EngineRestarts \/ CommandStarts
           \/ CommandEnds \/ WebApproved \/ WebSession \/ PasswordAccepted
           \/ PasswordEnds \/ LogsOut \/ CommandStored \/ CommandStoreFails
     PROVE  harmed'
  <2>1. CASE Expires
    BY <1>0, <1>4, <2>1 DEF Expires
  <2>2. CASE Revoked
    BY <1>0, <1>4, <2>2 DEF Revoked
  <2>3. CASE EngineRestarts
    BY <1>0, <1>4, <2>3 DEF EngineRestarts
  <2>4. CASE CommandStarts
    BY <1>0, <1>4, <2>4 DEF CommandStarts
  <2>5. CASE CommandEnds
    BY <1>0, <1>4, <2>5 DEF CommandEnds
  <2>6. CASE WebApproved
    BY <1>0, <1>4, <2>6 DEF WebApproved
  <2>7. CASE WebSession
    BY <1>0, <1>4, <2>7 DEF WebSession
  <2>8. CASE PasswordAccepted
    BY <1>0, <1>4, <2>8 DEF PasswordAccepted
  <2>9. CASE PasswordEnds
    BY <1>0, <1>4, <2>9 DEF PasswordEnds
  <2>10. CASE LogsOut
    BY <1>0, <1>4, <2>10 DEF LogsOut
  <2>11. CASE CommandStored
    BY <1>0, <1>4, <2>11 DEF CommandStored
  <2>12. CASE CommandStoreFails
    BY <1>0, <1>4, <2>12 DEF CommandStoreFails
  <2> QED BY <2>1, <2>2, <2>3, <2>4, <2>5, <2>6, <2>7, <2>8, <2>9, <2>10, <2>11, <2>12, <1>4
<1>5. CASE UNCHANGED vars
  BY <1>0, <1>5 DEF vars
<1> QED BY <1>1, <1>2, <1>3, <1>4, <1>5 DEF Next, ClientStep, ServerStep, RefreshStep, LoginStep

(* SignedIn, field by field. *)
LEMMA SignedInMeans ==
    ASSUME TypeOK
    PROVE  SignedIn <=>
             LET t == info["engine"]
                 q == req["engine"]
             IN
             /\ cmd \in {"off", "setup"}
             /\ t # None /\ key["engine"] # None /\ status["engine"] = "logged_in"
             /\ q.answer # "refused"
             /\ q.answer = "ok" => q.pc \in {"answered", "storing"}
             /\ server[t.login].live
             /\ server[t.login].gen = IF q.pc = "answered" /\ q.answer = "ok"
                                      THEN t.gen + 1 ELSE t.gen
             /\ IF q.pc = "storing"
                THEN job["engine"].op = "set" /\ job["engine"].value # None
                     /\ job["engine"].value.info = t
                ELSE job["engine"] = NoJob /\ store # None /\ store.info = t
<1>1. None \notin Token /\ info["engine"] \in Token \union {None}
    BY SessionAssumption DEF TypeOK, Procs
<1>2. info["engine"] # None =>
         /\ Renewed(info["engine"]) # None
         /\ Renewed(info["engine"]).login = info["engine"].login
         /\ Renewed(info["engine"]).gen = info["engine"].gen + 1
  <2>1. info["engine"] # None => Renewed(info["engine"]) \in Token
    BY <1>1 DEF Renewed, Token
  <2> QED BY <1>1, <2>1 DEF Renewed, Token
<1> QED
    BY <1>2 DEF SignedIn, Refreshable, Answered

(* Nothing from inside costs the engine its session. *)
LEMMA SignedStep ==
    ASSUME Inv, [Next]_vars, ~harmed'
    PROVE  SignedIn'
<1> DEFINE e == "engine"
           t == info[e]
           Told == req[e].pc = "answered" /\ req[e].answer = "ok"
           Told2 == req'[e].pc = "answered" /\ req'[e].answer = "ok"
           Left == /\ cmd' \in {"off", "setup"}
                   /\ info'[e] # None /\ key'[e] # None /\ status'[e] = "logged_in"
                   /\ req'[e].answer # "refused"
                   /\ req'[e].answer = "ok" => req'[e].pc \in {"answered", "storing"}
                   /\ server'[info'[e].login].live
                   /\ server'[info'[e].login].gen = IF Told2 THEN info'[e].gen + 1 ELSE info'[e].gen
                   /\ IF req'[e].pc = "storing"
                      THEN /\ job'[e].op = "set" /\ job'[e].value # None
                           /\ job'[e].value.info = info'[e]
                      ELSE job'[e] = NoJob /\ store' # None /\ store'.info = info'[e]
<1>0. /\ TypeOK /\ TypeOK' /\ ~harmed /\ None \notin Logins \union Token \union Answers
      /\ e \in Procs /\ e \in Askers /\ "command" \in Procs /\ "command" # e
      /\ e \notin Requests
      /\ req \in [Askers -> Request] /\ req[e] \in Request /\ server \in [Logins -> Account]
      /\ info \in [Procs -> Token \union {None}] /\ key \in [Procs -> Logins \union {None}]
      /\ status \in [Procs -> {"logged_in", "needs_login"}] /\ job \in [Procs -> Job]
  <2>1. "engine" \in Procs /\ "command" \in Procs
    BY DEF Procs
  <2> QED BY <2>1, HarmStays, TypeStep, Owned, SessionAssumption DEF Inv, TypeOK, Askers
<1>1a. /\ cmd \in {"off", "setup"}
       /\ t # None /\ key[e] # None /\ status[e] = "logged_in"
       /\ req[e].answer # "refused"
       /\ req[e].answer = "ok" => req[e].pc \in {"answered", "storing"}
       /\ server[t.login].live
       /\ server[t.login].gen = IF Told THEN t.gen + 1 ELSE t.gen
       /\ IF req[e].pc = "storing"
          THEN job[e].op = "set" /\ job[e].value # None /\ job[e].value.info = t
          ELSE job[e] = NoJob /\ store # None /\ store.info = t
    BY <1>0, SignedInMeans DEF Inv
<1>2a. t \in Token /\ t.login \in Logins /\ t.gen \in Nat /\ server[t.login] \in Account
  <2>1. t \in Token
    BY <1>0, <1>1a
  <2> QED BY <1>0, <2>1 DEF Token
<1>3a. Left => SignedIn'
  <2>1. info'[e] \in Token \union {None}
    BY <1>0 DEF TypeOK
  <2>2. info'[e] # None =>
           /\ Renewed(info[e])' # None
           /\ Renewed(info[e])'.login = info'[e].login
           /\ Renewed(info[e])'.gen = info'[e].gen + 1
    <3>1. info'[e] # None => Renewed(info[e])' \in Token
      BY <2>1 DEF Renewed, Token
    <3> QED BY <1>0, <2>1, <3>1 DEF Renewed, Token
  <2> QED BY <2>2 DEF SignedIn, Refreshable, Answered
<1> SUFFICES Left
    BY <1>3a
<1> DEFINE Same == /\ cmd' \in {"off", "setup"}
                   /\ info'[e] = info[e] /\ key'[e] = key[e] /\ status'[e] = status[e]
                   /\ job'[e] = job[e]
                   /\ store' = store \/ (store' # None /\ store'.info = t)
                   /\ server'[t.login].live = server[t.login].live
                   /\ server'[t.login].gen = server[t.login].gen
<1>s. ASSUME Same, req'[e] = req[e]
      PROVE  Left
    BY <1>1a, <1>s
<1>o. ASSUME Same, ~Told, req[e].pc # "storing", req'[e].pc # "storing",
             req'[e].answer \notin {"ok", "refused"}
      PROVE  Left
    BY <1>1a, <1>o
<1> HIDE DEF Left
<1>E. ASSUME NEW x \in Askers, req' = Ended(x), Same, ~Told \/ x # e, req[e].pc # "storing" \/ x # e
      PROVE  Left
  <2>1. CASE x = e
    <3>1. req'[e].pc # "storing" /\ req'[e].answer \notin {"ok", "refused"}
      BY <1>0, <1>E, <2>1, NotWaiting, RequestNew DEF Answers
    <3> QED BY <1>E, <1>o, <2>1, <3>1
  <2>2. CASE x # e
    <3>1. req'[e] = req[e]
      BY <1>0, <1>E, <2>2, NotWaiting
    <3> QED BY <1>E, <1>s, <3>1
  <2> QED BY <2>1, <2>2
<1>h. /\ e \in Requests \union Procs /\ SessionAssumption
      /\ req[e].pc = "sent" => req[e].token = t /\ ~Told
    BY <1>0, SessionAssumption DEF Inv, RefreshHeld, Refreshing
<1>1. ASSUME NEW x \in Requests \union Procs,
            \/ Sends(x) \/ Succeeds(x) \/ Unauthorized(x) \/ Throttled(x)
            \/ ThrottleOver(x) \/ Failed(x) \/ BackoffOver(x) \/ ServerAccepts(x)
            \/ ServerRejects(x) \/ ServerThrottles(x) \/ AnswerFails(x)
     PROVE  Left
  <2>1. CASE Sends(x)
    <3>1. CASE x = e
      <4>1. req'[e].answer = req[e].answer /\ req'[e].pc \in {"gated", "sent"}
            /\ req[e].pc \in {"ready", "gated"}
        BY <1>0, <2>1, <3>1 DEF Sends, Request
      <4> QED BY <1>1a, <1>o, <2>1, <4>1 DEF Sends, credentials, writes
    <3>2. CASE x # e
      BY <1>0, <1>1a, <1>s, <1>1, <2>1, <3>2 DEF Sends, credentials, writes
    <3> QED BY <3>1, <3>2
  <2>2. CASE Succeeds(x)
    BY <1>0, <1>1a, <1>E, <1>1, <2>2 DEF Succeeds, Askers, credentials, writes
  <2>3. CASE Unauthorized(x)
    <3>1. x \in Requests /\ x # e /\ Same
      BY <1>0, <1>1a, <2>3 DEF Unauthorized, credentials, writes
    <3> HIDE DEF Same
    <3>2. CASE req'[e] = req[e]
      BY <1>s, <3>1, <3>2
    <3>3. CASE req[e].pc = "over" /\ req'[e] = [Fresh EXCEPT !.token = info[e]]
      <4>1. req'[e].pc = "ready" /\ req'[e].answer = None
        BY <3>3 DEF Fresh, Over
      <4> QED BY <1>0, <1>o, <3>1, <3>3, <4>1 DEF Answers
    <3> QED BY <1>0, <2>3, <3>1, <3>2, <3>3, UnauthorizedOthers
  <2>4. CASE Throttled(x)
    <3>0. /\ x \in Askers /\ Same
          /\ x = e => req[e].pc = "answered" /\ req[e].answer \in {"throttled", "failed"}
      BY <1>0, <1>1a, <1>1, <2>4 DEF Throttled, Answered, Askers, credentials, writes
    <3> HIDE DEF Same
    <3>1. CASE req' = Ended(x)
      BY <1>0, <1>E, <3>0, <3>1
    <3>2. CASE \E c \in {"throttled", "backoff"} : req' = [req EXCEPT ![x].pc = c]
      <4>1. CASE x # e
        BY <1>0, <1>s, <3>0, <3>2, <4>1
      <4>2. CASE x = e
        <5>1. req'[e].pc \in {"throttled", "backoff"} /\ req'[e].answer = req[e].answer
          BY <1>0, <3>2, <4>2 DEF Request
        <5> QED BY <1>0, <1>o, <3>0, <4>2, <5>1
      <4> QED BY <4>1, <4>2
    <3> QED BY <2>4, <3>1, <3>2 DEF Throttled
  <2>5. CASE ThrottleOver(x)
    <3>0. /\ x \in Askers /\ Same /\ req' = [req EXCEPT ![x] = Again(@)]
          /\ x = e => req[e].pc \in {"throttled", "backoff"}
      BY <1>0, <1>1a, <1>1, <2>5 DEF ThrottleOver, Askers, credentials, writes
    <3> HIDE DEF Same
    <3>1. CASE x # e
      BY <1>0, <1>s, <3>0, <3>1
    <3>2. CASE x = e
      <4>1. req'[e].pc = "ready" /\ req'[e].answer = None
        BY <1>0, <3>0, <3>2 DEF Again, Request
      <4> QED BY <1>0, <1>o, <3>0, <3>2, <4>1 DEF Answers
    <3> QED BY <3>1, <3>2
  <2>6. CASE Failed(x)
    <3>0. /\ x \in Askers /\ Same
          /\ x = e => req[e].pc = "answered" /\ req[e].answer \in {"throttled", "failed"}
      BY <1>0, <1>1a, <1>1, <2>6 DEF Failed, Answered, Askers, credentials, writes
    <3> HIDE DEF Same
    <3>1. CASE req' = Ended(x)
      BY <1>0, <1>E, <3>0, <3>1
    <3>2. CASE \E c \in {"throttled", "backoff"} : req' = [req EXCEPT ![x].pc = c]
      <4>1. CASE x # e
        BY <1>0, <1>s, <3>0, <3>2, <4>1
      <4>2. CASE x = e
        <5>1. req'[e].pc \in {"throttled", "backoff"} /\ req'[e].answer = req[e].answer
          BY <1>0, <3>2, <4>2 DEF Request
        <5> QED BY <1>0, <1>o, <3>0, <4>2, <5>1
      <4> QED BY <4>1, <4>2
    <3> QED BY <2>6, <3>1, <3>2 DEF Failed
  <2>7. CASE BackoffOver(x)
    <3>0. /\ x \in Askers /\ Same /\ req' = [req EXCEPT ![x] = Again(@)]
          /\ x = e => req[e].pc \in {"throttled", "backoff"}
      BY <1>0, <1>1a, <1>1, <2>7 DEF BackoffOver, Askers, credentials, writes
    <3> HIDE DEF Same
    <3>1. CASE x # e
      BY <1>0, <1>s, <3>0, <3>1
    <3>2. CASE x = e
      <4>1. req'[e].pc = "ready" /\ req'[e].answer = None
        BY <1>0, <3>0, <3>2 DEF Again, Request
      <4> QED BY <1>0, <1>o, <3>0, <3>2, <4>1 DEF Answers
    <3> QED BY <3>1, <3>2
  <2>8. CASE ServerAccepts(x)
    <3>1. CASE x \in Requests
      <4>1. req'[e] = req[e] /\ UNCHANGED server
        BY <1>0, <2>8, <3>1, Owned DEF ServerAccepts, TakesEffect, Answer
      <4> QED BY <1>1a, <1>s, <2>8, <4>1 DEF ServerAccepts, credentials, writes
    <3>2. CASE x = "command"
      BY <1>0, <2>8, <3>2 DEF ServerAccepts
    <3>3. CASE x = e
      <4>1. req[e].pc = "sent" /\ req[e].token = t
        BY <1>h, <2>8, <3>3 DEF ServerAccepts
      <4>2. server' = [server EXCEPT ![t.login] = Spent(@)]
        BY <1>0, <2>8, <3>3, <4>1, EffectTypes DEF ServerAccepts
      <4>3. server'[t.login].live = server[t.login].live
            /\ server'[t.login].gen = server[t.login].gen + 1
        BY <1>0, <1>2a, <4>2, AccountKept
      <4>4. req'[e].pc = "answered" /\ req'[e].answer = "ok"
        BY <1>0, <2>8, <3>3 DEF ServerAccepts, Answer, Request
      <4> QED BY <1>0, <1>1a, <1>h, <2>8, <4>1, <4>3, <4>4
             DEF ServerAccepts, credentials, writes, Left
    <3> QED BY <1>1, <3>1, <3>2, <3>3 DEF Procs
  <2>9. CASE ServerRejects(x)
    <3>1. CASE x # e
      BY <1>0, <1>1a, <1>s, <1>1, <2>9, <3>1 DEF ServerRejects, Answer, credentials, writes
    <3>2. CASE x = e
      <4>1. Refreshable(t)
        BY <1>1a, <1>h, <2>9, <3>2 DEF ServerRejects, Refreshable
      <4> QED BY <1>0, <1>h, <2>9, <3>2, <4>1 DEF ServerRejects
    <3> QED BY <3>1, <3>2
  <2>10. CASE ServerThrottles(x)
    <3>1. CASE x # e
      BY <1>0, <1>1a, <1>s, <1>1, <2>10, <3>1 DEF ServerThrottles, Answer, credentials, writes
    <3>2. CASE x = e
      <4>1. req[e].pc = "sent" /\ req'[e].pc = "answered" /\ req'[e].answer = "throttled"
        BY <1>0, <2>10, <3>2 DEF ServerThrottles, Answer, Request
      <4> QED BY <1>1a, <1>o, <2>10, <4>1 DEF ServerThrottles, credentials, writes
    <3> QED BY <3>1, <3>2
  <2>11. CASE AnswerFails(x)
    <3>0. UNCHANGED server
      BY <1>0, <1>1, <2>11 DEF AnswerFails, TakesEffect
    <3>1. CASE x # e
      BY <1>0, <1>1a, <1>s, <1>1, <2>11, <3>0, <3>1 DEF AnswerFails, Answer, credentials, writes
    <3>2. CASE x = e
      <4>1. req[e].pc = "sent" /\ req'[e].pc = "answered" /\ req'[e].answer = "failed"
        BY <1>0, <2>11, <3>2 DEF AnswerFails, Answer, Request
      <4> QED BY <1>1a, <1>o, <2>11, <3>0, <4>1 DEF AnswerFails, credentials, writes
    <3> QED BY <3>1, <3>2
  <2> QED BY <2>1, <2>2, <2>3, <2>4, <2>5, <2>6, <2>7, <2>8, <2>9, <2>10, <2>11, <1>1
<1>2. ASSUME NEW r \in Requests,
            Begins(r)
     PROVE  Left
  <2>1. CASE Begins(r)
    BY <1>0, <1>1a, <1>s, <1>2, <2>1 DEF Begins, credentials, writes
  <2> QED BY <2>1, <1>2
<1>3. ASSUME NEW p \in Procs,
            \/ RefreshGiven(p) \/ RefreshRefused(p) \/ StoreDone(p) \/ StoreFails(p)
            \/ GetCachePassword(p) \/ CachePasswordSaved(p)
     PROVE  Left
  <2>1. CASE RefreshGiven(p)
    <3>1. CASE p # e
      <4>1. /\ UNCHANGED <<server, store, key, status, cmd>>
            /\ info'[e] = info[e] /\ job'[e] = job[e]
        BY <1>0, <2>1, <3>1 DEF RefreshGiven
      <4>2. req'[e] = req[e]
        <5>1. CASE req' = Settled(p, "renewed")
          BY <1>0, <1>3, <3>1, <5>1, NotWaiting
        <5>2. CASE req' = [req EXCEPT ![p].pc = "storing"]
          BY <1>0, <3>1, <5>2
        <5> QED BY <2>1, <5>1, <5>2 DEF RefreshGiven
      <4> QED BY <1>1a, <1>s, <4>1, <4>2
    <3>2. CASE p = e
      <4>1. Told /\ req[e].token = t
        BY <1>0, <2>1, <3>2 DEF RefreshGiven, Answered, Inv, RefreshHeld, Refreshing
      <4>2. /\ info'[e] = Renewed(t)
            /\ job'[e] = Write([Persisted(e) EXCEPT !.info = Renewed(t)])
            /\ UNCHANGED <<server, store, key, status, cmd>>
            /\ req' = [req EXCEPT ![e].pc = "storing"]
        BY <1>0, <1>1a, <2>1, <3>2, <4>1 DEF RefreshGiven
      <4>3. Renewed(t) # None /\ Renewed(t).login = t.login /\ Renewed(t).gen = t.gen + 1
        BY <1>0, <4>1, TokenHeld DEF Refreshing
      <4>4. req'[e].pc = "storing" /\ req'[e].answer = "ok"
        BY <1>0, <4>1, <4>2 DEF Request
      <4>5. job'[e].op = "set" /\ job'[e].value.info = Renewed(t)
        BY <4>2 DEF Write, Persisted
      <4>6. job'[e].value # None
        <5>1. [Persisted(e) EXCEPT !.info = Renewed(t)] \in Stored
          BY <1>0, <1>1a, <4>1, StoredMade, TokenHeld DEF Refreshing
        <5>2. job'[e].value = [Persisted(e) EXCEPT !.info = Renewed(t)]
          BY <4>2 DEF Write
        <5> QED BY <5>1, <5>2, SessionAssumption
      <4> QED BY <1>1a, <4>1, <4>2, <4>3, <4>4, <4>5, <4>6 DEF Left
    <3> QED BY <3>1, <3>2
  <2>2. CASE RefreshRefused(p)
    <3>1. p # e
      BY <1>1a, <2>2 DEF RefreshRefused, Answered
    <3> QED BY <1>0, <1>1a, <1>s, <1>3, <2>2, <3>1 DEF RefreshRefused, SignOut
  <2>3. CASE StoreDone(p)
    <3>1. p = e
      BY <1>0, <1>3, <2>3 DEF StoreDone, Procs
    <3>2. req'[e] = Over
      <4>1. (IF job[p].op = "set" THEN "renewed" ELSE "failed") \in {"renewed", "failed"}
        OBVIOUS
      <4> QED BY <1>0, <2>3, <3>1, <4>1, NotWaiting DEF StoreDone
    <3>3. /\ store' = job[e].value /\ job'[e] = NoJob /\ status'[e] = "logged_in"
          /\ UNCHANGED <<server, info, key, cmd>>
      BY <1>0, <1>1a, <2>3, <3>1 DEF StoreDone, Notify, IsLoggedIn
    <3> QED BY <1>0, <1>1a, <2>3, <3>1, <3>2, <3>3, RequestNew DEF StoreDone, Left, Answers
  <2>4. CASE StoreFails(p)
    BY <1>0, <2>4 DEF StoreFails
  <2>5. CASE GetCachePassword(p)
    BY <1>0, <1>1a, <1>s, <1>3, <2>5 DEF GetCachePassword, client, credentials
  <2>6. CASE CachePasswordSaved(p)
    BY <1>0, <1>1a, <1>s, <1>3, <2>6 DEF CachePasswordSaved, client, credentials
  <2> QED BY <2>1, <2>2, <2>3, <2>4, <2>5, <2>6, <1>3
<1>4. ASSUME \/ Expires \/ Revoked \/ EngineRestarts \/ CommandStarts
           \/ CommandEnds \/ WebApproved \/ WebSession \/ PasswordAccepted
           \/ PasswordEnds \/ LogsOut \/ CommandStored \/ CommandStoreFails
     PROVE  Left
  <2>1. CASE Expires
    <3>1. PICK l \in Logins : server' = [server EXCEPT ![l] = Expired(@)]
      BY <2>1 DEF Expires
    <3>2. /\ server'[t.login].live = server[t.login].live
          /\ server'[t.login].gen = server[t.login].gen
      BY <1>0, <1>2a, <3>1, AccountKept
    <3> QED BY <1>1a, <1>s, <2>1, <3>2 DEF Expires, client, credentials, writes
  <2>2. CASE Revoked
    BY <1>0, <2>2 DEF Revoked
  <2>3. CASE EngineRestarts
    <3>1. req[e].pc = "over" /\ job[e] = NoJob
      BY <1>0, <1>1a, <2>3 DEF EngineRestarts
    <3>2. store' = store /\ Loads(e, store)
      BY <3>1, <2>3 DEF EngineRestarts
    <3>3. store.key # None /\ store # None
      BY <1>0, <1>1a, <3>1 DEF TypeOK, Stored
    <3>4. req'[e] = Over /\ job'[e] = NoJob /\ UNCHANGED <<server, cmd>>
      BY <1>0, <2>3 DEF EngineRestarts, Ends, Own
    <3>5. info'[e] = store.info /\ key'[e] = store.key /\ status'[e] = "logged_in"
      BY <1>0, <3>2, <3>3 DEF Loads
    <3> QED BY <1>0, <1>1a, <3>1, <3>2, <3>3, <3>4, <3>5, RequestNew DEF Left, Answers
  <2>4. CASE CommandStarts
    BY <1>0, <1>1a, <1>s, <2>4 DEF CommandStarts, Loads, client, writes
  <2>5. CASE CommandEnds
    BY <1>0, <1>1a, <1>s, <2>5, Owned DEF CommandEnds, Loads, Ends
  <2>6. CASE WebApproved
    BY <1>1a, <2>6 DEF WebApproved
  <2>7. CASE WebSession
    BY <1>1a, <2>7 DEF WebSession
  <2>8. CASE PasswordAccepted
    BY <1>1a, <2>8 DEF PasswordAccepted
  <2>9. CASE PasswordEnds
    BY <1>1a, <2>9 DEF PasswordEnds
  <2>10. CASE LogsOut
    BY <1>1a, <2>10 DEF LogsOut
  <2>11. CASE CommandStored
    BY <1>1a, <2>11 DEF CommandStored, LoginSteps
  <2>12. CASE CommandStoreFails
    BY <1>1a, <2>12 DEF CommandStoreFails, LoginSteps
  <2> QED BY <2>1, <2>2, <2>3, <2>4, <2>5, <2>6, <2>7, <2>8, <2>9, <2>10, <2>11, <2>12, <1>4
<1>5. CASE UNCHANGED vars
  BY <1>1a, <1>s, <1>5 DEF vars, client, credentials, writes
<1> QED BY <1>1, <1>2, <1>3, <1>4, <1>5 DEF Next, ClientStep, ServerStep, RefreshStep, LoginStep


-----------------------------------------------------------------------------
(* The engine starts signed in, with nothing under way. *)
LEMMA InvInit ==
    Init => Inv
<1> SUFFICES ASSUME Init
    PROVE  Inv
    OBVIOUS
<1>0. /\ "engine" \in Procs /\ "command" \in Procs /\ "engine" # "command"
      /\ 1 \in Logins /\ FirstStored \in Stored /\ FirstStored # None
      /\ FirstStored.info = [login |-> 1, gen |-> 0] /\ FirstStored.info \in Token
      /\ FirstStored.info # None /\ 1 # None
      /\ FirstStored.info.login = 1 /\ FirstStored.info.gen = 0
  <2>1. 1 \in Logins
    BY SessionAssumption DEF Logins
  <2>2. [login |-> 1, gen |-> 0] \in Token
    BY <2>1 DEF Token
  <2>3. FirstStored \in Stored /\ FirstStored.info = [login |-> 1, gen |-> 0]
    BY <2>1, <2>2 DEF FirstStored, Stored
  <2>4. None \notin Logins /\ None \notin Token /\ None \notin Stored
    BY SessionAssumption
  <2>5. "engine" \in Procs /\ "command" \in Procs
    BY DEF Procs
  <2> QED BY <2>1, <2>2, <2>3, <2>4, <2>5
<1>0s. server[1].live /\ server[1].gen = 0
    BY <1>0 DEF Init
<1>1. /\ info["engine"] = FirstStored.info /\ info["command"] = None
      /\ key["engine"] = 1 /\ key["command"] = None
      /\ status["engine"] = "logged_in" /\ status["command"] = "needs_login"
      /\ \A p \in Procs : p = "engine" \/ p = "command"
    BY <1>0 DEF Init, ForProcs, Procs
<1>2. TypeOK
  <2>1. /\ info \in [Procs -> Token \union {None}] /\ key \in [Procs -> Logins \union {None}]
        /\ status \in [Procs -> {"logged_in", "needs_login"}]
    BY <1>0 DEF Init, ForProcs
  <2>2. server \in [Logins -> Account] /\ job \in [Procs -> Job]
    BY DEF Init, Account, NoJob, Job
  <2> QED BY <1>0, <2>1, <2>2, RequestNew DEF Init, TypeOK
<1>3. \A x \in Askers : req[x] = Over
    BY DEF Init, Askers
<1>4. Commanded /\ Bounded /\ RefreshHeld
  <2>1. MaxAttempts \in Nat \ {0}
    BY SessionAssumption
  <2>2. 1 <= 2 * MaxAttempts
    BY <2>1
  <2> QED BY <1>3, <2>2, Owned, RequestNew
          DEF Init, Commanded, Bounded, RefreshHeld, Refreshing
<1>5. AllIssued
  <2>1. Issued(FirstStored.info) /\ Issued(None)
    BY <1>0, <1>0s DEF Issued
  <2>2. \A p \in Procs : job[p].value = None /\ saving[p] = None
    BY DEF Init, NoJob
  <2> QED BY <1>0, <1>1, <1>3, <2>1, <2>2, Owned, RequestNew DEF AllIssued, Answered, Init
<1>6. Rejected /\ Unapplied
    BY <1>3, Owned, RequestNew DEF Init, Rejected, Unapplied, Answered
<1>7. SignedIn
  <2>1. req["engine"] = Over /\ None \notin Answers
    BY <1>0, <1>3, Owned, SessionAssumption
  <2>2. /\ cmd = "off" /\ job["engine"] = NoJob /\ store = FirstStored
    BY <1>0 DEF Init
  <2> QED BY <1>0, <1>0s, <1>1, <1>2, <2>1, <2>2, RequestNew, SignedInMeans DEF Answers
<1> QED
    BY <1>2, <1>4, <1>5, <1>6, <1>7 DEF Inv

(* Every step keeps every part of the invariant. *)
LEMMA InvStep ==
    Inv /\ [Next]_vars => Inv'
<1> SUFFICES ASSUME Inv, [Next]_vars
    PROVE  Inv'
    OBVIOUS
<1>1. harmed' \/ SignedIn'
    BY SignedStep
<1> QED
    BY <1>1, TypeStep, CommandedStep, BoundedStep, HeldStep, IssuedStep, RejectedStep,
       UnappliedStep DEF Inv

(* The invariant holds in every state. *)
LEMMA Invariant ==
    Spec => []Inv
    BY InvInit, InvStep, PTL DEF Spec

(* Every variable keeps its type: requests, tokens, what the store holds   *)
(* and what is being written to it (apiClient.ts, sessionCredentials.ts).  *)
THEOREM SessionTypeCorrect ==
    Spec => []TypeOK
<1>1. Inv => TypeOK
    BY DEF Inv
<1> QED
    BY <1>1, Invariant, PTL

(* However many requests run side by side and are rejected, throttled,     *)
(* lost and sent again, the engine keeps the session the server takes, in  *)
(* memory and in the store, until something from outside ends it           *)
(* (apiClient.ts:336 refreshSessionIfPossible).                            *)
THEOREM EngineStaysSignedIn ==
    Spec => []SessionKept
<1>1. Inv => SessionKept
  <2> SUFFICES ASSUME Inv
      PROVE  SessionKept
      OBVIOUS
  <2>1. CASE harmed
    BY <2>1 DEF SessionKept
  <2>2. CASE SignedIn
    <3>1. Usable(info["engine"])
      BY <2>2 DEF SignedIn, Usable, Answered
    <3> QED BY <2>2, <3>1 DEF SignedIn, SessionKept, NoJob
  <2> QED BY <2>1, <2>2 DEF Inv
<1> QED
    BY <1>1, Invariant, PTL

(* A request that is not idempotent takes effect at most once, whatever    *)
(* the answers were (apiClient.ts:11).                                     *)
THEOREM AppliedAtMostOnce ==
    Spec => []AppliedOnce
<1>1. Inv => AppliedOnce
    BY DEF Inv, Unapplied, AppliedOnce
<1> QED
    BY <1>1, Invariant, PTL

(* No refresh is begun with a token whose access token the server takes:   *)
(* what rejected the request is still so when its answer is read, and the  *)
(* token of now is compared with the one that was sent (apiClient.ts:338). *)
THEOREM RefreshOnlyWhenRejected ==
    Spec => RefreshesWhenRejected
<1> DEFINE A == \A p \in Procs :
                  (req[p].pc = "over" /\ req'[p].pc # "over") => ~Accepts(req'[p].token)
<1>1. Inv /\ [Next]_vars => A
  <2> SUFFICES ASSUME Inv, [Next]_vars, NEW p \in Procs, req[p].pc = "over", req'[p].pc # "over"
      PROVE  ~Accepts(req'[p].token)
      OBVIOUS
  <2>1. PICK x \in Requests : /\ p \in Procs /\ Owner[x] = p /\ Unauthorized(x)
                              /\ ~req[x].refreshed /\ info[p] # None
                              /\ req[x].token = None \/ info[p] = req[x].token
                              /\ req'[p] = [Fresh EXCEPT !.token = info[p]]
    BY Begun, Owned
  <2>2. Answered(x, "unauthorized") /\ req[x].pc = "answered"
    BY <2>1 DEF Unauthorized, Answered
  <2>3. ~Accepts(req[x].token) /\ req[x].token # None
    BY <2>1, <2>2 DEF Inv, Rejected
  <2>4. req'[p].token = info[p]
    BY <2>1 DEF Fresh, Over
  <2> QED BY <2>1, <2>3, <2>4
<1>2. Inv /\ [Next]_vars => [A]_vars
    BY <1>1
<1> QED
    BY <1>2, Invariant, PTL DEF Spec, RefreshesWhenRejected
=============================================================================
