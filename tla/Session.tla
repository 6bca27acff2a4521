------------------------------ MODULE Session ------------------------------
(***************************************************************************)
(* The session with the server: the request loop and the refresh of        *)
(* remote/proton/apiClient.ts, the credentials of sessionCredentials.ts    *)
(* and sessionState.ts, the secret store of config/secretStore.ts, and the *)
(* commands login, logout and setup, whose process shares nothing with the *)
(* engine's but the stored session.                                        *)
(*                                                                         *)
(* A token is the number of a login and of the refreshes since: it stands  *)
(* for the access token and the refresh token given together.              *)
(***************************************************************************)
EXTENDS Integers, FiniteSets, TLC

CONSTANTS
    None,
    Requests,     \* calls of the two processes
    Owner,        \* the process that makes them
    Idempotent,   \* those whose method is GET, HEAD, OPTIONS, PUT or DELETE
    MaxAttempts,  \* maxAttempts of the client
    MaxLogins,    \* bound: logins there may be, the first one is made
    MaxCalls,     \* bound: requests of the engine, and commands
    MaxFaults     \* bound: calls throttled, failed or lost, tokens expired, crashes

Procs == {"engine", "command"}
Logins == 1..MaxLogins
Token == [login : Logins, gen : Nat]
Stored == [key : Logins, info : Token, cached : BOOLEAN]
Answers == {"ok", "unauthorized", "refused", "throttled", "failed"}

ASSUME SessionAssumption ==
    /\ Owner \in [Requests -> Procs]
    /\ Idempotent \subseteq Requests
    /\ Requests \intersect Procs = {}
    /\ MaxAttempts \in Nat \ {0}
    /\ MaxLogins \in Nat \ {0}
    /\ None \notin Logins \union Token \union Stored \union Answers

VARIABLES
    (* The server. *)
    server,   \* by login: the tokens it accepts
    applied,  \* how often a request took effect
    (* The secret store. *)
    store,
    (* Credentials and SessionState, by process. *)
    info, key, cached, status,
    (* ProtonApiClient, by process. *)
    req,      \* the requests, and under the process's name its activeRefresh
    gate,     \* throttledUntil is in the future
    (* Calls of the secret store in progress, by process. *)
    job,      \* of setSessionInfo(), setUserKeyPassword() and signOut()
    saving,   \* of getCachePassword()
    (* The command that runs. *)
    cmd,
    (* Bounds, and history. *)
    calls, faults,
    harmed    \* something happened that may cost the engine its session

credentials == <<info, key, cached, status>>
client == <<req, gate>>
writes == <<job, saving>>
vars == <<server, applied, store, credentials, client, writes, cmd, calls, faults, harmed>>

-----------------------------------------------------------------------------
(* The server, as the client and the tests use it.  A refresh gives new    *)
(* tokens and ends the old ones.                                           *)

Account == [gen : Nat, fresh : BOOLEAN, live : BOOLEAN]
Opened(a) == [a EXCEPT !.live = TRUE, !.fresh = TRUE]
Expired(a) == [a EXCEPT !.fresh = FALSE]
Spent(a) == [a EXCEPT !.gen = @ + 1, !.fresh = TRUE]
Closed(a) == [a EXCEPT !.live = FALSE, !.gen = @ + 1]

Refreshable(t) == t # None /\ server[t.login].live /\ server[t.login].gen = t.gen
Accepts(t) == Refreshable(t) /\ server[t.login].fresh
Renewed(t) == [t EXCEPT !.gen = @ + 1]

Fault == faults < MaxFaults /\ faults' = faults + 1

(* An access token has a short life. *)
Expires ==
    /\ \E l \in Logins :
          /\ server[l].fresh
          /\ server' = [server EXCEPT ![l] = Expired(@)]
    /\ Fault
    /\ UNCHANGED <<applied, store, credentials, client, writes, cmd, calls, harmed>>

(* The account's owner ends the session from somewhere else. *)
Revoked ==
    /\ \E l \in Logins :
          /\ server[l].live
          /\ server' = [server EXCEPT ![l] = Closed(@)]
    /\ Fault
    /\ harmed' = TRUE
    /\ UNCHANGED <<applied, store, credentials, client, writes, cmd, calls>>

-----------------------------------------------------------------------------
(* Credentials. *)

(* persist(): what is written, if both pieces are known. *)
Persisted(p) == [key |-> key[p], info |-> info[p], cached |-> cached[p]]
IsLoggedIn(p) == key[p] # None /\ info[p] # None

Job == [op : {"none", "set", "delete"}, value : Stored \union {None}]
NoJob == [op |-> "none", value |-> None]
Write(v) == [op |-> "set", value |-> v]
Erase == [op |-> "delete", value |-> None]

(* load() and resume(), and what a process that ends leaves. *)
Loads(p, s) ==
    /\ info' = [info EXCEPT ![p] = IF s = None THEN None ELSE s.info]
    /\ key' = [key EXCEPT ![p] = IF s = None THEN None ELSE s.key]
    /\ cached' = [cached EXCEPT ![p] = s # None /\ s.cached]
    /\ status' = [status EXCEPT ![p] = IF s = None THEN "needs_login" ELSE "logged_in"]

(* signOut(): the memory at once, then the store. *)
SignOut(p) ==
    /\ info' = [info EXCEPT ![p] = None]
    /\ key' = [key EXCEPT ![p] = None]
    /\ cached' = [cached EXCEPT ![p] = FALSE]
    /\ job' = [job EXCEPT ![p] = Erase]
    /\ UNCHANGED status

(* notify(), which SessionState listens to. *)
Notify(p) ==
    status' = [status EXCEPT ![p] = IF IsLoggedIn(p) THEN "logged_in" ELSE "needs_login"]

(* Mutant: it is written although the session is gone. *)
GetCachePasswordAlways(p) ==
    /\ status[p] = "logged_in" /\ ~cached[p] /\ saving[p] = None
    /\ cached' = [cached EXCEPT ![p] = TRUE]
    /\ saving' = [saving EXCEPT ![p] = [Persisted(p) EXCEPT !.cached = TRUE]]
    /\ UNCHANGED <<server, applied, store, info, key, status, client, job, cmd, calls, faults,
                   harmed>>

(* getCachePassword(): the caches ask for it at their first use. *)
GetCachePassword(p) ==
    /\ status[p] = "logged_in" /\ ~cached[p] /\ saving[p] = None
    /\ cached' = [cached EXCEPT ![p] = TRUE]
    /\ saving' = [saving EXCEPT ![p] = IF IsLoggedIn(p)
                                       THEN [Persisted(p) EXCEPT !.cached = TRUE] ELSE None]
    /\ UNCHANGED <<server, applied, store, info, key, status, client, job, cmd, calls, faults,
                   harmed>>

CachePasswordSaved(p) ==
    /\ saving[p] # None
    /\ store' = saving[p]
    /\ saving' = [saving EXCEPT ![p] = None]
    /\ harmed' = (harmed \/ job["engine"] # NoJob \/ saving[p].info # info["engine"])
    /\ UNCHANGED <<server, applied, credentials, client, job, cmd, calls, faults>>

-----------------------------------------------------------------------------
(* ProtonApiClient.request(). *)

Own(x) == IF x \in Procs THEN x ELSE Owner[x]
Pending == {"ready", "gated", "sent", "answered", "backoff", "throttled", "refreshing", "storing"}
Request == [pc : Pending \union {"over"}, token : Token \union {None},
            attempt : 1..(2 * MaxAttempts + 1), refreshed : BOOLEAN,
            answer : Answers \union {None}]
Over == [pc |-> "over", token |-> None, attempt |-> 1, refreshed |-> FALSE, answer |-> None]
Fresh == [Over EXCEPT !.pc = "ready"]
Again(q) == [q EXCEPT !.pc = "ready", !.attempt = @ + 1, !.answer = None]

Begins(r) ==
    /\ req[r].pc = "over"
    /\ status[Own(r)] = "logged_in"
    /\ IF Own(r) = "command" THEN cmd = "setup" /\ UNCHANGED calls
       ELSE calls < MaxCalls /\ calls' = calls + 1
    /\ req' = [req EXCEPT ![r] = Fresh]
    /\ applied' = [applied EXCEPT ![r] = 0]
    /\ UNCHANGED <<server, store, credentials, gate, writes, cmd, faults, harmed>>

(* waitIfThrottled() waits once; the headers are built after it.  A        *)
(* refresh carries the refresh token it began with.                        *)
Sends(x) ==
    /\ \/ req[x].pc = "ready" /\ gate[Own(x)] /\ req' = [req EXCEPT ![x].pc = "gated"]
       \/ /\ req[x].pc = "gated" \/ (req[x].pc = "ready" /\ ~gate[Own(x)])
          /\ req' = [req EXCEPT ![x].pc = "sent",
                                ![x].token = IF x \in Procs THEN @ ELSE info[Own(x)]]
    /\ UNCHANGED <<server, applied, store, credentials, gate, writes, cmd, calls, faults, harmed>>

Answer(x, a) == req' = [req EXCEPT ![x].pc = "answered", ![x].answer = a]

(* The request takes effect at the server. *)
TakesEffect(x) ==
    LET t == req[x].token IN
    IF x \in Procs
    THEN /\ Refreshable(t)
         /\ server' = [server EXCEPT ![t.login] = Spent(@)]
         /\ UNCHANGED applied
    ELSE /\ Accepts(t)
         /\ applied' = [applied EXCEPT ![x] = @ + 1]
         /\ UNCHANGED server

ServerAccepts(x) ==
    /\ req[x].pc = "sent"
    /\ TakesEffect(x)
    /\ Answer(x, "ok")
    /\ harmed' = (harmed \/ x = "command")
    /\ UNCHANGED <<store, credentials, gate, writes, cmd, calls, faults>>

ServerRejects(x) ==
    /\ req[x].pc = "sent"
    /\ IF x \in Procs THEN ~Refreshable(req[x].token) ELSE ~Accepts(req[x].token)
    /\ Answer(x, IF x \in Procs THEN "refused" ELSE "unauthorized")
    /\ UNCHANGED <<server, applied, store, credentials, gate, writes, cmd, calls, faults, harmed>>

(* 429, or 503 with a time to wait. *)
ServerThrottles(x) ==
    /\ req[x].pc = "sent"
    /\ Answer(x, "throttled")
    /\ Fault
    /\ UNCHANGED <<server, applied, store, credentials, gate, writes, cmd, calls, harmed>>

(* A 5xx answer, or none within the time: the request may have taken       *)
(* effect.  An answer that cannot be read is as good as none.              *)
AnswerFails(x) ==
    /\ req[x].pc = "sent"
    /\ \/ /\ TakesEffect(x)
          /\ harmed' = (harmed \/ x \in Procs)
       \/ UNCHANGED <<server, applied, harmed>>
    /\ Answer(x, "failed")
    /\ Fault
    /\ UNCHANGED <<store, credentials, gate, writes, cmd, calls>>

Answered(x, a) == req[x].pc = "answered" /\ req[x].answer = a

Waiting(p) == {r \in Requests : Owner[r] = p /\ req[r].pc = "refreshing"}

(* Mutant: requests that wait are told of a success only. *)
SettledIfRenewed(p, outcome) ==
    [x \in DOMAIN req |->
       IF x = p THEN Over
       ELSE IF x \in Waiting(p) /\ outcome = "renewed" THEN Again(req[x]) ELSE req[x]]

(* The promise of the refresh is settled: the requests that wait for it go *)
(* on or end.                                                              *)
Settled(p, outcome) ==
    [x \in DOMAIN req |->
       IF x = p THEN Over
       ELSE IF x \notin Waiting(p) THEN req[x]
       ELSE IF outcome = "renewed" THEN Again(req[x]) ELSE Over]

(* The request ends, whatever its answer. *)
Ended(x) == IF x \in Procs THEN Settled(x, "failed") ELSE [req EXCEPT ![x] = Over]

Succeeds(r) ==
    /\ Answered(r, "ok") /\ r \in Requests
    /\ req' = Ended(r)
    /\ UNCHANGED <<server, applied, store, credentials, gate, writes, cmd, calls, faults, harmed>>

(* Mutant: every rejected request begins a refresh of its own. *)
UnauthorizedAlone(r) ==
    LET p == Owner[r]
        current == info[p]
        joined == [req EXCEPT ![r].pc = "refreshing", ![r].refreshed = TRUE]
    IN
    /\ r \in Requests /\ Answered(r, "unauthorized")
    /\ req' = IF req[r].refreshed \/ current = None THEN Ended(r)
              ELSE IF req[r].token # None /\ current # req[r].token
              THEN [req EXCEPT ![r] = [Again(@) EXCEPT !.refreshed = TRUE]]
              ELSE [joined EXCEPT ![p] = [Fresh EXCEPT !.token = current]]
    /\ UNCHANGED <<server, applied, store, credentials, gate, writes, cmd, calls, faults, harmed>>

(* Mutant: the token that was rejected is not compared with that of now. *)
UnauthorizedUnchecked(r) ==
    LET p == Owner[r]
        joined == [req EXCEPT ![r].pc = "refreshing", ![r].refreshed = TRUE]
    IN
    /\ r \in Requests /\ Answered(r, "unauthorized")
    /\ req' = IF req[r].refreshed THEN Ended(r)
              ELSE IF req[p].pc # "over" THEN joined
              ELSE IF info[p] = None THEN Ended(r)
              ELSE [joined EXCEPT ![p] = [Fresh EXCEPT !.token = info[p]]]
    /\ UNCHANGED <<server, applied, store, credentials, gate, writes, cmd, calls, faults, harmed>>

(* 401: refreshSessionIfPossible(), once. *)
Unauthorized(r) ==
    LET p == Owner[r]
        current == info[p]
        joined == [req EXCEPT ![r].pc = "refreshing", ![r].refreshed = TRUE]
    IN
    /\ r \in Requests /\ Answered(r, "unauthorized")
    /\ req' = IF req[r].refreshed THEN Ended(r)
              ELSE IF current # None /\ req[r].token # None /\ current # req[r].token
              THEN [req EXCEPT ![r] = [Again(@) EXCEPT !.refreshed = TRUE]]
              ELSE IF req[p].pc # "over" THEN joined
              ELSE IF current = None THEN Ended(r)
              ELSE [joined EXCEPT ![p] = [Fresh EXCEPT !.token = current]]
    /\ UNCHANGED <<server, applied, store, credentials, gate, writes, cmd, calls, faults, harmed>>

(* The gate is for the other requests of the client. *)
Throttled(x) ==
    /\ Answered(x, "throttled")
    /\ IF req[x].attempt >= 2 * MaxAttempts
       THEN req' = Ended(x) /\ UNCHANGED gate
       ELSE /\ req' = [req EXCEPT ![x].pc = "throttled"]
            /\ gate' = [gate EXCEPT ![Own(x)] = TRUE]
    /\ UNCHANGED <<server, applied, store, credentials, writes, cmd, calls, faults, harmed>>

ThrottleOver(x) ==
    /\ req[x].pc = "throttled"
    /\ req' = [req EXCEPT ![x] = Again(@)]
    /\ gate' = [gate EXCEPT ![Own(x)] = FALSE]
    /\ UNCHANGED <<server, applied, store, credentials, writes, cmd, calls, faults, harmed>>

(* Mutant: whatever the method. *)
RetriesAny(x) == x \in Requests /\ req[x].attempt < MaxAttempts

Retries(x) == x \in Idempotent /\ req[x].attempt < MaxAttempts

Failed(x) ==
    /\ Answered(x, "failed")
    /\ req' = IF Retries(x) THEN [req EXCEPT ![x].pc = "backoff"] ELSE Ended(x)
    /\ UNCHANGED <<server, applied, store, credentials, gate, writes, cmd, calls, faults, harmed>>

BackoffOver(x) ==
    /\ req[x].pc = "backoff"
    /\ req' = [req EXCEPT ![x] = Again(@)]
    /\ UNCHANGED <<server, applied, store, credentials, gate, writes, cmd, calls, faults, harmed>>

-----------------------------------------------------------------------------
(* performRefresh(). *)

(* setSessionInfo(): the memory at once, the store if the key password is  *)
(* known, and only then notify().                                          *)
RefreshGiven(p) ==
    /\ Answered(p, "ok") /\ p \in Procs
    /\ LET new == Renewed(req[p].token) IN
       /\ info' = [info EXCEPT ![p] = new]
       /\ IF key[p] # None
          THEN /\ job' = [job EXCEPT ![p] = Write([Persisted(p) EXCEPT !.info = new])]
               /\ req' = [req EXCEPT ![p].pc = "storing"]
          ELSE req' = Settled(p, "renewed") /\ UNCHANGED job
    /\ UNCHANGED <<server, applied, store, key, cached, status, gate, saving, cmd, calls,
                   faults, harmed>>

(* A 4xx answer other than 429. *)
RefreshRefused(p) ==
    /\ Answered(p, "refused") /\ p \in Procs
    /\ SignOut(p)
    /\ req' = [req EXCEPT ![p].pc = "storing"]
    /\ UNCHANGED <<server, applied, store, gate, saving, cmd, calls, faults, harmed>>

(* The secret store has done what it was asked for. *)
StoreDone(p) ==
    /\ job[p] # NoJob /\ req[p].pc = "storing"
    /\ store' = job[p].value
    /\ job' = [job EXCEPT ![p] = NoJob]
    /\ harmed' = (harmed \/ saving["engine"] # None \/ p = "command")
    /\ Notify(p)
    /\ req' = Settled(p, IF job[p].op = "set" THEN "renewed" ELSE "failed")
    /\ UNCHANGED <<server, applied, info, key, cached, gate, saving, cmd, calls, faults>>

(* The secret store is unavailable: the refresh throws, and nobody is told.*)
StoreFails(p) ==
    /\ job[p] # NoJob /\ req[p].pc = "storing"
    /\ job' = [job EXCEPT ![p] = NoJob]
    /\ req' = Settled(p, "failed")
    /\ harmed' = TRUE
    /\ Fault
    /\ UNCHANGED <<server, applied, store, credentials, gate, saving, cmd, calls>>

-----------------------------------------------------------------------------
(* The processes.  A crash loses what is not stored; what was being stored *)
(* may or may not get there.                                               *)

Idle(p) == /\ \A x \in DOMAIN req : Own(x) = p => req[x].pc = "over"
           /\ job[p] = NoJob /\ saving[p] = None

Ends(p) ==
    /\ req' = [x \in DOMAIN req |-> IF Own(x) = p THEN Over ELSE req[x]]
    /\ gate' = [gate EXCEPT ![p] = FALSE]
    /\ job' = [job EXCEPT ![p] = NoJob]
    /\ saving' = [saving EXCEPT ![p] = None]

EngineRestarts ==
    /\ \E s \in {store} \union (IF job["engine"] = NoJob THEN {} ELSE {job["engine"].value}) :
          store' = s /\ Loads("engine", s)
    /\ Ends("engine")
    /\ harmed' = (harmed \/ req["engine"].pc # "over" \/ saving["engine"] # None)
    /\ Fault
    /\ UNCHANGED <<server, applied, cmd, calls>>

(* A command loads the stored session when it begins. *)
CommandStarts ==
    /\ cmd = "off" /\ calls < MaxCalls /\ calls' = calls + 1
    /\ \E c \in {"setup", "login", "logout"} :
          /\ c = "setup" => store # None
          /\ c = "login" => \E l \in Logins : server[l].gen = 0 /\ ~server[l].live
          /\ cmd' = c
          /\ harmed' = (harmed \/ c # "setup")
    /\ Loads("command", store)
    /\ UNCHANGED <<server, applied, store, client, writes, faults>>

CommandEnds ==
    /\ \/ cmd = "setup" /\ Idle("command") /\ UNCHANGED faults
       \/ cmd = "done" /\ Idle("command") /\ UNCHANGED faults
       \/ cmd # "off" /\ Fault
    /\ cmd' = "off"
    /\ Ends("command")
    /\ Loads("command", None)
    /\ UNCHANGED <<server, applied, store, calls, harmed>>

-----------------------------------------------------------------------------
(* login and logout, config/secretStore.ts below them. *)

Grants(l) ==
    /\ server[l].gen = 0 /\ ~server[l].live
    /\ server' = [server EXCEPT ![l] = Opened(@)]

(* loginViaWeb(), approved in the browser: the key password first ... *)
WebApproved ==
    /\ cmd = "login" /\ cmd' = "web"
    /\ \E l \in Logins :
          /\ Grants(l)
          /\ key' = [key EXCEPT !["command"] = l]
          /\ job' = IF info["command"] = None THEN job
                    ELSE [job EXCEPT !["command"] = Write([Persisted("command") EXCEPT !.key = l])]
    /\ UNCHANGED <<applied, store, info, cached, status, client, saving, calls, faults, harmed>>

(* ... then the session. *)
WebSession ==
    /\ cmd = "web" /\ job["command"] = NoJob /\ cmd' = "landing"
    /\ LET new == [login |-> key["command"], gen |-> 0] IN
       /\ info' = [info EXCEPT !["command"] = new]
       /\ job' = [job EXCEPT !["command"] = Write([Persisted("command") EXCEPT !.info = new])]
    /\ UNCHANGED <<server, applied, store, key, cached, status, client, saving, calls, faults,
                   harmed>>

(* loginViaPassword(), the proofs exchanged: the session first, which is   *)
(* stored if a key password is known, be it that of an older login.        *)
PasswordAccepted ==
    /\ cmd = "login" /\ cmd' = "password"
    /\ \E l \in Logins :
          LET new == [login |-> l, gen |-> 0] IN
          /\ Grants(l)
          /\ info' = [info EXCEPT !["command"] = new]
          /\ job' = IF key["command"] = None THEN job
                    ELSE [job EXCEPT !["command"] = Write([Persisted("command") EXCEPT !.info = new])]
    /\ UNCHANGED <<applied, store, key, cached, status, client, saving, calls, faults, harmed>>

(* The second factor and the salts: the key password is known, or the      *)
(* login is refused, or a call or the prompt throws.                       *)
PasswordEnds ==
    /\ cmd = "password" /\ job["command"] = NoJob
    /\ \/ LET l == info["command"].login IN
          /\ key' = [key EXCEPT !["command"] = l]
          /\ job' = [job EXCEPT !["command"] = Write([Persisted("command") EXCEPT !.key = l])]
          /\ cmd' = "landing"
          /\ UNCHANGED <<info, cached, status>>
       \/ SignOut("command") /\ cmd' = "landing"
       \/ cmd' = "done" /\ UNCHANGED <<credentials, job>>
    /\ UNCHANGED <<server, applied, store, client, saving, calls, faults, harmed>>

(* logout(): the session is revoked if the server can be reached, and      *)
(* forgotten in any case.                                                  *)
LogsOut ==
    /\ cmd = "logout" /\ cmd' = "landing"
    /\ \/ /\ IsLoggedIn("command") /\ Accepts(info["command"])
          /\ server' = [server EXCEPT ![info["command"].login] = Closed(@)]
       \/ UNCHANGED server
    /\ SignOut("command")
    /\ UNCHANGED <<applied, store, client, saving, calls, faults, harmed>>

LoginSteps == {"web", "password", "landing"}

CommandStored ==
    /\ cmd \in LoginSteps /\ job["command"] # NoJob
    /\ store' = job["command"].value
    /\ job' = [job EXCEPT !["command"] = NoJob]
    /\ Notify("command")
    /\ cmd' = IF cmd = "landing" THEN "done" ELSE cmd
    /\ UNCHANGED <<server, applied, info, key, cached, client, saving, calls, faults, harmed>>

CommandStoreFails ==
    /\ cmd \in LoginSteps /\ job["command"] # NoJob
    /\ job' = [job EXCEPT !["command"] = NoJob]
    /\ cmd' = "done"
    /\ harmed' = TRUE
    /\ Fault
    /\ UNCHANGED <<server, applied, store, credentials, client, saving, calls>>

-----------------------------------------------------------------------------
(* The engine starts with the stored session of the first login. *)

FirstStored == [key |-> 1, info |-> [login |-> 1, gen |-> 0], cached |-> FALSE]
ForProcs(e, c) == [p \in Procs |-> IF p = "engine" THEN e ELSE c]

Init ==
    /\ server = [l \in Logins |-> [gen |-> 0, fresh |-> l = 1, live |-> l = 1]]
    /\ applied = [r \in Requests |-> 0]
    /\ store = FirstStored
    /\ info = ForProcs(FirstStored.info, None)
    /\ key = ForProcs(1, None)
    /\ cached = [p \in Procs |-> FALSE]
    /\ status = ForProcs("logged_in", "needs_login")
    /\ req = [x \in Requests \union Procs |-> Over]
    /\ gate = [p \in Procs |-> FALSE]
    /\ job = [p \in Procs |-> NoJob]
    /\ saving = [p \in Procs |-> None]
    /\ cmd = "off"
    /\ calls = 0 /\ faults = 0 /\ harmed = FALSE

(* What the client does next with a request, and what it waits for. *)
ClientStep(x) ==
    \/ Sends(x) \/ Succeeds(x) \/ Unauthorized(x)
    \/ Throttled(x) \/ ThrottleOver(x) \/ Failed(x) \/ BackoffOver(x)

ServerStep(x) == ServerAccepts(x) \/ ServerRejects(x)

RefreshStep(p) == RefreshGiven(p) \/ RefreshRefused(p) \/ StoreDone(p)

LoginStep ==
    \/ WebApproved \/ WebSession \/ PasswordAccepted \/ PasswordEnds \/ LogsOut \/ CommandStored

Next ==
    \/ \E x \in Requests \union Procs :
          ClientStep(x) \/ ServerStep(x) \/ ServerThrottles(x) \/ AnswerFails(x)
    \/ \E r \in Requests : Begins(r)
    \/ \E p \in Procs :
          RefreshStep(p) \/ StoreFails(p) \/ GetCachePassword(p) \/ CachePasswordSaved(p)
    \/ Expires \/ Revoked \/ EngineRestarts
    \/ CommandStarts \/ CommandEnds \/ LoginStep \/ CommandStoreFails

Spec == Init /\ [][Next]_vars

(* A process goes on with what it has begun, and every call of the server  *)
(* and of the secret store is answered or times out.                       *)
Progress(p) ==
    \/ \E x \in DOMAIN req : Own(x) = p /\ (ClientStep(x) \/ ServerStep(x))
    \/ RefreshStep(p)

FairSpec == Spec /\ \A p \in Procs : WF_vars(Progress(p))

-----------------------------------------------------------------------------

TypeOK ==
    /\ server \in [Logins -> Account]
    /\ applied \in [Requests -> Nat]
    /\ store \in Stored \union {None}
    /\ info \in [Procs -> Token \union {None}]
    /\ key \in [Procs -> Logins \union {None}]
    /\ cached \in [Procs -> BOOLEAN]
    /\ status \in [Procs -> {"logged_in", "needs_login"}]
    /\ req \in [Requests \union Procs -> Request]
    /\ gate \in [Procs -> BOOLEAN]
    /\ job \in [Procs -> Job]
    /\ saving \in [Procs -> Stored \union {None}]
    /\ cmd \in {"off", "setup", "login", "logout", "done"} \union LoginSteps
    /\ harmed \in BOOLEAN

(* Requests that run side by side never cost the engine its session: it    *)
(* stays signed in with the tokens the server takes, in memory and in the  *)
(* store, unless the session was ended or renewed by somebody else, an     *)
(* answer of the refresh was lost, or storing it failed or was interrupted *)
(* or overtaken (apiClient.ts:336 refreshSessionIfPossible).               *)
Usable(t) ==
    /\ t # None
    /\ \/ Refreshable(t)
       \/ req["engine"].answer = "ok" /\ Refreshable(Renewed(t))

SessionKept ==
    ~harmed =>
      /\ Usable(info["engine"]) /\ status["engine"] = "logged_in"
      /\ job["engine"] = NoJob => store.info = info["engine"]

(* A refresh, which spends the refresh token, is never begun while the     *)
(* server takes the access token the process holds (apiClient.ts:338).     *)
RefreshesWhenRejected ==
    [][\A p \in Procs :
         (req[p].pc = "over" /\ req'[p].pc # "over") => ~Accepts(req'[p].token)]_vars

(* A request that is not idempotent takes effect at most once, however it  *)
(* was answered (apiClient.ts:11 "Mutating requests are never retried      *)
(* after an unknown outcome here").                                        *)
AppliedOnce == \A r \in Requests \ Idempotent : applied[r] <= 1

(* Every request ends: the retries and the waits are bounded, and the      *)
(* refresh, a request itself, never waits for a refresh.  So a process is  *)
(* again and again without a request under way.                            *)
EveryRequestEnds ==
    \A p \in Procs : []<>(\A x \in DOMAIN req : Own(x) = p => req[x].pc = "over")
=============================================================================
