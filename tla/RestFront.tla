------------------------------ MODULE RestFront ------------------------------
(***************************************************************************)
(* A request to the REST server on its way to a handler: the rate limiter, *)
(* then the authentication, or one of the /auth endpoints.  Requests are   *)
(* served by concurrent goroutines.  What the handlers do with keys is the *)
(* subject of KeyServer.                                                   *)
(***************************************************************************)
EXTENDS RateLimiter, DashAuth, FiniteSets

CONSTANTS
  Workers,  \* goroutines that serve requests at the same time
  NoToken   \* a request without a cookie, or whose cookie was made up

ASSUME RestAssumption == IsFiniteSet(Workers) /\ Workers # {} /\ NoToken \notin Tokens

VARIABLES
  worker,  \* the request that each goroutine serves
  failed,  \* history: ages of the logins with a wrong key, per address
  ended    \* history: the tokens whose logout was answered

restVars == <<limiterVars, authVars, worker, failed, ended>>

(* bearer: the Authorization header has the API key; live (history): the    *)
(* cookie named a valid session when the request arrived.                   *)
Request == [pc : {"idle", "auth", "login", "compare", "record", "create",
                  "logout", "status", "handler"},
            ip : Ips, bearer : BOOLEAN,
            cookie : Tokens \cup {NoToken}, live : BOOLEAN]

RestTypeOK ==
  /\ LimiterTypeOK
  /\ AuthTypeOK
  /\ worker \in [Workers -> Request]
  /\ failed \in [Ips -> Seq(0..(Minute - 1))]
  /\ ended \subseteq Tokens

RestInit ==
  /\ LimiterInit
  /\ AuthInit
  /\ \E ip \in Ips :
       worker = [w \in Workers |-> [pc |-> "idle", ip |-> ip, bearer |-> FALSE,
                                    cookie |-> NoToken, live |-> FALSE]]
  /\ failed = [ip \in Ips |-> <<>>]
  /\ ended = {}

Goto(w, pc) == worker' = [worker EXCEPT ![w].pc = pc]

(* The credentials have been read and are not needed any more. *)
Forget(w, pc) ==
  worker' = [worker EXCEPT ![w] = [pc |-> pc, ip |-> @.ip, bearer |-> FALSE,
                                   cookie |-> NoToken, live |-> FALSE]]

Finish(w) == Forget(w, "idle")

(* A client sends cookies that it was given, whatever became of them. *)
Cookies == {NoToken} \cup {t \in Tokens : sessions[t].state # "free"}

(* A request, by the route it takes and the credentials that are read       *)
(* there: a header with a wrong key is as good as none, a cookie beside the *)
(* right key is not looked at, and the public routes (health, metrics,      *)
(* static files, CORS preflight) read nothing.                              *)
Requests ==
  [route : {"auth"}, bearer : {TRUE}, cookie : {NoToken}]
    \cup [route : {"auth", "logout", "status"}, bearer : {FALSE}, cookie : Cookies]
    \cup [route : {"login", "public"}, bearer : {FALSE}, cookie : {NoToken}]
-----------------------------------------------------------------------------
(* A request arrives and meets the rate limiter first. *)
rateLimitMiddleware(w, ip, r) ==
  /\ worker[w].pc = "idle"
  /\ \E ok \in BOOLEAN :
       /\ allow(ip, ok)
       /\ IF ok /\ r.route # "public"
            THEN worker' = [worker EXCEPT ![w] =
                   [pc |-> r.route, ip |-> ip, bearer |-> r.bearer, cookie |-> r.cookie,
                    live |-> /\ r.cookie \in Tokens \ ended
                             /\ sessions[r.cookie].state = "stored"
                             /\ ~Expired(sessions[r.cookie])]]
            ELSE UNCHANGED worker
  /\ UNCHANGED <<authVars, failed, ended>>

(* The cookie is only looked at when there is one. *)
CookieIsValid(w, ok) ==
  IF worker[w].cookie = NoToken THEN ok = FALSE /\ UNCHANGED authVars
                                ELSE validSession(worker[w].cookie, ok)

RequireAPIAuth(w) ==
  /\ worker[w].pc = "auth"
  /\ IF devMode \/ worker[w].bearer
       THEN Forget(w, "handler") /\ UNCHANGED authVars
       ELSE \E ok \in BOOLEAN :
              /\ CookieIsValid(w, ok)
              /\ IF ok THEN Forget(w, "handler") ELSE Finish(w)
  /\ UNCHANGED <<limiterVars, failed, ended>>

(* The handler answers. *)
Handled(w) ==
  /\ worker[w].pc = "handler"
  /\ Finish(w)
  /\ UNCHANGED <<limiterVars, authVars, failed, ended>>

(* handleLogin, first part: locked out, or on to the key. *)
LoginAllowed(w) ==
  /\ worker[w].pc = "login"
  /\ IF devMode
       THEN Finish(w) /\ UNCHANGED authVars
       ELSE \E ok \in BOOLEAN :
              /\ allowLogin(worker[w].ip, ok)
              /\ IF ok THEN Goto(w, "compare") ELSE Finish(w)
  /\ UNCHANGED <<limiterVars, failed, ended>>

(* Second part: the key in the body is wrong, or it is right, or the body   *)
(* cannot be decoded, which is no attempt.                                  *)
LoginChecked(w) ==
  /\ worker[w].pc = "compare"
  /\ \/ failed' = [failed EXCEPT ![worker[w].ip] = Append(@, 0)] /\ Goto(w, "record")
     \/ UNCHANGED failed /\ (Goto(w, "create") \/ Finish(w))
  /\ UNCHANGED <<limiterVars, authVars, ended>>

(* Last part: the failure is recorded, or the session created; without      *)
(* entropy the goroutine panics and net/http ends its connection.           *)
LoginEnds(w) ==
  /\ \/ worker[w].pc = "record" /\ recordFailedLogin(worker[w].ip)
     \/ worker[w].pc = "create" /\ (createSession \/ UNCHANGED authVars)
  /\ Finish(w)
  /\ UNCHANGED <<limiterVars, failed, ended>>

(* Mutant of handleLogout: only the cookie of the browser is cleared. *)
handleLogoutCookie(w) ==
  /\ worker[w].pc = "logout"
  /\ ended' = ended \cup ({worker[w].cookie} \ {NoToken})
  /\ Finish(w)
  /\ UNCHANGED <<limiterVars, authVars, failed>>

handleLogout(w) ==
  /\ worker[w].pc = "logout"
  /\ IF worker[w].cookie = NoToken THEN UNCHANGED authVars ELSE deleteSession(worker[w].cookie)
  /\ ended' = ended \cup ({worker[w].cookie} \ {NoToken})
  /\ Finish(w)
  /\ UNCHANGED <<limiterVars, failed>>

(* The dashboard asks whether it is logged in. *)
handleStatus(w) ==
  /\ worker[w].pc = "status"
  /\ IF devMode THEN UNCHANGED authVars ELSE \E ok \in BOOLEAN : CookieIsValid(w, ok)
  /\ Finish(w)
  /\ UNCHANGED <<limiterVars, failed, ended>>

Step(w) ==
  \/ RequireAPIAuth(w) \/ Handled(w)
  \/ LoginAllowed(w) \/ LoginChecked(w) \/ LoginEnds(w)
  \/ handleLogout(w) \/ handleStatus(w)

cleanupLoop ==
  /\ CleanSessions \/ CleanAttempts
  /\ UNCHANGED <<limiterVars, worker, failed, ended>>

Tick ==
  /\ LimiterTick
  /\ AuthTick
  /\ failed' = [ip \in Ips |->
       LET last == Younger(failed[ip], Minute - 1) IN
       [i \in DOMAIN last |-> last[i] + 1]]
  /\ UNCHANGED <<worker, ended>>

(* A request of any client. *)
Arrive(w) ==
  \E ip \in Ips, r \in Requests : rateLimitMiddleware(w, ip, r)

RestNext ==
  \/ \E w \in Workers : Arrive(w) \/ Step(w)
  \/ cleanupLoop
  \/ Tick

RestSpec == RestInit /\ [][RestNext]_restVars

(* The ticker of cleanupLoop fires and time passes.  Nothing is assumed of  *)
(* the clients, nor of the goroutines that serve them.                      *)
RestFairSpec ==
  /\ RestSpec
  /\ WF_restVars(cleanupLoop)
  /\ WF_restVars(Tick)
-----------------------------------------------------------------------------
(* A protected handler is reached with the API key or with a session that   *)
(* was valid when the request arrived: no request sent after a logout or    *)
(* after the expiry is served, whatever runs at the same time.              *)
ServedIsAuthorised ==
  [][\A w \in Workers :
       worker[w].pc = "auth" /\ worker'[w].pc = "handler" /\ ~devMode
         => worker[w].bearer \/ worker[w].live]_restVars

(* The count is read, the key compared and the failure recorded under       *)
(* separate locks, so that logins that run at the same time can exceed the  *)
(* limit, but only by their number: in a minute an address has fewer than   *)
(* maxLoginPerMin wrong keys looked at beyond those.                        *)
FailuresBounded ==
  \A ip \in Ips : Len(failed[ip]) < maxLoginPerMin + Cardinality(Workers)
=============================================================================
