--------------------------- MODULE RestFrontProofs ---------------------------
(***************************************************************************)
(* The rate limiter and the sessions of the REST server are correct for    *)
(* every bucket size, rate, session length and number of addresses, tokens *)
(* and goroutines.                                                         *)
(***************************************************************************)
EXTENDS RestFront, TLAPS

(* Why the limiter is never too generous: the ticks that a bucket stands    *)
(* for are covered by the exact one, unless the exact one is full.          *)
Covered(ip) ==
  IF ip \in visitors
    THEN TicksPerToken * bucket[ip].tokens + bucket[ip].idle <= credit[ip] \/ credit[ip] = Full
    ELSE credit[ip] = Full

LimiterInv ==
  /\ visitors \subseteq Ips
  /\ bucket \in [Ips -> [tokens : 0..Burst, idle : 0..Full]]
  /\ credit \in [Ips -> 0..Full]
  /\ \A ip \in Ips : Covered(ip)

(* Rounding down: the whole tokens of an idle time are worth no more. *)
LEMMA DivisionRoundsDown ==
  ASSUME NEW d \in Nat \ {0}, NEW i \in Nat
  PROVE  /\ i \div d \in Nat
         /\ d * (i \div d) <= i
         /\ i >= d => i \div d >= 1
  OBVIOUS

(* A product grows with its second factor. *)
LEMMA ProductMonotone ==
  ASSUME NEW d \in Nat, NEW m \in Int, NEW n \in Int, m <= n
  PROVE  d * m <= d * n
  OBVIOUS

(* A full bucket holds something. *)
LEMMA FullIsNat == Full \in Nat /\ Full > 0
  BY LimiterAssumption DEF Full

(* A request takes a token only if the exact bucket has one as well. *)
LEMMA RefillIsCovered ==
  ASSUME LimiterInv, NEW ip \in Ips
  PROVE  /\ Available(ip) \in 0..Burst
         /\ TicksPerToken * Available(ip) <= credit[ip]
  <1> DEFINE T == TicksPerToken
             b == bucket[ip]
             q == b.idle \div T
  <1>1. /\ T \in Nat \ {0} /\ Burst \in Nat \ {0} /\ Full = Burst * T
        /\ b.tokens \in 0..Burst /\ b.idle \in Nat /\ credit[ip] \in 0..Full
    BY LimiterAssumption, FullIsNat DEF Full, LimiterInv
  <1>2. q \in Nat /\ T * q <= b.idle
    BY <1>1, DivisionRoundsDown
  <1>3. T * Burst = Full
    BY <1>1
  <1>4. CASE ip \notin visitors
    BY <1>1, <1>3, <1>4 DEF Available, LimiterInv, Covered
  <1>5. CASE ip \in visitors
    <2>1. Available(ip) = IF b.tokens + q > Burst THEN Burst ELSE b.tokens + q
      BY <1>5 DEF Available, Refilled, AtMost
    <2>2. Available(ip) \in 0..Burst /\ Available(ip) <= b.tokens + q
      <3> HIDE DEF q, b, T
      <3> QED BY <2>1, <1>1, <1>2
    <2>3. CASE credit[ip] = Full
      BY <2>2, <2>3, <1>1, <1>3, ProductMonotone
    <2>4. CASE T * b.tokens + b.idle <= credit[ip]
      <3>1. T * Available(ip) <= T * (b.tokens + q)
        BY <2>2, <1>1, <1>2, ProductMonotone
      <3>2. T * (b.tokens + q) = T * b.tokens + T * q
        <4> HIDE DEF q, b, T
        <4> QED BY <1>1, <1>2
      <3>3. T * b.tokens \in Nat /\ T * Available(ip) \in Nat
        <4> HIDE DEF q, b, T
        <4> QED BY <1>1, <2>2
      <3>4. T * Available(ip) <= credit[ip]
        <4> HIDE DEF q, b, T
        <4> QED BY <2>4, <3>1, <3>2, <3>3, <1>1, <1>2
      <3> QED BY <2>2, <3>4
    <2> QED BY <2>3, <2>4, <1>5 DEF LimiterInv, Covered
  <1> QED BY <1>4, <1>5

(* allow(ip) keeps the bucket covered, whether it lets the request through  *)
(* or not.                                                                  *)
LEMMA AllowKeepsLimiterInv ==
  ASSUME LimiterInv, NEW ip \in Ips, NEW ok \in BOOLEAN, allow(ip, ok)
  PROVE  LimiterInv'
  <1> DEFINE left == IF ok THEN Available(ip) - 1 ELSE Available(ip)
             rest == IF ok THEN credit[ip] - TicksPerToken ELSE credit[ip]
  <1>1. /\ TicksPerToken \in Nat \ {0} /\ Burst \in Nat \ {0} /\ Full \in Nat
        /\ credit[ip] \in 0..Full
    BY LimiterAssumption, FullIsNat DEF LimiterInv
  <1>2. Available(ip) \in 0..Burst /\ TicksPerToken * Available(ip) <= credit[ip]
    BY RefillIsCovered
  <1>3. left \in 0..Burst /\ rest \in 0..Full /\ TicksPerToken * left <= rest
    <2>1. CASE ok
      <3>1. Available(ip) >= 1
        <4>1. Available(ip) > 0
          BY <2>1, Zenon DEF allow
        <4> QED BY <4>1, <1>2
      <3>2. TicksPerToken * (Available(ip) - 1) = TicksPerToken * Available(ip) - TicksPerToken
        BY <1>1, <1>2
      <3>3. TicksPerToken * (Available(ip) - 1) \in Nat
        BY <1>1, <1>2, <3>1
      <3> QED BY <2>1, <1>1, <1>2, <3>1, <3>2, <3>3
    <2>2. CASE ~ok
      BY <2>2, <1>1, <1>2
    <2> QED BY <2>1, <2>2
  <1>4. /\ visitors' = visitors \cup {ip}
        /\ bucket' = [bucket EXCEPT ![ip] = [tokens |-> left, idle |-> 0]]
        /\ credit' = [credit EXCEPT ![ip] = rest]
    BY DEF allow, LimiterInv
  <1> HIDE DEF left, rest
  <1>5. /\ visitors' \subseteq Ips
        /\ bucket' \in [Ips -> [tokens : 0..Burst, idle : 0..Full]]
        /\ credit' \in [Ips -> 0..Full]
    BY <1>1, <1>3, <1>4 DEF LimiterInv
  <1>6. Covered(ip)'
    <2>1. bucket'[ip].tokens = left /\ bucket'[ip].idle = 0 /\ credit'[ip] = rest /\ ip \in visitors'
      BY <1>4 DEF LimiterInv
    <2>2. TicksPerToken * left \in Int
      BY <1>1, <1>3
    <2> QED BY <2>1, <2>2, <1>3 DEF Covered
  <1>7. ASSUME NEW other \in Ips, other # ip
        PROVE  Covered(other)'
    BY <1>4, <1>7 DEF LimiterInv, Covered, Full
  <1> QED BY <1>5, <1>6, <1>7 DEF LimiterInv

(* Both buckets age by one tick. *)
LEMMA TickKeepsLimiterInv ==
  ASSUME LimiterInv, LimiterTick
  PROVE  LimiterInv'
  <1>1. Full \in Nat /\ Full > 0 /\ TicksPerToken \in Nat
    BY FullIsNat, LimiterAssumption
  <1>2. /\ visitors' \subseteq Ips
        /\ bucket' \in [Ips -> [tokens : 0..Burst, idle : 0..Full]]
        /\ credit' \in [Ips -> 0..Full]
    BY <1>1 DEF LimiterInv, LimiterTick, Older
  <1>3. ASSUME NEW ip \in Ips
        PROVE  Covered(ip)'
    <2> DEFINE b == bucket[ip]
    <2>1. /\ b.tokens \in 0..Burst /\ b.idle \in 0..Full /\ credit[ip] \in 0..Full
          /\ Covered(ip) /\ Burst \in Nat
      BY LimiterAssumption DEF LimiterInv
    <2>2. /\ bucket'[ip].tokens = b.tokens
          /\ bucket'[ip].idle = IF ip \in visitors THEN Older(b.idle, Full) ELSE b.idle
          /\ credit'[ip] = Older(credit[ip], Full)
          /\ visitors' = visitors /\ Full' = Full
      BY DEF LimiterInv, LimiterTick, Full
    <2>3. TicksPerToken * b.tokens \in Nat
      BY <1>1, <2>1
    <2> HIDE DEF b
    <2>4. CASE ip \in visitors
      BY <2>1, <2>2, <2>3, <2>4, <1>1 DEF Covered, Older, b
    <2>5. CASE ip \notin visitors
      BY <2>1, <2>2, <2>5, <1>1 DEF Covered, Older
    <2> QED BY <2>4, <2>5
  <1> QED BY <1>2, <1>3 DEF LimiterInv

(* Every step of the server is a call of allow, a tick, or leaves the       *)
(* limiter alone.                                                           *)
LEMMA LimiterStep ==
  ASSUME LimiterInv, [RestNext]_restVars
  PROVE  LimiterInv'
  <1>1. CASE UNCHANGED limiterVars
    BY <1>1 DEF LimiterInv, Covered, limiterVars, Full
  <1>2. ASSUME NEW ip \in Ips, NEW ok \in BOOLEAN, allow(ip, ok)
        PROVE  LimiterInv'
    BY <1>2, AllowKeepsLimiterInv
  <1>3. CASE LimiterTick
    BY <1>3, TickKeepsLimiterInv
  <1> QED
    BY <1>1, <1>2, <1>3
    DEF RestNext, restVars, Arrive, rateLimitMiddleware, Step, RequireAPIAuth, Handled,
        LoginAllowed, LoginChecked, LoginEnds, handleLogout, handleStatus, cleanupLoop, Tick

(* The buckets are covered in every state of the server. *)
LEMMA LimiterInvariant == RestSpec => []LimiterInv
  <1>1. RestInit => LimiterInv
    BY FullIsNat, LimiterAssumption DEF RestInit, LimiterInit, LimiterInv, Covered
  <1>2. LimiterInv /\ [RestNext]_restVars => LimiterInv'
    BY LimiterStep
  <1> QED BY <1>1, <1>2, PTL DEF RestSpec

(* The token bucket of the REST API never lets more requests of an address  *)
(* through than an exact bucket of its size and rate would, for every size  *)
(* and rate.                                                                *)
THEOREM RateIsKept == RestSpec => []WithinRate
  <1>1. ASSUME LimiterInv, NEW ip \in Ips
        PROVE  credit[ip] >= 0
    <2>1. credit[ip] \in 0..Full
      BY <1>1 DEF LimiterInv
    <2> QED BY <2>1, FullIsNat
  <1>2. LimiterInv => WithinRate
    BY <1>1 DEF WithinRate
  <1> QED BY <1>2, LimiterInvariant, PTL

(* An address that was silent for RetryAfter ticks finds a token. *)
LEMMA SilenceEarnsAToken ==
  ASSUME LimiterInv, NEW ip \in visitors, bucket[ip].idle >= RetryAfter
  PROVE  Available(ip) > 0
  <1>1. /\ ip \in Ips /\ TicksPerToken \in Nat \ {0} /\ Burst \in Nat \ {0}
        /\ RetryAfter \in Int /\ RetryAfter >= TicksPerToken
        /\ bucket[ip].tokens \in Nat /\ bucket[ip].idle \in Nat
    BY LimiterAssumption, FullIsNat DEF LimiterInv
  <1>2. bucket[ip].idle \div TicksPerToken \in Nat /\ bucket[ip].idle \div TicksPerToken >= 1
    BY <1>1, DivisionRoundsDown
  <1>3. Available(ip) = AtMost(bucket[ip].tokens + bucket[ip].idle \div TicksPerToken, Burst)
    BY DEF Available, Refilled
  <1> QED BY <1>1, <1>2, <1>3 DEF AtMost

(* A client that waits as Retry-After tells it is let through by allow, for *)
(* every bucket size and rate, as long as Retry-After covers one token.     *)
THEOREM WaitingHelps == RestSpec => RetryAfterIsEnough
  <1> DEFINE A(ip) == bucket[ip].idle >= RetryAfter /\ bucket'[ip].idle = 0
                        => credit'[ip] < credit[ip]
  <1>1. ASSUME LimiterInv, [RestNext]_restVars, NEW ip \in visitors
        PROVE  A(ip)
    <2>1. /\ ip \in Ips /\ Full \in Nat /\ Full > 0 /\ TicksPerToken \in Nat \ {0}
          /\ RetryAfter \in Nat /\ RetryAfter > 0
          /\ bucket[ip].idle \in 0..Full /\ credit[ip] \in 0..Full
      BY <1>1, FullIsNat, LimiterAssumption DEF LimiterInv
    <2>2. CASE UNCHANGED limiterVars
      BY <2>1, <2>2 DEF limiterVars
    <2>3. CASE LimiterTick
      <3>1. bucket'[ip].idle = Older(bucket[ip].idle, Full)
        BY <1>1, <2>1, <2>3 DEF LimiterTick, LimiterInv
      <3> QED BY <2>1, <3>1 DEF Older
    <2>4. ASSUME NEW a \in Ips, NEW ok \in BOOLEAN, allow(a, ok)
          PROVE  A(ip)
      <3>1. CASE a # ip
        <4>1. bucket'[ip] = bucket[ip]
          BY <1>1, <2>1, <2>4, <3>1 DEF allow, LimiterInv
        <4> QED BY <2>1, <4>1
      <3>2. CASE a = ip
        <4> SUFFICES ASSUME bucket[ip].idle >= RetryAfter
                     PROVE  credit'[ip] < credit[ip]
          OBVIOUS
        <4>1. Available(ip) > 0
          BY SilenceEarnsAToken, <1>1
        <4>2. ok
          BY <4>1, <2>4, <3>2, Zenon DEF allow
        <4>3. credit'[ip] = credit[ip] - TicksPerToken
          BY <1>1, <4>2, <2>1, <2>4, <3>2 DEF allow, LimiterInv
        <4> QED BY <4>3, <2>1
      <3> QED BY <3>1, <3>2
    <2> HIDE DEF A
    <2> QED
      BY <1>1, <2>2, <2>3, <2>4
      DEF RestNext, restVars, Arrive, rateLimitMiddleware, Step, RequireAPIAuth, Handled,
          LoginAllowed, LoginChecked, LoginEnds, handleLogout, handleStatus, cleanupLoop, Tick
  <1>2. LimiterInv /\ [RestNext]_restVars
          => [\A ip \in visitors : A(ip)]_limiterVars
    BY <1>1
  <1> QED BY <1>2, LimiterInvariant, PTL DEF RestSpec, RetryAfterIsEnough
-----------------------------------------------------------------------------
(* A session that requests can use. *)
Valid(t) == sessions[t].state = "stored" /\ ~Expired(sessions[t])

(* What a step may do to a session: a token is drawn once, and a session    *)
(* that was deleted or has expired never becomes valid again.               *)
Kept(t) ==
  /\ sessions[t].state # "free" => sessions'[t].state # "free"
  /\ sessions[t].state = "deleted" => sessions'[t].state = "deleted"
  /\ sessions[t].state # "free" /\ ~Valid(t) => ~Valid(t)'

SessionInv ==
  /\ sessions \in [Tokens -> Session]
  /\ worker \in [Workers -> Request]
  /\ ended \subseteq Tokens
  /\ \A t \in ended : sessions[t].state = "deleted"
  /\ \A w \in Workers : worker[w].cookie # NoToken =>
       /\ sessions[worker[w].cookie].state # "free"
       /\ worker[w].live \/ ~Valid(worker[w].cookie)

(* No operation of dashauth brings a session back. *)
LEMMA SessionsOnlyEnd ==
  ASSUME sessions \in [Tokens -> Session], worker \in [Workers -> Request],
         [RestNext]_restVars
  PROVE  sessions' \in [Tokens -> Session] /\ \A t \in Tokens : Kept(t)
  <1>1. sessionDuration \in Nat /\ Deleted \in Session
    BY AuthAssumption DEF Deleted, Session
  <1>2. CASE UNCHANGED sessions
    BY <1>2 DEF Kept, Valid, Expired
  <1>3. ASSUME NEW t \in Tokens, NEW ok \in BOOLEAN, validSession(t, ok)
        PROVE  sessions' \in [Tokens -> Session] /\ \A u \in Tokens : Kept(u)
    BY <1>1, <1>3 DEF validSession, Kept, Valid, Expired, Deleted
  <1>4. CASE createSession
    <2>1. PICK t \in Tokens :
            /\ sessions[t].state = "free"
            /\ sessions' = [sessions EXCEPT ![t].state = "stored"]
      BY <1>4 DEF createSession
    <2> QED BY <2>1 DEF Session, Kept, Valid, Expired
  <1>5. ASSUME NEW t \in Tokens, deleteSession(t)
        PROVE  sessions' \in [Tokens -> Session] /\ \A u \in Tokens : Kept(u)
    BY <1>1, <1>5 DEF deleteSession, Kept, Valid, Expired, Deleted
  <1>6. CASE CleanSessions
    BY <1>1, <1>6 DEF CleanSessions, Kept, Valid, Expired, Deleted
  <1>7. CASE AuthTick
    <2>1. ASSUME NEW t \in Tokens
          PROVE  sessions'[t] \in Session /\ Kept(t)
      <3>1. sessions'[t] = [sessions[t] EXCEPT
              !.age = IF sessions[t].state = "stored" THEN Older(@, sessionDuration + 1) ELSE @]
        BY <1>7 DEF AuthTick
      <3>2. sessions[t] \in Session
        OBVIOUS
      <3> QED BY <3>1, <3>2, <1>1 DEF Session, Kept, Valid, Expired, Older
    <2>2. sessions' \in [Tokens -> Session]
      BY <2>1, <1>7 DEF AuthTick
    <2> QED BY <2>1, <2>2
  <1>8. ASSUME NEW w \in Workers, Arrive(w) \/ Step(w)
        PROVE  \/ UNCHANGED sessions \/ createSession
               \/ \E t \in Tokens : deleteSession(t) \/ \E ok \in BOOLEAN : validSession(t, ok)
    <2>1. worker[w].cookie # NoToken => worker[w].cookie \in Tokens
      BY DEF Request
    <2> QED BY <1>8, <2>1
    DEF Arrive, rateLimitMiddleware, Step, RequireAPIAuth, Handled, LoginAllowed, LoginChecked,
        LoginEnds, handleLogout, handleStatus, CookieIsValid, allowLogin, recordFailedLogin, authVars
  <1> QED BY <1>2, <1>3, <1>4, <1>5, <1>6, <1>7, <1>8
    DEF RestNext, restVars, authVars, cleanupLoop, CleanAttempts, Tick

(* Requests keep to the sessions that they arrived with. *)
LEMMA SessionStep ==
  ASSUME SessionInv, [RestNext]_restVars
  PROVE  SessionInv'
  <1> DEFINE Fine(w) ==
        worker[w].cookie # NoToken =>
          /\ sessions[worker[w].cookie].state # "free"
          /\ worker[w].live \/ ~Valid(worker[w].cookie)
  <1>1. sessions' \in [Tokens -> Session] /\ \A t \in Tokens : Kept(t)
    BY SessionsOnlyEnd DEF SessionInv
  <1>2. ASSUME NEW w \in Workers, worker'[w] = worker[w]
        PROVE  Fine(w)'
    <2>1. worker[w].cookie \in Tokens \cup {NoToken} /\ Fine(w)
      BY DEF SessionInv, Request
    <2>2. CASE worker[w].cookie = NoToken
      BY <1>2, <2>2
    <2>3. CASE worker[w].cookie # NoToken
      <3>1. PICK t \in Tokens : t = worker[w].cookie
        BY <2>1, <2>3
      <3>2. Kept(t) /\ sessions[t].state # "free" /\ (worker[w].live \/ ~Valid(t))
        BY <1>1, <2>1, <2>3, <3>1
      <3>3. sessions'[t].state # "free" /\ (worker[w].live \/ ~Valid(t)')
        BY <3>2 DEF Kept
      <3> QED BY <1>2, <3>1, <3>3 DEF Valid
    <2> QED BY <2>2, <2>3
  <1>3. CASE UNCHANGED <<worker, ended>>
    BY <1>1, <1>2, <1>3 DEF SessionInv, Kept
  <1>4. ASSUME NEW w \in Workers, Arrive(w) \/ Step(w)
        PROVE  SessionInv'
    <2>1. CASE UNCHANGED <<worker, ended>>
      BY <1>3, <2>1
    <2>2. ASSUME NEW pc \in {"idle", "handler"}, Forget(w, pc),
                 ended' \subseteq Tokens, \A t \in ended' : sessions'[t].state = "deleted"
          PROVE  SessionInv'
      <3>1. worker' \in [Workers -> Request] /\ worker'[w].cookie = NoToken
        BY <2>2 DEF Forget, SessionInv, Request
      <3>2. \A v \in Workers : v # w => worker'[v] = worker[v]
        BY <2>2 DEF Forget, SessionInv
      <3> QED BY <1>1, <1>2, <2>2, <3>1, <3>2 DEF SessionInv
    <2>3. ASSUME NEW pc \in {"compare", "record", "create"}, Goto(w, pc), UNCHANGED <<sessions, ended>>
          PROVE  SessionInv'
      <3>1. worker' \in [Workers -> Request]
        BY <2>3 DEF Goto, SessionInv, Request
      <3>2. \A v \in Workers : v # w => worker'[v] = worker[v]
        BY <2>3 DEF Goto, SessionInv
      <3>3. worker'[w].cookie = worker[w].cookie /\ worker'[w].live = worker[w].live
        BY <2>3 DEF Goto, SessionInv, Request
      <3>4. Fine(w)'
        BY <2>3, <3>3 DEF SessionInv, Valid, Expired
      <3> QED BY <1>1, <1>2, <2>3, <3>1, <3>2, <3>4 DEF SessionInv
    <2>4. \A t \in ended : sessions'[t].state = "deleted"
      BY <1>1 DEF SessionInv, Kept
    <2>5. CASE Arrive(w)
      <3>1. PICK ip \in Ips, r \in Requests : rateLimitMiddleware(w, ip, r)
        BY <2>5 DEF Arrive
      <3>2. UNCHANGED <<sessions, ended>>
        BY <3>1 DEF rateLimitMiddleware, authVars
      <3>3. CASE UNCHANGED worker
        BY <2>1, <3>2, <3>3
      <3>4. CASE worker' # worker
        <4> DEFINE new == [pc |-> r.route, ip |-> ip, bearer |-> r.bearer, cookie |-> r.cookie,
                           live |-> r.cookie \in Tokens \ ended /\ Valid(r.cookie)]
        <4>1. worker' = [worker EXCEPT ![w] = new] /\ r.route # "public"
          BY <3>1, <3>4 DEF rateLimitMiddleware, Valid
        <4>2. /\ r.route \in {"auth", "login", "logout", "status"} /\ r.bearer \in BOOLEAN
              /\ r.cookie \in Tokens \cup {NoToken}
              /\ r.cookie # NoToken => sessions[r.cookie].state # "free"
          BY <4>1 DEF Requests, Cookies
        <4>3. new.live \in BOOLEAN
          BY Zenon
        <4>4. worker' \in [Workers -> Request] /\ worker'[w] = new
          <5> HIDE DEF Valid
          <5>1. new \in Request
            BY <4>2, <4>3 DEF Request
          <5> HIDE DEF new
          <5> QED BY <4>1, <5>1 DEF SessionInv
        <4>5. r.cookie # NoToken => new.live \/ ~Valid(r.cookie)
          BY <4>2 DEF SessionInv, Valid
        <4>6. Fine(w)'
          <5>1. worker'[w].cookie = r.cookie /\ worker'[w].live = new.live
            BY <4>4
          <5> HIDE DEF new
          <5> QED BY <4>2, <4>5, <5>1, <3>2 DEF Valid, Expired
        <4>7. \A v \in Workers : v # w => worker'[v] = worker[v]
          BY <4>1 DEF SessionInv
        <4> HIDE DEF new
        <4> QED BY <1>1, <1>2, <2>4, <3>2, <4>4, <4>6, <4>7 DEF SessionInv
      <3> QED BY <3>3, <3>4
    <2>6. CASE handleLogout(w)
      <3>1. worker[w].cookie # NoToken
              => worker[w].cookie \in Tokens /\ sessions'[worker[w].cookie].state = "deleted"
        BY <2>6 DEF handleLogout, deleteSession, SessionInv, Session, Request, Deleted
      <3>2. ended' = ended \cup ({worker[w].cookie} \ {NoToken}) /\ Forget(w, "idle")
        BY <2>6 DEF handleLogout, Finish
      <3>3. ended' \subseteq Tokens /\ \A t \in ended' : sessions'[t].state = "deleted"
        BY <2>4, <3>1, <3>2 DEF SessionInv
      <3> QED BY <2>2, <3>2, <3>3
    <2>7. CASE Step(w) /\ ~handleLogout(w)
      <3>1. UNCHANGED ended
        BY <2>7 DEF Step, RequireAPIAuth, Handled, LoginAllowed, LoginChecked, LoginEnds, handleStatus
      <3>2. \/ Forget(w, "idle") \/ Forget(w, "handler")
            \/ /\ Goto(w, "compare") \/ Goto(w, "record") \/ Goto(w, "create")
               /\ UNCHANGED sessions
        BY <2>7
        DEF Step, RequireAPIAuth, Handled, LoginAllowed, LoginChecked, LoginEnds, handleStatus,
            Finish, allowLogin, authVars
      <3>3. ended' \subseteq Tokens /\ \A t \in ended' : sessions'[t].state = "deleted"
        BY <2>4, <3>1 DEF SessionInv
      <3> QED BY <2>2, <2>3, <3>1, <3>2, <3>3
    <2> QED BY <1>4, <2>5, <2>6, <2>7
  <1> QED BY <1>3, <1>4 DEF RestNext, restVars, cleanupLoop, Tick

(* Sessions and requests are so in every state of the server. *)
LEMMA SessionInvariant == RestSpec => []SessionInv
  <1>1. ASSUME RestInit
        PROVE  SessionInv
    <2>1. PICK ip \in Ips : worker = [w \in Workers |->
            [pc |-> "idle", ip |-> ip, bearer |-> FALSE, cookie |-> NoToken, live |-> FALSE]]
      BY <1>1 DEF RestInit
    <2>2. worker \in [Workers -> Request] /\ \A w \in Workers : worker[w].cookie = NoToken
      BY <2>1 DEF Request
    <2>3. sessions \in [Tokens -> Session]
      BY <1>1, AuthAssumption DEF RestInit, AuthInit, Session
    <2> QED BY <1>1, <2>2, <2>3 DEF RestInit, SessionInv
  <1>2. SessionInv /\ [RestNext]_restVars => SessionInv'
    BY SessionStep
  <1> QED BY <1>1, <1>2, PTL DEF RestSpec

(* RequireAPIAuth lets a request through to a handler only with the API key *)
(* or with a session that was valid when the request arrived, for any       *)
(* number of requests, sessions, logouts and rounds of the cleanup at the   *)
(* same time.                                                               *)
THEOREM OnlyAuthorisedAreServed == RestSpec => ServedIsAuthorised
  <1> DEFINE A(w) == worker[w].pc = "auth" /\ worker'[w].pc = "handler" /\ ~devMode
                       => worker[w].bearer \/ worker[w].live
  <1>1. ASSUME SessionInv, RestNext, NEW w \in Workers,
               worker[w].pc = "auth", worker'[w].pc = "handler", ~devMode, ~worker[w].bearer
        PROVE  worker[w].live
    <2>1. worker' # worker
      BY <1>1
    <2>2. PICK v \in Workers : Arrive(v) \/ Step(v)
      BY <1>1, <2>1 DEF RestNext, cleanupLoop, Tick
    <2>3. \A u \in Workers : u # v => worker'[u] = worker[u]
      BY <2>2, <1>1
      DEF SessionInv, Arrive, rateLimitMiddleware, Step, RequireAPIAuth, Handled, LoginAllowed,
          LoginChecked, LoginEnds, handleLogout, handleStatus, Finish, Forget, Goto
    <2>4. v = w
      BY <2>3, <1>1
    <2>5. RequireAPIAuth(w)
      BY <2>2, <2>4, <1>1
      DEF Arrive, rateLimitMiddleware, Step, Handled, LoginAllowed, LoginChecked, LoginEnds,
          handleLogout, handleStatus
    <2>6. ~Forget(w, "idle")
      BY <1>1 DEF Forget, SessionInv
    <2>7. \E ok \in BOOLEAN : CookieIsValid(w, ok) /\ ok
      BY <2>5, <2>6, <1>1 DEF RequireAPIAuth, Finish
    <2>8. worker[w].cookie # NoToken /\ Valid(worker[w].cookie)
      BY <2>7, Zenon DEF CookieIsValid, validSession, Valid
    <2> QED BY <2>8, <1>1 DEF SessionInv
  <1>2. SessionInv /\ [RestNext]_restVars => [\A w \in Workers : A(w)]_restVars
    BY <1>1
  <1> QED BY <1>2, SessionInvariant, PTL DEF RestSpec, ServedIsAuthorised
=============================================================================
