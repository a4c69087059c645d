------------------------------ MODULE DashAuth ------------------------------
(***************************************************************************)
(* Package dashauth: the sessions of the dashboard, the throttling of      *)
(* failed logins, and the loop that cleans both up.  Times are kept as     *)
(* ages in ticks.  The goroutine that calls these operations is in         *)
(* RestFront.                                                              *)
(***************************************************************************)
EXTENDS RestClients

CONSTANTS
  Tokens,           \* the random tokens that sessions get, each used once
  maxLoginPerMin,   \* failed logins after which an address is locked out
  Minute,           \* ticks for which a failed login counts
  sessionDuration,  \* ticks for which a session is valid
  MaxLag            \* bounds the ticks that one round of cleanupLoop takes

ASSUME AuthAssumption ==
  /\ maxLoginPerMin \in Nat
  /\ Minute \in Nat \ {0}
  /\ sessionDuration \in Nat
  /\ MaxLag \in Nat

VARIABLES
  devMode,        \* authentication is off
  sessions,       \* per token: free (not drawn yet), stored or deleted
  loginAttempts,  \* per address: the failed logins, oldest first
  cleaner         \* cleanupLoop, and the ticks since it took the time

authVars == <<devMode, sessions, loginAttempts, cleaner>>

Session == [state : {"free", "stored", "deleted"}, age : 0..(sessionDuration + 1)]

AuthTypeOK ==
  /\ devMode \in BOOLEAN
  /\ sessions \in [Tokens -> Session]
  /\ loginAttempts \in [Ips -> Seq(0..(Minute + MaxLag))]
  /\ cleaner \in [pc : {"off", "waiting", "attempts"}, lag : 0..MaxLag]

(* New starts cleanupLoop and NewDevMode does not. *)
AuthInit ==
  /\ devMode \in BOOLEAN
  /\ sessions = [t \in Tokens |-> [state |-> "free", age |-> 0]]
  /\ loginAttempts = [ip \in Ips |-> <<>>]
  /\ cleaner = [pc |-> IF devMode THEN "off" ELSE "waiting", lag |-> 0]

Deleted == [state |-> "deleted", age |-> 0]

Expired(s) == s.age > sessionDuration

(* Mutant of Recent: the cutoff lies too far back. *)
RecentLonger(attempts, lag) == Younger(attempts, Minute + MaxLag + lag + 1)

(* The attempts of the last minute, as seen lag ticks ago. *)
Recent(attempts, lag) == Younger(attempts, Minute + lag)
-----------------------------------------------------------------------------
(* validSession(t) with its answer; it removes a session that has expired. *)
validSession(t, ok) ==
  /\ ok = (sessions[t].state = "stored" /\ ~Expired(sessions[t]))
  /\ sessions' = [sessions EXCEPT ![t] = IF @.state = "stored" /\ ~ok THEN Deleted ELSE @]
  /\ UNCHANGED <<devMode, loginAttempts, cleaner>>

(* A new session.  Without entropy createSession panics instead. *)
createSession ==
  /\ \E t \in Tokens :
       /\ sessions[t].state = "free"
       /\ sessions' = [sessions EXCEPT ![t].state = "stored"]
  /\ UNCHANGED <<devMode, loginAttempts, cleaner>>

(* handleLogout: the session is forgotten, not only the cookie cleared. *)
deleteSession(t) ==
  /\ sessions' = [sessions EXCEPT ![t] = IF @.state = "stored" THEN Deleted ELSE @]
  /\ UNCHANGED <<devMode, loginAttempts, cleaner>>

(* allowLogin(ip) with its answer. *)
allowLogin(ip, ok) ==
  LET recent == Recent(loginAttempts[ip], 0) IN
  /\ ok = (Len(recent) < maxLoginPerMin)
  /\ loginAttempts' = [loginAttempts EXCEPT ![ip] = recent]
  /\ UNCHANGED <<devMode, sessions, cleaner>>

recordFailedLogin(ip) ==
  /\ loginAttempts' = [loginAttempts EXCEPT ![ip] = Append(@, 0)]
  /\ UNCHANGED <<devMode, sessions, cleaner>>

(* Mutant of CleanSessions: the test of the expiry is the wrong way round. *)
CleanSessionsInverted ==
  /\ cleaner.pc = "waiting"
  /\ sessions' = [t \in Tokens |->
       IF sessions[t].state = "stored" /\ ~Expired(sessions[t]) THEN Deleted ELSE sessions[t]]
  /\ cleaner' = [pc |-> "attempts", lag |-> 0]
  /\ UNCHANGED <<devMode, loginAttempts>>

(* The ticker of cleanupLoop fires: it takes the time and drops what has    *)
(* expired by then.                                                         *)
CleanSessions ==
  /\ cleaner.pc = "waiting"
  /\ sessions' = [t \in Tokens |->
       IF sessions[t].state = "stored" /\ Expired(sessions[t]) THEN Deleted ELSE sessions[t]]
  /\ cleaner' = [pc |-> "attempts", lag |-> 0]
  /\ UNCHANGED <<devMode, loginAttempts>>

(* Mutant of CleanAttempts: all attempts are dropped. *)
CleanAttemptsAll ==
  /\ cleaner.pc = "attempts"
  /\ loginAttempts' = [ip \in Ips |-> <<>>]
  /\ cleaner' = [pc |-> "waiting", lag |-> 0]
  /\ UNCHANGED <<devMode, sessions>>

(* Under the lock, with the time taken before it, the old attempts go. *)
CleanAttempts ==
  /\ cleaner.pc = "attempts"
  /\ loginAttempts' = [ip \in Ips |-> Recent(loginAttempts[ip], cleaner.lag)]
  /\ cleaner' = [pc |-> "waiting", lag |-> 0]
  /\ UNCHANGED <<devMode, sessions>>

AuthTick ==
  /\ cleaner.pc = "attempts" => cleaner.lag < MaxLag
  /\ sessions' = [t \in Tokens |-> [sessions[t] EXCEPT
       !.age = IF sessions[t].state = "stored" THEN Older(@, sessionDuration + 1) ELSE @]]
  /\ loginAttempts' = [ip \in Ips |->
       [i \in DOMAIN loginAttempts[ip] |-> Older(loginAttempts[ip][i], Minute + MaxLag)]]
  /\ cleaner' = [cleaner EXCEPT !.lag = IF cleaner.pc = "attempts" THEN @ + 1 ELSE @]
  /\ UNCHANGED devMode
-----------------------------------------------------------------------------
(* An address that is locked out gets out of it, even if it keeps trying:   *)
(* only logins that were let through add to its attempts.                   *)
LockoutEnds ==
  \A ip \in Ips :
    Len(Recent(loginAttempts[ip], 0)) >= maxLoginPerMin
      ~> Len(Recent(loginAttempts[ip], 0)) < maxLoginPerMin

(* A session that has expired is removed, whether or not a request ever     *)
(* carries its token again: the map of sessions does not grow for ever.     *)
ExpiredIsCollected ==
  \A t \in Tokens :
    sessions[t].state = "stored" /\ Expired(sessions[t]) ~> sessions[t].state = "deleted"
=============================================================================
