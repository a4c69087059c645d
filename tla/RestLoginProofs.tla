--------------------------- MODULE RestLoginProofs ---------------------------
(***************************************************************************)
(* The limit on failed logins, and with it the types of the REST front,    *)
(* for every limit, every length of a minute and any number of addresses   *)
(* and goroutines.                                                         *)
(***************************************************************************)
EXTENDS RestFrontProofs, RestClientsProofs

(* How many requests of an address are at one of some places. *)
Waiting(ip, places) == Cardinality({w \in Workers : worker[w].ip = ip /\ worker[w].pc \in places})

(* What request r adds to that number. *)
Share(r, ip, places) == IF r.ip = ip /\ r.pc \in places THEN 1 ELSE 0

LoginTypes ==
  /\ worker \in [Workers -> Request]
  /\ loginAttempts \in [Ips -> Seq(0..(Minute + MaxLag))]
  /\ failed \in [Ips -> Seq(0..(Minute - 1))]
  /\ devMode \in BOOLEAN
  /\ cleaner \in [pc : {"off", "waiting", "attempts"}, lag : 0..MaxLag]

(* Every wrong key that was looked at is among the attempts, at least as    *)
(* young, or about to be recorded.                                          *)
WrongKeysAreKnown ==
  \A ip \in Ips, age \in 0..(Minute - 1) :
    Count(failed[ip], age) <= Count(loginAttempts[ip], age) + Waiting(ip, {"record"})

(* The attempts of the last minute and those on their way stay within what  *)
(* the last login that was let through found.                               *)
AttemptsAreLimited ==
  \A ip \in Ips :
    Count(loginAttempts[ip], Minute - 1) + Waiting(ip, {"compare", "record"})
      < maxLoginPerMin + Cardinality(Workers)

LoginInv == LoginTypes /\ WrongKeysAreKnown /\ AttemptsAreLimited

(* What the assumptions say about the constants. *)
LEMMA LoginConstants ==
  /\ Minute \in Nat /\ Minute > 0 /\ MaxLag \in Nat /\ maxLoginPerMin \in Nat
  /\ IsFiniteSet(Workers) /\ Cardinality(Workers) \in Nat /\ Cardinality(Workers) > 0
  /\ Minute - 1 \in 0..(Minute - 1)
  <1>1. IsFiniteSet(Workers) /\ Workers # {}
    BY RestAssumption
  <1>2. Cardinality(Workers) \in Nat /\ Cardinality(Workers) # 0
    BY <1>1, FS_CardinalityType, FS_EmptySet
  <1> QED BY <1>1, <1>2, AuthAssumption

(* The lists of ages can be counted. *)
LEMMA ListsOfAges ==
  ASSUME LoginTypes, NEW ip \in Ips
  PROVE  /\ loginAttempts[ip] \in Seq(Int) /\ failed[ip] \in Seq(Int)
         /\ \A age \in Int : Count(loginAttempts[ip], age) \in Nat /\ Count(failed[ip], age) \in Nat
  <1>1. loginAttempts[ip] \in Seq(0..(Minute + MaxLag)) /\ failed[ip] \in Seq(0..(Minute - 1))
    BY DEF LoginTypes
  <1>2. loginAttempts[ip] \in Seq(Int) /\ failed[ip] \in Seq(Int)
    BY <1>1, LoginConstants
  <1> QED BY <1>2, CountIsNat

(* No more requests wait than there are goroutines. *)
LEMMA WaitingIsBounded ==
  ASSUME NEW ip, NEW places
  PROVE  /\ Waiting(ip, places) \in Nat /\ Waiting(ip, places) <= Cardinality(Workers)
         /\ Waiting(ip, places)' \in Nat /\ Waiting(ip, places)' <= Cardinality(Workers)
  <1>1. ASSUME NEW W, W \subseteq Workers
        PROVE  Cardinality(W) \in Nat /\ Cardinality(W) <= Cardinality(Workers)
    <2>1. IsFiniteSet(W) /\ Cardinality(W) <= Cardinality(Workers)
      BY <1>1, LoginConstants, FS_Subset
    <2> QED BY <2>1, FS_CardinalityType
  <1> DEFINE W == {w \in Workers : worker[w].ip = ip /\ worker[w].pc \in places}
             V == {w \in Workers : worker'[w].ip = ip /\ worker'[w].pc \in places}
  <1>2. W \subseteq Workers /\ V \subseteq Workers
    OBVIOUS
  <1> HIDE DEF W, V
  <1>3. /\ Cardinality(W) \in Nat /\ Cardinality(W) <= Cardinality(Workers)
        /\ Cardinality(V) \in Nat /\ Cardinality(V) <= Cardinality(Workers)
    BY <1>1, <1>2
  <1> QED BY <1>3 DEF Waiting, W, V

(* When one goroutine goes on, the numbers change by its share. *)
LEMMA WaitingMoves ==
  ASSUME worker \in [Workers -> Request], NEW w \in Workers, NEW r,
         worker' = [worker EXCEPT ![w] = r], NEW ip, NEW places
  PROVE  Waiting(ip, places)'
           = Waiting(ip, places) + Share(r, ip, places) - Share(worker[w], ip, places)
  <1> DEFINE W == {v \in Workers : worker[v].ip = ip /\ worker[v].pc \in places}
             V == {v \in Workers : worker'[v].ip = ip /\ worker'[v].pc \in places}
             Others == W \ {w}
  <1>1. worker'[w] = r /\ \A v \in Workers : v # w => worker'[v] = worker[v]
    OBVIOUS
  <1>2. /\ W = IF Share(worker[w], ip, places) = 1 THEN Others \cup {w} ELSE Others
        /\ V = IF Share(r, ip, places) = 1 THEN Others \cup {w} ELSE Others
        /\ Others \subseteq Workers /\ w \notin Others
    BY <1>1 DEF Share
  <1>3. Share(r, ip, places) \in {0, 1} /\ Share(worker[w], ip, places) \in {0, 1}
    BY DEF Share
  <1>4. Waiting(ip, places) = Cardinality(W) /\ Waiting(ip, places)' = Cardinality(V)
    BY DEF Waiting
  <1> HIDE DEF W, V, Others
  <1>5. IsFiniteSet(Others) /\ Cardinality(Others) \in Nat
    BY <1>2, LoginConstants, FS_Subset, FS_CardinalityType
  <1>6. Cardinality(Others \cup {w}) = Cardinality(Others) + 1
    BY <1>2, <1>5, FS_AddElement
  <1> QED BY <1>2, <1>3, <1>4, <1>5, <1>6
-----------------------------------------------------------------------------
(* Dropping old attempts drops none of the last minute, also when the       *)
(* minute was taken some ticks ago.                                         *)
LEMMA RecentKeepsTheMinute ==
  ASSUME LoginTypes, NEW ip \in Ips, NEW lag \in 0..MaxLag
  PROVE  /\ Recent(loginAttempts[ip], lag) \in Seq(0..(Minute + MaxLag))
         /\ \A age \in 0..(Minute - 1) :
              Count(Recent(loginAttempts[ip], lag), age) = Count(loginAttempts[ip], age)
         /\ lag = 0 =>
              Count(loginAttempts[ip], Minute - 1) = Len(Recent(loginAttempts[ip], lag))
  <1> DEFINE Ages == 0..(Minute + MaxLag)
             Young == {a \in Ages : a < Minute + lag}
             recent == Recent(loginAttempts[ip], lag)
  <1>1. loginAttempts[ip] \in Seq(Ages) /\ Ages \subseteq Int /\ Minute + lag \in Int /\ lag \in Nat
    BY LoginConstants DEF LoginTypes
  <1>2. /\ recent \in Seq(Young)
        /\ \A age \in Int : age < Minute + lag => Count(recent, age) = Count(loginAttempts[ip], age)
    <2> HIDE DEF Ages
    <2> QED BY <1>1, YoungerIsFilter DEF Recent
  <1>3. recent \in Seq(Ages) /\ recent \in Seq(Int) /\ \A i \in DOMAIN recent : recent[i] \in Young
    <2> HIDE DEF recent
    <2>1. Young \subseteq Ages /\ Young \subseteq Int
      OBVIOUS
    <2> HIDE DEF Ages, Young
    <2>2. /\ recent = [i \in 1..Len(recent) |-> recent[i]] /\ Len(recent) \in Nat
          /\ \A i \in 1..Len(recent) : recent[i] \in Young
          /\ DOMAIN recent = 1..Len(recent)
      BY <1>2
    <2>3. recent \in Seq(Ages)
      BY <2>1, <2>2
    <2>4. recent \in Seq(Int)
      BY <2>1, <2>2
    <2> QED BY <2>2, <2>3, <2>4
  <1> HIDE DEF recent
  <1>4. \A age \in 0..(Minute - 1) : Count(recent, age) = Count(loginAttempts[ip], age)
    BY <1>1, <1>2, LoginConstants
  <1>5. ASSUME lag = 0
        PROVE  Count(loginAttempts[ip], Minute - 1) = Len(recent)
    <2>1. \A i \in DOMAIN recent : recent[i] <= Minute - 1
      BY <1>3, <1>5, LoginConstants
    <2>2. Count(recent, Minute - 1) = Len(recent)
      BY <1>3, <2>1, LoginConstants, CountAll
    <2> QED BY <1>4, <2>2, LoginConstants
  <1> QED BY <1>3, <1>4, <1>5 DEF recent

(* A step of one goroutine keeps the invariant if, for every address, the  *)
(* wrong keys grow no faster than the attempts and those about to be, and    *)
(* if the attempts and those on their way do not grow, or were few enough.   *)
LEMMA OneRequest ==
  ASSUME LoginInv, LoginTypes', NEW w \in Workers, NEW r, worker' = [worker EXCEPT ![w] = r],
         \A ip \in Ips, age \in 0..(Minute - 1) :
           Count(failed'[ip], age) + Share(worker[w], ip, {"record"}) + Count(loginAttempts[ip], age)
             <= Count(failed[ip], age) + Share(r, ip, {"record"}) + Count(loginAttempts'[ip], age),
         \A ip \in Ips :
           \/ Count(loginAttempts'[ip], Minute - 1) + Share(r, ip, {"compare", "record"})
                <= Count(loginAttempts[ip], Minute - 1) + Share(worker[w], ip, {"compare", "record"})
           \/ Count(loginAttempts'[ip], Minute - 1) < maxLoginPerMin
  PROVE  LoginInv'
  <1>1. worker \in [Workers -> Request]
    BY DEF LoginInv, LoginTypes
  <1>2. ASSUME NEW ip \in Ips, NEW places
        PROVE  /\ Waiting(ip, places)' + Share(worker[w], ip, places)
                    = Waiting(ip, places) + Share(r, ip, places)
               /\ Waiting(ip, places) \in Nat
               /\ Waiting(ip, places)' \in Nat /\ Waiting(ip, places)' <= Cardinality(Workers)
               /\ Share(worker[w], ip, places) \in Nat /\ Share(r, ip, places) \in Nat
    <2>1. Share(worker[w], ip, places) \in Nat /\ Share(r, ip, places) \in Nat
      BY DEF Share
    <2>2. /\ Waiting(ip, places) \in Nat /\ Waiting(ip, places)' \in Nat
          /\ Waiting(ip, places)' <= Cardinality(Workers)
      BY WaitingIsBounded
    <2>3. Waiting(ip, places)'
            = Waiting(ip, places) + Share(r, ip, places) - Share(worker[w], ip, places)
      BY ONLY <1>1, w \in Workers, worker' = [worker EXCEPT ![w] = r], WaitingMoves, ZenonT(60)
    <2> QED BY <2>1, <2>2, <2>3
  <1>3. ASSUME NEW ip \in Ips, NEW age \in 0..(Minute - 1)
        PROVE  /\ Count(loginAttempts[ip], age) \in Nat /\ Count(loginAttempts[ip], age)' \in Nat
               /\ Count(failed[ip], age) \in Nat /\ Count(failed[ip], age)' \in Nat
    <2>1. Count(loginAttempts[ip], age) \in Nat /\ Count(failed[ip], age) \in Nat
      BY ListsOfAges DEF LoginInv
    <2>2. Count(loginAttempts'[ip], age) \in Nat /\ Count(failed'[ip], age) \in Nat
      <3>1. loginAttempts'[ip] \in Seq(Int) /\ failed'[ip] \in Seq(Int) /\ age \in Int
        BY LoginConstants DEF LoginTypes
      <3> QED BY <3>1, CountIsNat
    <2> QED BY <2>1, <2>2 DEF Count
  <1>4. ASSUME NEW ip \in Ips, NEW age \in 0..(Minute - 1)
        PROVE  Count(failed[ip], age)' <= Count(loginAttempts[ip], age)' + Waiting(ip, {"record"})'
    <2>1. Count(failed[ip], age) <= Count(loginAttempts[ip], age) + Waiting(ip, {"record"})
      BY DEF LoginInv, WrongKeysAreKnown
    <2>2. Count(failed[ip], age)' + Share(worker[w], ip, {"record"}) + Count(loginAttempts[ip], age)
            <= Count(failed[ip], age) + Share(r, ip, {"record"}) + Count(loginAttempts[ip], age)'
      BY DEF Count
    <2> HIDE DEF Count
    <2> QED BY <1>2, <1>3, <2>1, <2>2
  <1>5. ASSUME NEW ip \in Ips
        PROVE  Count(loginAttempts[ip], Minute - 1)' + Waiting(ip, {"compare", "record"})'
                 < maxLoginPerMin + Cardinality(Workers)
    <2>1. Count(loginAttempts[ip], Minute - 1) + Waiting(ip, {"compare", "record"})
            < maxLoginPerMin + Cardinality(Workers)
      BY DEF LoginInv, AttemptsAreLimited
    <2>2. \/ Count(loginAttempts[ip], Minute - 1)' + Share(r, ip, {"compare", "record"})
               <= Count(loginAttempts[ip], Minute - 1) + Share(worker[w], ip, {"compare", "record"})
          \/ Count(loginAttempts[ip], Minute - 1)' < maxLoginPerMin
      BY DEF Count
    <2>3. Count(loginAttempts[ip], Minute - 1) \in Nat /\ Count(loginAttempts[ip], Minute - 1)' \in Nat
      BY <1>3, LoginConstants
    <2> HIDE DEF Count
    <2> QED BY <1>2, <2>1, <2>2, <2>3, LoginConstants
  <1> QED BY <1>4, <1>5 DEF LoginInv, WrongKeysAreKnown, AttemptsAreLimited

(* allowLogin forgets no attempt of the last minute. *)
LEMMA AllowLoginKeepsTheMinute ==
  ASSUME LoginTypes, NEW ip \in Ips, NEW ok, allowLogin(ip, ok)
  PROVE  /\ loginAttempts' \in [Ips -> Seq(0..(Minute + MaxLag))]
         /\ \A a \in Ips, age \in 0..(Minute - 1) :
              Count(loginAttempts'[a], age) = Count(loginAttempts[a], age)
         /\ ok => Count(loginAttempts'[ip], Minute - 1) < maxLoginPerMin
  <1> DEFINE recent == Recent(loginAttempts[ip], 0)
  <1>1. /\ recent \in Seq(0..(Minute + MaxLag))
        /\ \A age \in 0..(Minute - 1) : Count(recent, age) = Count(loginAttempts[ip], age)
        /\ Count(loginAttempts[ip], Minute - 1) = Len(recent)
    <2>1. 0 \in 0..MaxLag
      BY LoginConstants
    <2> QED BY <2>1, RecentKeepsTheMinute
  <1>2. /\ ok = (Len(recent) < maxLoginPerMin)
        /\ loginAttempts' = [loginAttempts EXCEPT ![ip] = recent]
    BY Zenon DEF allowLogin
  <1> HIDE DEF recent
  <1>3. loginAttempts'[ip] = recent /\ \A a \in Ips : a # ip => loginAttempts'[a] = loginAttempts[a]
    BY <1>2 DEF LoginTypes
  <1>4. loginAttempts' \in [Ips -> Seq(0..(Minute + MaxLag))]
    BY <1>1, <1>2 DEF LoginTypes
  <1>5. \A a \in Ips, age \in 0..(Minute - 1) :
          Count(loginAttempts'[a], age) = Count(loginAttempts[a], age)
    BY <1>1, <1>3
  <1>6. ok => Count(loginAttempts'[ip], Minute - 1) < maxLoginPerMin
    BY <1>1, <1>2, <1>3, LoginConstants
  <1> QED BY <1>4, <1>5, <1>6

(* A request moves its own goroutine only. *)
LEMMA OthersStay ==
  ASSUME worker \in [Workers -> Request], NEW w \in Workers, Arrive(w) \/ Step(w)
  PROVE  worker' = [worker EXCEPT ![w] = worker'[w]]
  BY DEF Arrive, rateLimitMiddleware, Step, RequireAPIAuth, Handled, LoginAllowed, LoginChecked,
         LoginEnds, handleLogout, handleStatus, Finish, Forget, Goto

(* A request that ends, or goes where no key is looked at, while attempts   *)
(* of the last minute stay.                                                 *)
LEMMA QuietRequest ==
  ASSUME LoginInv, LoginTypes', NEW w \in Workers, worker' = [worker EXCEPT ![w] = worker'[w]],
         worker[w].pc # "record", worker'[w].pc \notin {"compare", "record"}, failed' = failed,
         \A ip \in Ips, age \in 0..(Minute - 1) :
           Count(loginAttempts'[ip], age) = Count(loginAttempts[ip], age)
  PROVE  LoginInv'
  <1>1. \A ip \in Ips :
          /\ Share(worker[w], ip, {"record"}) = 0 /\ Share(worker'[w], ip, {"record"}) = 0
          /\ Share(worker'[w], ip, {"compare", "record"}) = 0
          /\ Share(worker[w], ip, {"compare", "record"}) \in {0, 1}
    BY DEF Share
  <1>2. \A ip \in Ips, age \in 0..(Minute - 1) :
          Count(loginAttempts[ip], age) \in Nat /\ Count(failed[ip], age) \in Nat
    <2>1. LoginTypes /\ 0..(Minute - 1) \subseteq Int
      BY LoginConstants DEF LoginInv
    <2> QED BY ONLY <2>1, ListsOfAges
  <1>3. \A ip \in Ips, age \in 0..(Minute - 1) :
          Count(failed'[ip], age) + Share(worker[w], ip, {"record"}) + Count(loginAttempts[ip], age)
            <= Count(failed[ip], age) + Share(worker'[w], ip, {"record"}) + Count(loginAttempts'[ip], age)
    BY <1>1, <1>2
  <1>4. \A ip \in Ips :
          Count(loginAttempts'[ip], Minute - 1) + Share(worker'[w], ip, {"compare", "record"})
            <= Count(loginAttempts[ip], Minute - 1) + Share(worker[w], ip, {"compare", "record"})
    BY <1>1, <1>2, LoginConstants
  <1> QED BY <1>3, <1>4, OneRequest

(* Every step of a request keeps the failed logins limited: one that is let *)
(* through found few attempts, a wrong key is about to be recorded, and     *)
(* what is recorded no longer waits for it.                                 *)
LEMMA RequestStep ==
  ASSUME LoginInv, SessionInv', NEW w \in Workers, Arrive(w) \/ Step(w)
  PROVE  LoginInv'
  <1> DEFINE ip == worker[w].ip
  <1>1. /\ LoginTypes /\ worker \in [Workers -> Request] /\ worker' \in [Workers -> Request]
        /\ ip \in Ips /\ 0 \in 0..(Minute + MaxLag) /\ 0 \in 0..(Minute - 1)
    BY LoginConstants DEF LoginInv, LoginTypes, SessionInv, Request
  <1>2. worker' = [worker EXCEPT ![w] = worker'[w]]
    BY <1>1, OthersStay
  <1>3. devMode' = devMode /\ cleaner' = cleaner
    BY DEF Arrive, rateLimitMiddleware, Step, RequireAPIAuth, Handled, LoginAllowed, LoginChecked,
           LoginEnds, handleLogout, handleStatus, CookieIsValid, validSession, createSession,
           deleteSession, allowLogin, recordFailedLogin, authVars
  <1>4. ASSUME failed' \in [Ips -> Seq(0..(Minute - 1))],
               loginAttempts' \in [Ips -> Seq(0..(Minute + MaxLag))]
        PROVE  LoginTypes'
    BY <1>1, <1>3, <1>4 DEF LoginTypes
  <1>5. ASSUME failed' = failed, loginAttempts' = loginAttempts,
               worker[w].pc # "record", worker'[w].pc \notin {"compare", "record"}
        PROVE  LoginInv'
    <2>1. LoginTypes'
      BY <1>1, <1>4, <1>5 DEF LoginTypes
    <2> QED BY <1>2, <1>5, <2>1, QuietRequest
  <1>6. CASE Arrive(w)
    <2>1. PICK a \in Ips, q \in Requests : rateLimitMiddleware(w, a, q)
      BY <1>6 DEF Arrive
    <2>2. failed' = failed /\ loginAttempts' = loginAttempts /\ worker[w].pc = "idle"
      BY <2>1 DEF rateLimitMiddleware, authVars
    <2>3. q.route \notin {"compare", "record"}
      BY DEF Requests
    <2>4. worker'[w].pc \in {"idle", q.route}
      BY <1>1, <2>1, <2>2 DEF rateLimitMiddleware
    <2> QED BY <1>5, <2>2, <2>3, <2>4
  <1>7. CASE RequireAPIAuth(w) \/ Handled(w) \/ handleLogout(w) \/ handleStatus(w)
    <2>1. failed' = failed /\ loginAttempts' = loginAttempts /\ worker[w].pc # "record"
      BY <1>7 DEF RequireAPIAuth, Handled, handleLogout, handleStatus, CookieIsValid, validSession,
                  deleteSession, authVars
    <2>2. worker'[w].pc \in {"idle", "handler"}
      BY <1>1, <1>7 DEF RequireAPIAuth, Handled, handleLogout, handleStatus, Finish, Forget
    <2> QED BY <1>5, <2>1, <2>2
  <1>8. CASE LoginAllowed(w)
    <2>1. worker[w].pc = "login" /\ failed' = failed
      BY <1>8 DEF LoginAllowed
    <2>2. CASE devMode
      <3>1. loginAttempts' = loginAttempts /\ worker'[w].pc = "idle"
        BY <1>1, <1>8, <2>2 DEF LoginAllowed, Finish, Forget, authVars
      <3> QED BY <1>5, <2>1, <3>1
    <2>3. CASE ~devMode
      <3>1. PICK ok \in BOOLEAN :
              allowLogin(ip, ok) /\ IF ok THEN Goto(w, "compare") ELSE Finish(w)
        BY <1>8, <2>3 DEF LoginAllowed
      <3>2. /\ loginAttempts' \in [Ips -> Seq(0..(Minute + MaxLag))]
            /\ \A a \in Ips, age \in 0..(Minute - 1) :
                 Count(loginAttempts'[a], age) = Count(loginAttempts[a], age)
            /\ ok => Count(loginAttempts'[ip], Minute - 1) < maxLoginPerMin
        BY <1>1, <3>1, AllowLoginKeepsTheMinute
      <3>3. LoginTypes'
        BY <1>1, <1>4, <2>1, <3>2 DEF LoginTypes
      <3>4. CASE ~ok
        <4>1. worker'[w].pc = "idle"
          BY <1>1, <3>1, <3>4 DEF Finish, Forget
        <4> QED BY <1>2, <2>1, <3>2, <3>3, <4>1, QuietRequest
      <3>5. CASE ok
        <4>1. worker'[w].pc = "compare" /\ worker'[w].ip = ip
          BY <1>1, <3>1, <3>5 DEF Goto, Request
        <4>2. \A a \in Ips :
                /\ Share(worker[w], a, {"record"}) = 0 /\ Share(worker'[w], a, {"record"}) = 0
                /\ Share(worker[w], a, {"compare", "record"}) = 0
                /\ a # ip => Share(worker'[w], a, {"compare", "record"}) = 0
          BY <2>1, <4>1 DEF Share
        <4>3. \A a \in Ips, age \in 0..(Minute - 1) :
                Count(loginAttempts[a], age) \in Nat /\ Count(failed[a], age) \in Nat
          BY <1>1, ListsOfAges, LoginConstants
        <4>4. \A a \in Ips, age \in 0..(Minute - 1) :
                Count(failed'[a], age) + Share(worker[w], a, {"record"}) + Count(loginAttempts[a], age)
                  <= Count(failed[a], age) + Share(worker'[w], a, {"record"})
                       + Count(loginAttempts'[a], age)
          BY <2>1, <3>2, <4>2, <4>3
        <4>5. ASSUME NEW a \in Ips, a # ip
              PROVE  Count(loginAttempts'[a], Minute - 1) + Share(worker'[w], a, {"compare", "record"})
                       <= Count(loginAttempts[a], Minute - 1) + Share(worker[w], a, {"compare", "record"})
          <5>1. /\ Count(loginAttempts'[a], Minute - 1) = Count(loginAttempts[a], Minute - 1)
                /\ Count(loginAttempts[a], Minute - 1) \in Nat
            BY <3>2, <4>3, LoginConstants
          <5> QED BY <4>2, <4>5, <5>1
        <4> QED BY <1>2, <3>2, <3>3, <3>5, <4>4, <4>5, OneRequest
      <3> QED BY <3>4, <3>5
    <2> QED BY <2>2, <2>3
  <1>9. CASE LoginChecked(w)
    <2>1. worker[w].pc = "compare" /\ loginAttempts' = loginAttempts
      BY <1>9 DEF LoginChecked, authVars
    <2>2. CASE UNCHANGED failed /\ (Goto(w, "create") \/ Finish(w))
      <3>1. CASE Goto(w, "create")
        <4>1. worker'[w].pc = "create"
          BY <1>1, <3>1 DEF Goto, Request
        <4> QED BY <1>5, <2>1, <2>2, <4>1
      <3>2. CASE Finish(w)
        <4>1. worker'[w].pc = "idle"
          BY <1>1, <3>2 DEF Finish, Forget
        <4> QED BY <1>5, <2>1, <2>2, <4>1
      <3> QED BY <2>2, <3>1, <3>2
    <2>3. CASE failed' = [failed EXCEPT ![ip] = Append(@, 0)] /\ Goto(w, "record")
      <3>1. worker'[w].pc = "record" /\ worker'[w].ip = ip
        BY <1>1, <2>3 DEF Goto, Request
      <3>2. /\ failed' \in [Ips -> Seq(0..(Minute - 1))]
            /\ failed'[ip] = Append(failed[ip], 0)
            /\ \A a \in Ips : a # ip => failed'[a] = failed[a]
        BY <1>1, <2>3 DEF LoginTypes
      <3>3. LoginTypes'
        BY <1>1, <1>4, <2>1, <3>2 DEF LoginTypes
      <3>4. ASSUME NEW a \in Ips, NEW age \in 0..(Minute - 1)
            PROVE  /\ Count(loginAttempts[a], age) \in Nat /\ Count(failed[a], age) \in Nat
                   /\ Count(failed'[a], age) = IF a = ip THEN Count(failed[a], age) + 1
                                                         ELSE Count(failed[a], age)
        <4>1. age \in Int /\ age >= 0
          BY LoginConstants
        <4>2. /\ failed[a] \in Seq(Int)
              /\ Count(loginAttempts[a], age) \in Nat /\ Count(failed[a], age) \in Nat
          BY <1>1, <4>1, ListsOfAges
        <4>3. Count(Append(failed[a], 0), age) = Count(failed[a], age) + 1
          BY <4>1, <4>2, CountAppend
        <4> QED BY <3>2, <4>2, <4>3
      <3>5. \A a \in Ips :
              /\ Share(worker[w], a, {"record"}) = 0
              /\ Share(worker'[w], a, {"record"}) = IF a = ip THEN 1 ELSE 0
              /\ Share(worker[w], a, {"compare", "record"}) = IF a = ip THEN 1 ELSE 0
              /\ Share(worker'[w], a, {"compare", "record"}) = IF a = ip THEN 1 ELSE 0
        BY <2>1, <3>1 DEF Share
      <3> HIDE DEF ip
      <3>6. \A a \in Ips, age \in 0..(Minute - 1) :
              Count(failed'[a], age) + Share(worker[w], a, {"record"}) + Count(loginAttempts[a], age)
                <= Count(failed[a], age) + Share(worker'[w], a, {"record"})
                     + Count(loginAttempts'[a], age)
        BY <2>1, <3>4, <3>5
      <3>7. \A a \in Ips :
              Count(loginAttempts'[a], Minute - 1) + Share(worker'[w], a, {"compare", "record"})
                <= Count(loginAttempts[a], Minute - 1) + Share(worker[w], a, {"compare", "record"})
        BY <2>1, <3>4, <3>5, LoginConstants
      <3> QED BY <1>2, <3>3, <3>6, <3>7, OneRequest
    <2> QED BY <1>9, <2>2, <2>3 DEF LoginChecked
  <1>10. CASE LoginEnds(w)
    <2>1. worker'[w].pc = "idle" /\ failed' = failed
      BY <1>1, <1>10 DEF LoginEnds, Finish, Forget
    <2>2. CASE worker[w].pc = "create"
      <3>1. loginAttempts' = loginAttempts
        BY <1>10, <2>2 DEF LoginEnds, createSession, authVars
      <3> QED BY <1>5, <2>1, <2>2, <3>1
    <2>3. CASE worker[w].pc = "record"
      <3>1. loginAttempts' = [loginAttempts EXCEPT ![ip] = Append(@, 0)]
        BY <1>10, <2>3 DEF LoginEnds, recordFailedLogin
      <3>2. /\ loginAttempts' \in [Ips -> Seq(0..(Minute + MaxLag))]
            /\ loginAttempts'[ip] = Append(loginAttempts[ip], 0)
            /\ \A a \in Ips : a # ip => loginAttempts'[a] = loginAttempts[a]
        BY <1>1, <3>1 DEF LoginTypes
      <3>3. LoginTypes'
        BY <1>1, <1>4, <2>1, <3>2 DEF LoginTypes
      <3>4. ASSUME NEW a \in Ips, NEW age \in 0..(Minute - 1)
            PROVE  /\ Count(loginAttempts[a], age) \in Nat /\ Count(failed[a], age) \in Nat
                   /\ Count(loginAttempts'[a], age) = IF a = ip THEN Count(loginAttempts[a], age) + 1
                                                         ELSE Count(loginAttempts[a], age)
        <4>1. age \in Int /\ age >= 0
          BY LoginConstants
        <4>2. /\ loginAttempts[a] \in Seq(Int)
              /\ Count(loginAttempts[a], age) \in Nat /\ Count(failed[a], age) \in Nat
          BY <1>1, <4>1, ListsOfAges
        <4>3. Count(Append(loginAttempts[a], 0), age) = Count(loginAttempts[a], age) + 1
          BY <4>1, <4>2, CountAppend
        <4> QED BY <3>2, <4>2, <4>3
      <3>5. \A a \in Ips :
              /\ Share(worker[w], a, {"record"}) = IF a = ip THEN 1 ELSE 0
              /\ Share(worker'[w], a, {"record"}) = 0
              /\ Share(worker[w], a, {"compare", "record"}) = IF a = ip THEN 1 ELSE 0
              /\ Share(worker'[w], a, {"compare", "record"}) = 0
        BY <2>1, <2>3 DEF Share
      <3> HIDE DEF ip
      <3>6. \A a \in Ips, age \in 0..(Minute - 1) :
              Count(failed'[a], age) + Share(worker[w], a, {"record"}) + Count(loginAttempts[a], age)
                <= Count(failed[a], age) + Share(worker'[w], a, {"record"})
                     + Count(loginAttempts'[a], age)
        BY <2>1, <3>4, <3>5
      <3>7. \A a \in Ips :
              Count(loginAttempts'[a], Minute - 1) + Share(worker'[w], a, {"compare", "record"})
                <= Count(loginAttempts[a], Minute - 1) + Share(worker[w], a, {"compare", "record"})
        BY <2>1, <3>4, <3>5, LoginConstants
      <3> QED BY <1>2, <3>3, <3>6, <3>7, OneRequest
    <2> QED BY <1>10, <2>2, <2>3 DEF LoginEnds
  <1> QED BY <1>6, <1>7, <1>8, <1>9, <1>10 DEF Step
-----------------------------------------------------------------------------
(* What a tick makes of the list of attempts. *)
LEMMA AttemptsAge ==
  ASSUME LoginTypes, AuthTick, NEW ip \in Ips
  PROVE  /\ loginAttempts'[ip] \in Seq(0..(Minute + MaxLag))
         /\ \A age \in 0..(Minute - 1) :
              Count(loginAttempts'[ip], age) = Count(loginAttempts[ip], age - 1)
  <1> DEFINE cap == Minute + MaxLag
             old == loginAttempts[ip]
             new == loginAttempts'[ip]
  <1>1. /\ old \in Seq(0..cap) /\ cap \in Nat /\ Minute <= cap /\ old \in Seq(Int)
        /\ new = [i \in DOMAIN old |-> Older(old[i], cap)]
    <2>1. old \in Seq(0..cap) /\ cap \in Nat /\ Minute <= cap
      BY LoginConstants DEF LoginTypes
    <2>2. new = [i \in DOMAIN old |-> Older(old[i], cap)]
      BY DEF AuthTick
    <2>3. old \in Seq(Int)
      BY ListsOfAges
    <2> QED BY <2>1, <2>2, <2>3
  <1> HIDE DEF old, new, cap
  <1>2. /\ DOMAIN old = 1..Len(old) /\ Len(old) \in Nat /\ DOMAIN new = DOMAIN old
        /\ \A i \in DOMAIN old : old[i] \in 0..cap
    BY <1>1
  <1>3. \A i \in DOMAIN old :
          /\ new[i] = IF old[i] < cap THEN old[i] + 1 ELSE cap
          /\ new[i] \in 0..cap /\ new[i] \in Int
    BY <1>1, <1>2 DEF Older
  <1>4. new \in Seq(0..cap) /\ new \in Seq(Int)
    BY <1>1, <1>2, <1>3
  <1>5. ASSUME NEW age \in 0..(Minute - 1)
        PROVE  Count(new, age) = Count(old, age - 1)
    <2>1. \A i \in DOMAIN old : new[i] <= age <=> old[i] <= age - 1
      BY <1>1, <1>2, <1>3, LoginConstants
    <2>2. age \in Int
      BY LoginConstants
    <2> QED BY <1>1, <1>2, <1>4, <2>1, <2>2, CountLater
  <1> QED BY <1>4, <1>5 DEF new, old, cap

(* What a tick makes of the wrong keys of the last minute. *)
LEMMA FailuresAge ==
  ASSUME LoginTypes, Tick, NEW ip \in Ips
  PROVE  /\ failed'[ip] \in Seq(0..(Minute - 1))
         /\ \A age \in 0..(Minute - 1) : Count(failed'[ip], age) = Count(failed[ip], age - 1)
  <1> DEFINE old == failed[ip]
             last == Younger(old, Minute - 1)
             new == failed'[ip]
             Ages == 0..(Minute - 1)
             Young == {a \in Ages : a < Minute - 1}
  <1>1. new = [i \in DOMAIN last |-> last[i] + 1]
    BY DEF Tick
  <1>2. old \in Seq(Ages) /\ Ages \subseteq Int /\ Minute - 1 \in Int
    BY LoginConstants DEF LoginTypes
  <1>3. /\ last \in Seq(Young)
        /\ \A age \in Int : age < Minute - 1 => Count(last, age) = Count(old, age)
    <2> HIDE DEF Ages, old
    <2> QED BY <1>2, YoungerIsFilter
  <1> HIDE DEF old, last, new
  <1>4. /\ DOMAIN last = 1..Len(last) /\ Len(last) \in Nat /\ DOMAIN new = DOMAIN last
        /\ last = [i \in 1..Len(last) |-> last[i]]
        /\ \A i \in DOMAIN last : last[i] \in Young
    <2> HIDE DEF Young
    <2> QED BY <1>1, <1>3
  <1>5. \A i \in DOMAIN last : /\ new[i] = last[i] + 1 /\ last[i] \in Int
                                /\ new[i] \in 0..(Minute - 1) /\ new[i] \in Int
    BY <1>1, <1>4, LoginConstants
  <1>6. last \in Seq(Int)
    BY <1>4, <1>5
  <1>7. new \in Seq(0..(Minute - 1)) /\ new \in Seq(Int)
    BY <1>1, <1>4, <1>5
  <1>8. ASSUME NEW age \in 0..(Minute - 1)
        PROVE  Count(new, age) = Count(old, age - 1)
    <2>1. age \in Int /\ age - 1 \in Int /\ age - 1 < Minute - 1
      BY LoginConstants
    <2>2. \A i \in DOMAIN last : new[i] <= age <=> last[i] <= age - 1
      BY <1>5, <2>1
    <2>3. Count(new, age) = Count(last, age - 1)
      BY <1>4, <1>6, <1>7, <2>1, <2>2, CountLater
    <2> QED BY <1>3, <2>1, <2>3
  <1> QED BY <1>7, <1>8 DEF new, old

(* Time passes for the wrong keys and for the attempts alike. *)
LEMMA TickKeepsLoginInv ==
  ASSUME LoginInv, Tick
  PROVE  LoginInv'
  <1>1. LoginTypes /\ AuthTick /\ worker' = worker
    BY DEF LoginInv, Tick
  <1>2. LoginTypes'
    <2>1. loginAttempts' \in [Ips -> Seq(0..(Minute + MaxLag))]
      <3>1. loginAttempts' = [ip \in Ips |-> loginAttempts'[ip]]
        BY <1>1 DEF AuthTick
      <3> QED BY <1>1, <3>1, AttemptsAge
    <2>2. failed' \in [Ips -> Seq(0..(Minute - 1))]
      <3>1. failed' = [ip \in Ips |-> failed'[ip]]
        BY DEF Tick
      <3> QED BY <1>1, <3>1, FailuresAge
    <2>3. devMode' \in BOOLEAN
      BY <1>1 DEF AuthTick, LoginTypes
    <2>4. cleaner' \in [pc : {"off", "waiting", "attempts"}, lag : 0..MaxLag]
      <3>1. /\ cleaner.lag \in 0..MaxLag
            /\ cleaner.pc = "attempts" => cleaner.lag < MaxLag
            /\ cleaner' = [cleaner EXCEPT !.lag = IF cleaner.pc = "attempts" THEN @ + 1 ELSE @]
        BY <1>1 DEF AuthTick, LoginTypes
      <3>2. (IF cleaner.pc = "attempts" THEN cleaner.lag + 1 ELSE cleaner.lag) \in 0..MaxLag
        BY <3>1, LoginConstants
      <3> QED BY <1>1, <3>1, <3>2 DEF LoginTypes
    <2> QED BY <1>1, <2>1, <2>2, <2>3, <2>4 DEF LoginTypes
  <1>3. ASSUME NEW ip \in Ips, NEW places
        PROVE  Waiting(ip, places)' = Waiting(ip, places) /\ Waiting(ip, places) \in Nat
    <2>1. Waiting(ip, places)' = Waiting(ip, places)
      BY <1>1 DEF Waiting
    <2> QED BY <2>1, WaitingIsBounded
  <1>4. ASSUME NEW ip \in Ips, NEW age \in 0..(Minute - 1)
        PROVE  Count(failed'[ip], age) <= Count(loginAttempts'[ip], age) + Waiting(ip, {"record"})'
    <2>1. /\ Count(failed'[ip], age) = Count(failed[ip], age - 1)
          /\ Count(loginAttempts'[ip], age) = Count(loginAttempts[ip], age - 1)
      BY <1>1, AttemptsAge, FailuresAge
    <2>2. CASE age = 0
      <3>1. age - 1 \in Int /\ age - 1 < 0
        BY <2>2
      <3>2. Count(failed[ip], age - 1) = 0
        <4>1. \A i \in DOMAIN failed[ip] : failed[ip][i] \in 0..(Minute - 1)
          <5>1. failed[ip] \in Seq(0..(Minute - 1))
            BY <1>1 DEF LoginTypes
          <5> QED BY <5>1, EntriesAreAges
        <4>2. \A i \in DOMAIN failed[ip] : age - 1 < failed[ip][i]
          BY <3>1, <4>1, LoginConstants
        <4>3. failed[ip] \in Seq(Int)
          BY <1>1, ListsOfAges
        <4> QED BY <3>1, <4>2, <4>3, CountNone
      <3>3. Count(loginAttempts[ip], age - 1) \in Nat
        BY <1>1, <3>1, ListsOfAges
      <3> QED BY <1>3, <2>1, <3>2, <3>3
    <2>3. CASE age # 0
      <3>1. age - 1 \in 0..(Minute - 1)
        BY <2>3, LoginConstants
      <3> QED BY <1>3, <2>1, <3>1 DEF LoginInv, WrongKeysAreKnown
    <2> QED BY <2>2, <2>3
  <1>5. ASSUME NEW ip \in Ips
        PROVE  Count(loginAttempts'[ip], Minute - 1) + Waiting(ip, {"compare", "record"})'
                 < maxLoginPerMin + Cardinality(Workers)
    <2>1. Minute - 1 \in Int /\ Minute - 1 - 1 \in Int /\ Minute - 1 - 1 <= Minute - 1
      BY LoginConstants
    <2>2. Count(loginAttempts[ip], Minute - 1 - 1) <= Count(loginAttempts[ip], Minute - 1)
      BY <1>1, <2>1, ListsOfAges, CountMonotone
    <2>3. /\ Count(loginAttempts[ip], Minute - 1 - 1) \in Nat
          /\ Count(loginAttempts[ip], Minute - 1) \in Nat
      BY <1>1, <2>1, ListsOfAges
    <2>4. Count(loginAttempts'[ip], Minute - 1) = Count(loginAttempts[ip], Minute - 1 - 1)
      BY <1>1, AttemptsAge, LoginConstants
    <2>5. Count(loginAttempts[ip], Minute - 1) + Waiting(ip, {"compare", "record"})
            < maxLoginPerMin + Cardinality(Workers)
      BY DEF LoginInv, AttemptsAreLimited
    <2> QED BY <1>3, <2>2, <2>3, <2>4, <2>5, LoginConstants
  <1> QED BY <1>2, <1>4, <1>5 DEF LoginInv, WrongKeysAreKnown, AttemptsAreLimited, Count

(* Nothing changes for the requests, and the attempts of the last minute    *)
(* stay: so it is when the server is idle and when cleanupLoop runs.        *)
LEMMA AttemptsKept ==
  ASSUME LoginInv, LoginTypes', UNCHANGED <<worker, failed>>,
         \A ip \in Ips, age \in 0..(Minute - 1) :
           Count(loginAttempts'[ip], age) = Count(loginAttempts[ip], age)
  PROVE  LoginInv'
  <1>1. ASSUME NEW ip \in Ips, NEW places
        PROVE  Waiting(ip, places)' = Waiting(ip, places)
    BY DEF Waiting
  <1>2. ASSUME NEW ip \in Ips, NEW age \in 0..(Minute - 1)
        PROVE  Count(failed'[ip], age) <= Count(loginAttempts'[ip], age) + Waiting(ip, {"record"})'
    BY <1>1 DEF LoginInv, WrongKeysAreKnown
  <1>3. ASSUME NEW ip \in Ips
        PROVE  Count(loginAttempts'[ip], Minute - 1) + Waiting(ip, {"compare", "record"})'
                 < maxLoginPerMin + Cardinality(Workers)
    BY <1>1, LoginConstants DEF LoginInv, AttemptsAreLimited
  <1> QED BY <1>2, <1>3 DEF LoginInv, WrongKeysAreKnown, AttemptsAreLimited, Count

(* cleanupLoop drops no attempt that counts, although it took the time      *)
(* before it got the lock.                                                  *)
LEMMA CleanupKeepsLoginInv ==
  ASSUME LoginInv, cleanupLoop
  PROVE  LoginInv'
  <1>1. LoginTypes /\ UNCHANGED <<worker, failed>> /\ 0 \in 0..MaxLag
    BY LoginConstants DEF LoginInv, cleanupLoop
  <1>2. CASE CleanSessions
    <2>1. loginAttempts' = loginAttempts
      BY <1>2 DEF CleanSessions
    <2>2. LoginTypes'
      BY <1>1, <1>2, <2>1 DEF CleanSessions, LoginTypes
    <2> QED BY <1>1, <2>1, <2>2, AttemptsKept
  <1>3. CASE CleanAttempts
    <2>1. /\ loginAttempts' = [ip \in Ips |-> Recent(loginAttempts[ip], cleaner.lag)]
          /\ cleaner' = [pc |-> "waiting", lag |-> 0] /\ devMode' = devMode
          /\ cleaner.lag \in 0..MaxLag
      BY <1>1, <1>3 DEF CleanAttempts, LoginTypes
    <2>2. ASSUME NEW ip \in Ips
          PROVE  /\ loginAttempts'[ip] \in Seq(0..(Minute + MaxLag))
                 /\ \A age \in 0..(Minute - 1) :
                      Count(loginAttempts'[ip], age) = Count(loginAttempts[ip], age)
      BY <1>1, <2>1, RecentKeepsTheMinute
    <2>3. loginAttempts' \in [Ips -> Seq(0..(Minute + MaxLag))]
      BY <2>1, <2>2
    <2>4. LoginTypes'
      BY <1>1, <2>1, <2>3 DEF LoginTypes
    <2> QED BY <1>1, <2>2, <2>4, AttemptsKept
  <1> QED BY <1>2, <1>3 DEF cleanupLoop

(* The invariant holds at the start and is kept by every step. *)
LEMMA LoginInvariant == RestSpec => []LoginInv
  <1>1. ASSUME RestInit
        PROVE  LoginInv
    <2>1. PICK a \in Ips : worker = [w \in Workers |->
            [pc |-> "idle", ip |-> a, bearer |-> FALSE, cookie |-> NoToken, live |-> FALSE]]
      BY <1>1 DEF RestInit
    <2>2. worker \in [Workers -> Request] /\ \A w \in Workers : worker[w].pc = "idle"
      BY <2>1 DEF Request
    <2>3. /\ devMode \in BOOLEAN /\ failed = [ip \in Ips |-> <<>>]
          /\ loginAttempts = [ip \in Ips |-> <<>>]
          /\ cleaner \in [pc : {"off", "waiting", "attempts"}, lag : 0..MaxLag]
      BY <1>1, LoginConstants DEF RestInit, AuthInit
    <2>4. \A ip \in Ips, age \in 0..(Minute - 1) :
            Count(failed[ip], age) = 0 /\ Count(loginAttempts[ip], age) = 0
      BY <2>3, CountEmpty
    <2>5. ASSUME NEW ip \in Ips
          PROVE  Waiting(ip, {"record"}) = 0 /\ Waiting(ip, {"compare", "record"}) = 0
      <3>1. /\ {w \in Workers : worker[w].ip = ip /\ worker[w].pc \in {"record"}} = {}
            /\ {w \in Workers : worker[w].ip = ip /\ worker[w].pc \in {"compare", "record"}} = {}
        BY <2>2
      <3> QED BY <3>1, FS_EmptySet DEF Waiting
    <2>6. LoginTypes
      BY <2>2, <2>3 DEF LoginTypes
    <2>7. WrongKeysAreKnown
      BY <2>4, <2>5 DEF WrongKeysAreKnown
    <2>8. AttemptsAreLimited
      <3>1. \A ip \in Ips : Count(loginAttempts[ip], Minute - 1) = 0
        BY <2>4, LoginConstants
      <3>2. \A ip \in Ips : Waiting(ip, {"compare", "record"}) = 0
        BY <2>5
      <3>3. 0 + 0 < maxLoginPerMin + Cardinality(Workers)
        BY LoginConstants
      <3> QED BY <3>1, <3>2, <3>3 DEF AttemptsAreLimited
    <2> QED BY <2>6, <2>7, <2>8 DEF LoginInv
  <1>2. ASSUME LoginInv, SessionInv, [RestNext]_restVars
        PROVE  LoginInv'
    <2>1. SessionInv'
      BY <1>2, SessionStep
    <2>2. CASE UNCHANGED restVars
      <3>1. LoginTypes' /\ UNCHANGED <<worker, failed, loginAttempts>>
        BY <1>2, <2>2 DEF LoginInv, LoginTypes, restVars, authVars
      <3> QED BY <1>2, <3>1, AttemptsKept
    <2> QED BY <1>2, <2>1, <2>2, RequestStep, CleanupKeepsLoginInv, TickKeepsLoginInv DEF RestNext
  <1> QED BY <1>1, <1>2, SessionInvariant, PTL DEF RestSpec

(* handleLogin looks at fewer than maxLoginPerMin wrong keys of an address  *)
(* in a minute beyond the logins that run at the same time, for every limit *)
(* and any number of requests, and whatever cleanupLoop does in between.    *)
THEOREM FailedLoginsAreBounded == RestSpec => []FailuresBounded
  <1>1. ASSUME LoginInv, NEW ip \in Ips
        PROVE  Len(failed[ip]) < maxLoginPerMin + Cardinality(Workers)
    <2>1. LoginTypes
      BY <1>1 DEF LoginInv
    <2>2. failed[ip] \in Seq(0..(Minute - 1)) /\ failed[ip] \in Seq(Int) /\ Minute - 1 \in Int
      BY <2>1, ListsOfAges, LoginConstants DEF LoginTypes
    <2>3. \A i \in DOMAIN failed[ip] : failed[ip][i] <= Minute - 1
      <3>1. \A i \in DOMAIN failed[ip] : failed[ip][i] \in 0..(Minute - 1)
        BY <2>2, EntriesAreAges
      <3> QED BY <3>1, LoginConstants
    <2>4. Count(failed[ip], Minute - 1) = Len(failed[ip])
      BY <2>2, <2>3, CountAll
    <2>5. Count(failed[ip], Minute - 1) <= Count(loginAttempts[ip], Minute - 1) + Waiting(ip, {"record"})
      BY <1>1, LoginConstants DEF LoginInv, WrongKeysAreKnown
    <2>6. Waiting(ip, {"record"}) <= Waiting(ip, {"compare", "record"})
      <3> DEFINE W == {w \in Workers : worker[w].ip = ip /\ worker[w].pc \in {"record"}}
                 V == {w \in Workers : worker[w].ip = ip /\ worker[w].pc \in {"compare", "record"}}
      <3>1. W \subseteq V /\ V \subseteq Workers
        OBVIOUS
      <3> HIDE DEF W, V
      <3>2. Cardinality(W) <= Cardinality(V)
        BY <3>1, LoginConstants, FS_Subset
      <3> QED BY <3>2 DEF Waiting, W, V
    <2>7. Count(loginAttempts[ip], Minute - 1) + Waiting(ip, {"compare", "record"})
            < maxLoginPerMin + Cardinality(Workers)
      BY <1>1 DEF LoginInv, AttemptsAreLimited
    <2>8. /\ Count(loginAttempts[ip], Minute - 1) \in Nat /\ Len(failed[ip]) \in Nat
          /\ Waiting(ip, {"record"}) \in Nat /\ Waiting(ip, {"compare", "record"}) \in Nat
      <3>1. Count(loginAttempts[ip], Minute - 1) \in Nat
        BY <2>1, <2>2, ListsOfAges
      <3>2. Waiting(ip, {"record"}) \in Nat /\ Waiting(ip, {"compare", "record"}) \in Nat
        BY WaitingIsBounded
      <3> QED BY <2>2, <3>1, <3>2
    <2> QED BY <2>4, <2>5, <2>6, <2>7, <2>8, LoginConstants
  <1>2. LoginInv => FailuresBounded
    BY <1>1 DEF FailuresBounded
  <1> QED BY <1>2, LoginInvariant, PTL

(* The limiter, the sessions, the lists of attempts and the requests keep   *)
(* their types, for every value of the constants.                           *)
THEOREM RestIsTyped == RestSpec => []RestTypeOK
  <1>1. ASSUME LimiterInv
        PROVE  LimiterTypeOK
    <2>1. credit \in [Ips -> Int]
      BY <1>1, FullIsNat DEF LimiterInv
    <2> QED BY <1>1, <2>1 DEF LimiterInv, LimiterTypeOK
  <1>2. LimiterInv /\ SessionInv /\ LoginInv => RestTypeOK
    BY <1>1 DEF SessionInv, LoginInv, LoginTypes, RestTypeOK, AuthTypeOK
  <1> QED BY <1>2, LimiterInvariant, SessionInvariant, LoginInvariant, PTL
=============================================================================
