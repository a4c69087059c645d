----------------------------- MODULE RateLimiter -----------------------------
(***************************************************************************)
(* The token bucket that the REST API keeps for every client address.      *)
(* Time passes in ticks; TicksPerToken of them earn a token (0.6 s in the  *)
(* code).  A bucket is refilled when a request arrives, by the whole       *)
(* tokens earned since the previous request; the fraction is dropped.      *)
(***************************************************************************)
EXTENDS RestClients

CONSTANTS
  Burst,          \* tokens of a full bucket (100 in the code)
  TicksPerToken,  \* ticks that earn one token
  RetryAfter      \* ticks that a refused client is told to wait (5 s)

ASSUME LimiterAssumption ==
  /\ Burst \in Nat \ {0}
  /\ TicksPerToken \in Nat \ {0}
  /\ RetryAfter \in TicksPerToken..(Burst * TicksPerToken)

VARIABLES
  visitors,  \* the addresses that have a bucket
  bucket,    \* tokens, and the ticks since lastSeen
  credit     \* history: an exact bucket, refilled at every tick

limiterVars == <<visitors, bucket, credit>>

(* A full bucket in ticks.  Idle time beyond it earns nothing more. *)
Full == Burst * TicksPerToken

AtMost(n, max) == IF n > max THEN max ELSE n

LimiterTypeOK ==
  /\ visitors \subseteq Ips
  /\ bucket \in [Ips -> [tokens : 0..Burst, idle : 0..Full]]
  /\ credit \in [Ips -> Int]

LimiterInit ==
  /\ visitors = {}
  /\ bucket = [ip \in Ips |-> [tokens |-> 0, idle |-> 0]]
  /\ credit = [ip \in Ips |-> Full]

(* Mutant of Refilled: the bucket has no limit. *)
RefilledNoCap(b) == b.tokens + b.idle \div TicksPerToken

(* Mutant of Refilled: lastSeen is set before the elapsed time is taken. *)
RefilledTooLate(b) == AtMost(b.tokens, Burst)

(* The tokens at a request, before it takes one. *)
Refilled(b) == AtMost(b.tokens + b.idle \div TicksPerToken, Burst)

(* The tokens that allow(ip) finds. *)
Available(ip) == IF ip \in visitors THEN Refilled(bucket[ip]) ELSE Burst

(* allow(ip) with its answer; a refused request restarts the clock too. *)
allow(ip, ok) ==
  /\ ok = (Available(ip) > 0)
  /\ visitors' = visitors \cup {ip}
  /\ bucket' = [bucket EXCEPT
       ![ip] = [tokens |-> IF ok THEN Available(ip) - 1 ELSE Available(ip), idle |-> 0]]
  /\ credit' = [credit EXCEPT ![ip] = IF ok THEN @ - TicksPerToken ELSE @]

LimiterTick ==
  /\ bucket' = [ip \in Ips |-> [bucket[ip] EXCEPT
       !.idle = IF ip \in visitors THEN Older(@, Full) ELSE @]]
  /\ credit' = [ip \in Ips |-> Older(credit[ip], Full)]
  /\ UNCHANGED visitors

-----------------------------------------------------------------------------
(* The limiter never lets more through than a bucket of Burst tokens that   *)
(* earns one every TicksPerToken ticks, whatever the rounding and however   *)
(* requests and refusals are spaced: in any n ticks an address has at most  *)
(* Burst + n \div TicksPerToken requests let through.                       *)
WithinRate == \A ip \in Ips : credit[ip] >= 0

(* A client that waits as long as Retry-After tells it, with no request     *)
(* from its address meanwhile, is let through, although each refusal threw  *)
(* away the fraction of a token earned before it.                           *)
RetryAfterIsEnough ==
  [][\A ip \in visitors :
       bucket[ip].idle >= RetryAfter /\ bucket'[ip].idle = 0
         => credit'[ip] < credit[ip]]_limiterVars
=============================================================================
