SPECIFICATION RestFairSpec
CONSTANTS
  Ips = {a1}
  Burst = 2
  TicksPerToken = 2
  RetryAfter = 2
  Tokens = {t1}
  maxLoginPerMin = 1
  Minute = 2
  sessionDuration = 1
  MaxLag = 1
  Workers = {w1, w2}
  NoToken = NoToken
INVARIANTS
  RestTypeOK
  WithinRate
  FailuresBounded
PROPERTIES
  RetryAfterIsEnough
  ServedIsAuthorised
  LockoutEnds
  ExpiredIsCollected
