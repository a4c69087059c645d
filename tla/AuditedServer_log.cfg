SPECIFICATION AuditedFairSpec
CONSTANTS
  Uids = {k1}
  Workers = {w1, w2}
  Requests <- LifecycleRequests
  Lengths <- UsualLengths
  MaterialSizes <- Sizes
  Registered = {}
  AttrNames = {}
  MaxVersion = 2
  NoUid = NoUid
  Capacity = 1
  NoEntry = NoEntry
INVARIANTS
  AuditNeverAhead
  StateIsAudited
PROPERTIES
  QueuedIsWritten
