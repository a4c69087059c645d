SPECIFICATION ProcessFairSpec
CONSTANTS
  Flags <- SomeFlags
  MaxGenerations = 2
  Conns = {c1, c2, c3}
  maxConnections = 2
  MaxBatch = 2
  MaxItems = 2
INVARIANTS
  ProcessTypeOK
  ServesAsConfigured
  DevServerIsUsable
  SlotsAreLive
  TrackedIsEstablished
PROPERTIES
  CompleteCertsAreKept
  StartsEnd
  DialsAreAnswered
  OnlyHandshakesStall
