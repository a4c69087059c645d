SPECIFICATION ProcessSpec
CONSTANTS
  Flags <- SomeFlags
  MaxGenerations = 1
  Conns = {c1}
  maxConnections = 1
  MaxBatch = 1
  MaxItems = 1
INVARIANTS
  InsecureMeansAnyClient
