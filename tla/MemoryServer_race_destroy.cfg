SPECIFICATION Spec
CONSTANTS
  w1 = w1
  w2 = w2
  Uids = {k1}
  Workers = {w1, w2}
  Requests <- AnyToAny
  MaxVersion = 2
  None = None
INVARIANTS
  SuccessUsedTheKey
