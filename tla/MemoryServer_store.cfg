SPECIFICATION FairSpec
CONSTANTS
  w1 = w1
  w2 = w2
  Uids = {k1, k2}
  Workers = {w1, w2}
  Requests <- AnyWithWriter
  MaxVersion = 2
  None = None
INVARIANTS
  TypeOK
  DestroyedIsWiped
  OnlyDestroySpoils
PROPERTIES
  ImplementsKeyLifecycle
  RequestsEnd
