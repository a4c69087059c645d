SPECIFICATION Spec
CONSTANTS
  Uids = {k1, k2}
  Workers = {w1, w2}
  Requests <- AllRequests
  Lengths <- UsualLengths
  MaterialSizes <- Sizes
  Registered <- LongKeys
  AttrNames = {a1}
  MaxVersion = 2
  NoUid = NoUid
SYMMETRY Symmetry
INVARIANTS
  TypeOK
  DestroyedIsWiped
  RepliesAreTruthful
  PublicKeyHasPrivateHalf
  AttributesHaveRow
  
PROPERTIES
  DestroyedIsFinal
  ImplementsKeyLifecycle
