SPECIFICATION Spec
CONSTANTS
  Uids = {k1}
  Workers = {w1, w2}
  Requests <- RekeyRequests
  Lengths <- UsualLengths
  MaterialSizes <- Sizes
  Registered = {}
  AttrNames = {}
  MaxVersion = 3
  NoUid = NoUid
PROPERTIES
  RekeyReplacesActive
