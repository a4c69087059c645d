SPECIFICATION Spec
CONSTANTS
  Uids = {k1}
  Workers = {w1}
  Requests <- RestRequests
  Lengths <- UsualLengths
  MaterialSizes <- Sizes
  Registered = {}
  AttrNames = {}
  MaxVersion = 3
  NoUid = NoUid
PROPERTIES
  ActivatedOnlyFromPreActive
