SPECIFICATION InsistentSpec
CONSTANTS
  Uids = {k1}
  Workers = {w1}
  Requests <- ArchiveRequests
  Lengths <- UsualLengths
  MaterialSizes <- Sizes
  Registered = {}
  AttrNames = {}
  MaxVersion = 2
  NoUid = NoUid
PROPERTIES
  KeysCanBeArchived
