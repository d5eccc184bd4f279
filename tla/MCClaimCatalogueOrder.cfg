SPECIFICATION Spec
CONSTANTS
  MaxU32 = 12
  Absent = Absent
  Malformed = Malformed
  Base = 4
  TargetLen = 5
  HashBytes <- MCHashBytes
  Requests <- MCRequests
  Contents <- MCContents
  InvalidXpubs = {badKey}
  U31 <- MCU31
  g = g
  foreign = foreign
  x1 = x1
  x2 = x2
  badKey = badKey
INVARIANT
  CatalogueOrder
