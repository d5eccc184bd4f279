SPECIFICATION MiningSpec
CONSTANTS
  MaxU32 = 12
  Absent = Absent
  Base = 4
  TargetLen = 5
  HashBytes <- MiningHashBytes
  MaxNonce = 2
  MaxExponent = 7
  HashValues <- MCHashValues
INVARIANT
  ZeroIsInvalid
