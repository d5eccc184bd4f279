SPECIFICATION MCSpec
CONSTANTS
  MaxU32 = 12
  Absent = Absent
  Error = Error
  ByteBase = 5
  MaxTxBytes = 24
  MaxInputs = 3
  MaxOutputs = 2
  MaxWitnessItems = 2
  Submissions <- MCSubmissions
  Genuine <- MCGenuine
  Base = 4
  ArrayWidth = 2
  AddressWidth = 1
  LongWidth = 2
  ShortWidth = 1
  Preimages <- MCPreimages
  TargetLen = 5
  HashBytes <- MiningHashBytes
  MaxNonce = 2
  MaxExponent = 7
  HashValues <- MCHashValues
INVARIANTS
  CodecsTypeOK
  TxidCommits
  GenuineRead
  Canonical
  Unambiguous
  ComparedAsNumbers
  TargetIsExact
  MiningIsHonest
CHECK_DEADLOCK FALSE
