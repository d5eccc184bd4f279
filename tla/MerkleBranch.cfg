SPECIFICATION Spec
CONSTANTS
  MaxU32 = 12
  Absent = Absent
  MaxTxs = 7
  MaxClaim = 8
  Stray = Stray
INVARIANTS
  TypeOK
  AcceptedIsInBlock
  GenuineAccepted
