SPECIFICATION Spec
CONSTANTS
  MaxU32 = 2000000000
  Absent = Absent
  Malformed = Malformed
  NoRequest = NoRequest
  Base = 256
  TargetLen = 32
  SampleNonce = 0
  HashBytes <- MCHashBytes
  InvalidXpubs <- MCInvalidXpubs
  U31 <- MCU31
  Documents <- MCDocuments
  Written <- MCWritten
  Meaning <- MCMeaning
  Illegible <- MCIllegible
  sample <- MCSample
INVARIANTS
  TypeOK
  JudgedAsWritten
  RefusalNamesCulprit
  SampleSettles
PROPERTIES
  HonoursContract
