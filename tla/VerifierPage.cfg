SPECIFICATION Spec
CONSTANTS
  Sample = sample
  ErrorPage = errorPage
  NoText = noText
  Texts = {sample, errorPage, noText}
  Valid = {sample}
  MaxCalls = 3
INVARIANTS
  TypeOK
  AnswerIsLatest
  VerdictAgrees
PROPERTIES
  ButtonComesBack
  LoadingEnds
