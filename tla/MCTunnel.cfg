SPECIFICATION Spec
CONSTANTS
  Operators = {o1, o2}
  Pids = {p1, p2, p3}
  NoPid = NoPid
SYMMETRY Symmetry
INVARIANTS
  TypeOK
  OrphanHasCause
PROPERTIES
  StopStops
