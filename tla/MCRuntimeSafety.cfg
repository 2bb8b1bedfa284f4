SPECIFICATION Spec
CONSTANTS
  Requests = {r1, r2}
  Checks = {c1}
  Nobody = Nobody
  None = None
  Grace = 2
  MaxLag = 1
SYMMETRY Symmetry
INVARIANTS
  TypeOK
  UseIsExclusive
  NoOrphanWaiter
PROPERTIES
  GraceRespected
  QuitIsFinal
