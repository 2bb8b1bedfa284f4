SPECIFICATION ChangesSpec
CONSTANTS
  Appliers = {p1, p2}
  Nobody = Nobody
  Contents = {v1, v2}
  NoRules = NoRules
  Absent = Absent
  Late = FALSE
  MaxEdits = 2
  MaxFailures = 1
  Versions = {w1, w2}
  Unset = Unset
  MaxOp = 4
  MaxId = 5
  MaxData = 2
  MaxAsks = 3
  MaxFaults = 3
  Losses = TRUE
SYMMETRY Symmetry
INVARIANTS
  ChangesTypeOK
  Confirmed
  Reversible
  SettledIsWhole
PROPERTIES
  NoDataLost
  StopIsRespected
