SPECIFICATION ChangesLive
CONSTANTS
  Appliers = {p1, p2}
  Nobody = Nobody
  Contents = {v1, v2}
  NoRules = NoRules
  Absent = Absent
  Late = TRUE
  MaxEdits = 1
  MaxFailures = 1
  Versions = {w1, w2}
  Unset = Unset
  MaxOp = 3
  MaxId = 4
  MaxData = 2
  MaxAsks = 2
  MaxFaults = 2
  Losses = TRUE
INVARIANTS
  VerifiedWasRunning
PROPERTIES
  RestartFinishes
  RetriesConfirm
