SPECIFICATION FairSpec
CONSTANTS
  Versions = {v1, v2}
  Unset = Unset
  MaxOp = 3
  MaxId = 4
  MaxData = 2
  MaxAsks = 2
  MaxFaults = 2
  Losses = FALSE
PROPERTY StopIsConfirmed
