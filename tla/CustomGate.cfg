SPECIFICATION ProbeSpec
CONSTANTS
  Samplers = {"background", "page"}
  LostAfter = 2
  MaxFailures = 0
  MaxHandlers = 1
  MayQuit = FALSE
PROPERTIES
  GateFollows
CHECK_DEADLOCK FALSE
