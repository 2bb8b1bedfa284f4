SPECIFICATION LiveSpecByPart
CONSTANTS
  Requests = {r1, r2}
  Checks = {c1}
  OnlyOne = r1
  Nobody = Nobody
  None = None
  Grace = 1
  MaxLag = 0
  Services = {"wifi"}
  TakeoverModes = {"auto", "tun_system_proxy"}
  RetryRounds = 1
  MaxWorld = 1
  MaxAsks = 1
  MaxTroubles = 1
PROPERTIES
  WorkEnds
  IdleIsReleased
  NetworkIsGiven
CHECK_DEADLOCK FALSE
