SPECIFICATION DesktopLive
CONSTANTS
  Parts = {"probe", "helper", "forwards", "watchdog", "rules"}
  Samplers = {"background"}
  LostAfter = 1
  MaxFailures = 1
  MaxHandlers = 1
  MayQuit = TRUE
  Services = {s1, s2}
  TakeoverModes = {"auto", "system_proxy"}
  RetryRounds = 1
  MaxWorld = 1
  MaxAsks = 1
  MaxTroubles = 1
  a = a
  b = b
  com = com
  corp = corp
  oa = oa
  other = other
  Cidrs <- MCCidrs
  Wanted <- MCWanted
  MaxGeneration = 2
  MaxEvents = 1
  MaxFaults = 1
  MaxEdits = 2
  Kinds = {"window"}
  Viewers = {"v1"}
  Ids = {1, 2}
  MaxSpawns = 2
  MaxExits = 1
  MaxMoves = 2
  MaxCrashes = 1
  Debounce = 2
  Cooldown = 2
  Window = 6
  Attempts = 2
  Longest = 1
  MaxBreakdowns = 2
  MaxToggles = 0
  MaxSleeps = 1
  RuleChannels = {"c1"}
  Generic = {}
  Checked = {}
  Patterns <- MCLanPattern
  Destinations <- MCLanDestinations
  Reserved <- MCReserved
  NatReturn <- MCNatReturn
  PrivateNet <- MCPrivate
  Lan <- MCLan
  ServerOf <- MCServerOf
  NoServer = NoServer
  Keep = 1
  MaxBinds = 1
  MaxRuleChanges = 2
  MaxRuleFaults = 1
PROPERTIES
  VerdictsArrive
  HelperGoesOn
  UnwatchedGoes
  GatewaySettles
  GuardCatchesUp
CHECK_DEADLOCK FALSE
