SPECIFICATION DesktopSpec
CONSTANTS
  Parts = {"probe", "takeover", "helper", "switch", "forwards", "watchdog", "rules"}
  Samplers = {"background"}
  LostAfter = 2
  MaxFailures = 0
  MaxHandlers = 2
  MayQuit = FALSE
  Services = {s1, s2}
  TakeoverModes = {"auto", "system_proxy"}
  RetryRounds = 1
  MaxWorld = 1
  MaxAsks = 1
  MaxTroubles = 1
  a = a
  b = b
  com = com
  corp = corp
  oa = oa
  other = other
  Cidrs <- MCCidrs
  Wanted <- MCWanted
  MaxGeneration = 3
  MaxEvents = 1
  MaxFaults = 1
  MaxEdits = 2
  Kinds = {"window", "gateway"}
  Viewers = {"v1"}
  Ids = {1, 2}
  MaxSpawns = 3
  MaxExits = 2
  MaxMoves = 3
  MaxCrashes = 1
  Debounce = 2
  Cooldown = 2
  Window = 6
  Attempts = 2
  Longest = 1
  MaxBreakdowns = 2
  MaxToggles = 1
  MaxSleeps = 1
  RuleChannels = {"c1", "c2"}
  Generic = {"c2"}
  Checked = {"c2"}
  Patterns <- MCPatterns
  Destinations <- MCDestinations
  Reserved <- MCReserved
  NatReturn <- MCNatReturn
  PrivateNet <- MCPrivate
  Lan <- MCLan
  ServerOf <- MCServerOf
  NoServer = NoServer
  Keep = 1
  MaxBinds = 2
  MaxRuleChanges = 1
  MaxRuleFaults = 0
INVARIANTS
  DesktopTypeOK
  ProbeHonest
  SwitchSafe
  RulesKept
PROPERTIES
  TakeoverKept
  HelperKeepsWord
  SwitchIsCurrent
  ForwardsKept
  LadderKept
CHECK_DEADLOCK FALSE
