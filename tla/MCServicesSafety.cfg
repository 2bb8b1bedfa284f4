SPECIFICATION ServicesSpec
CONSTANTS
  Parts = {"host", "book", "archives", "downloads", "installer", "log"}
  HostChannels = {"c1"}
  MaxStarts = 2
  MaxRestarts = 1
  MaxHostFaults = 1
  Channels = {"c1"}
  Names = {"A"}
  Servers = {"s1"}
  Passwords = {"p1"}
  Texts = {"t1"}
  Patterns = {"r1", "bad"}
  WellFormed = {"r1"}
  Edits <- MCEdits
  Writers = {w1, w2}
  Foreign <- MCForeign
  MaxChanges = 3
  MaxImports = 1
  MaxBookFaults = 1
  Tickets = {"t1", "t2"}
  Places = 1
  Confirmers = {"k1", "k2"}
  Images = {"i1", "i2"}
  Jobs = {"j1", "j2"}
  Waiters = {"create"}
  MaxActive = 1
  RightMirrors = {"good"}
  WrongMirrors = {"bad"}
  MaxImageFaults = 1
  MaxUploads = 2
  MaxInstances = 2
  MaxInstFaults = 2
  RingSize = 2
  QueueSize = 1
  DayLines = 1
  Switchers = {q1, q2}
  LastDay = 2
  MaxRecorded = 3
  MaxLogFaults = 1
  MaxProcesses = 2
SYMMETRY Symmetry
INVARIANTS
  ServicesTypeOK
  EventsAccounted
PROPERTIES
  HostKept
  SettingsKept
  ImagesKept
  InstallsAreKnown
CHECK_DEADLOCK FALSE
