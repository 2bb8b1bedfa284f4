SPECIFICATION TunnelSpec
CONSTANTS
  Goals = {g1, g2}
  Plain = g1
  OnDisk <- MCOnDisk
  MaxRuleEdits = 1
  MaxRequests = 2
  MaxStarts = 2
  MaxEntryFaults = 1
  Domains = {d1, d2}
  MaxWrites = 3
  MaxUser = 2
  MaxBreaks = 2
SYMMETRY Symmetry
INVARIANTS
  TunnelTypeOK
PROPERTIES
  EntryFollows
  ResolverKept
CHECK_DEADLOCK FALSE
