CONSTANTS
  Off = off
  Configs = {off, c1}
  MaxOps = 4
  MaxEntries = 2
  Procs = {p1, p2}
  Calls = {k1, k2}
  None = None
  Missing = Missing
  Tombstone = Tombstone
  Unauthorized = Unauthorized
  Failed = Failed
  Faults <- AllFaults
  MaxSessions = 2
  MaxTries = 2

SPECIFICATION PartSpec

INVARIANTS
  ServerIsAsShown
  TokensFollowTheUser

PROPERTIES
  LiveTokenKept

SYMMETRY Symmetry
