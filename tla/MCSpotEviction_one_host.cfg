\* One host, silent guests: the notice reaches every live session, and ends with entries.
SPECIFICATION EvictionFairSpec
CONSTANTS
  h1 = h1
  h2 = h2
  s1 = s1
  s2 = s2
  a = a
  b = b
  Hosts <- MC_Host
  Slots <- MC_Slots
  Sessions <- MC_Sessions
  EmptySession = EmptySession
  NoSession = NoSession
  Remainders <- MC_Remainders
CHECK_DEADLOCK FALSE
INVARIANT ManifestComplete
INVARIANT PendingIsCheckpointed
INVARIANT BudgetInTime
PROPERTY NoSessionLeftBehind
PROPERTY NoticeLeadsToEntry
PROPERTY KeepsContract
