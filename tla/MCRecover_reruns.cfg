\* Two runs, crashes, failing writes, unreadable manifests and late guests.
SPECIFICATION FairSpec
CONSTANTS
  m1 = m1
  Manifests <- MC_Manifests
  Sessions <- MC_Sessions
  MaxRuns = 2
CHECK_DEADLOCK FALSE
INVARIANT TypeOK
INVARIANT ExitDecidesAll
PROPERTY SignalOnlyPending
PROPERTY RunEnds
PROPERTY KeepsContract
