\* Two calls for one slot, which overlap each other and drains of its former life.
SPECIFICATION SpawnFairSpec
CONSTANTS
  s1 = s1
  a = a
  p1 = p1
  p2 = p2
  g1 = g1
  g2 = g2
  c1 = c1
  c2 = c2
  Slots <- MC_Slots
  Sessions <- MC_Sessions
  NoSession = NoSession
  Pids <- MC_Pids
  NoPid = NoPid
  Drainers <- MC_Drainers
  NoDrain = NoDrain
  Spawners <- MC_Spawners
  Modes <- MC_Modes
CHECK_DEADLOCK FALSE
INVARIANT TypeOK
INVARIANT SessionOnlyWhenServing
INVARIANT DrainingHasDrainer
INVARIANT DrainOwnsSlot
PROPERTY LifecycleSpec
PROPERTY DrainCompletes
PROPERTY FailedSpawnKills
INVARIANT SpawnHoldsSlot
PROPERTY SpawnReturns
