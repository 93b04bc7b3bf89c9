\* Two callers race each other, the owner of the slots and running drains.
SPECIFICATION PoolSpec
CONSTANTS
  a = a
  b = b
  g1 = g1
  g2 = g2
  c1 = c1
  c2 = c2
  PoolSize <- MC_PoolSize
  Slots <- MC_Slots
  Sessions <- MC_OneSession
  NoSession = NoSession
  Pids <- MC_Pids
  NoPid = NoPid
  Drainers <- MC_Drainers
  NoDrain = NoDrain
  Modes <- MC_Modes
  Callers <- MC_Callers
  Nobody = Nobody
  NoEntry = NoEntry
  Torn = Torn
SYMMETRY MC_Symmetry
INVARIANT PoolInv
INVARIANT AcquireMissesNoFreeSlot
INVARIANT DrainMissesNoSteadySlot
INVARIANT ActiveIsSnapshot
INVARIANT StatsCountSteadySlots
PROPERTY SlotsFollowVM
