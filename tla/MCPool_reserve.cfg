\* Acquire hands out a slot that already runs a session.
SPECIFICATION PoolSpec
CONSTANTS
  a = a
  b = b
  g1 = g1
  g2 = g2
  c1 = c1
  c2 = c2
  PoolSize <- MC_PoolSize
  Slots <- MC_Slots
  Sessions <- MC_Sessions
  NoSession = NoSession
  Pids <- MC_Pids
  NoPid = NoPid
  Drainers <- MC_OneDrainer
  NoDrain = NoDrain
  Modes <- MC_Modes
  Callers <- MC_Callers
  Nobody = Nobody
  NoEntry = NoEntry
  Torn = Torn
PROPERTY AcquireReserves
