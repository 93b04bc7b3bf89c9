\* Requests one at a time, with failing saves, crashes, shutdowns and restarts.
SPECIFICATION Spec
CONSTANTS
  h1 = h1
  h2 = h2
  c1 = c1
  c2 = c2
  main = main
  Main = main
  Hosts <- MC_Hosts
  Configured <- MC_Configured
  PoolSize <- MC_PoolSize
  AddedSize <- MC_AddedSize
  Connections <- MC_Connection
  OneAtATime = TRUE
INVARIANT TypeOK
INVARIANT StateFileWhole
INVARIANT AckedIsDurable
PROPERTY PrewarmRestores
INVARIANT TeardownRemovesPooled
