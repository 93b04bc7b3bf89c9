\* StateFileWhole does not hold when two requests overlap.
SPECIFICATION Spec
CONSTANTS
  h1 = h1
  h2 = h2
  c1 = c1
  c2 = c2
  main = main
  Main = main
  Hosts <- MC_Hosts
  Configured <- MC_Configured
  PoolSize <- MC_PoolSize
  AddedSize <- MC_AddedSize
  Connections <- MC_Connections
  OneAtATime = FALSE
INVARIANT StateFileWhole
