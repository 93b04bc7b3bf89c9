\* Two requests with failures, time limits, hanging commands and restarts.
SPECIFICATION FairSpec
CONSTANTS
  r1 = r1
  r2 = r2
  m1 = m1
  m2 = m2
  h1 = h1
  None = None
  Requests <- MC_Requests
  Batches <- MC_Batches
  Locals <- MC_Locals
  Instances <- MC_Instances
  Unnamed <- MC_Unnamed
  Configured <- MC_Configured
  Steps = 1
INVARIANT TypeOK
INVARIANT RecordedIsBootstrapped
INVARIANT NoSilentLeak
PROPERTY HandlerReturns
