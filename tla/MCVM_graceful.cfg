\* A graceful drain ends under a session.
SPECIFICATION Spec
CONSTANTS
  s1 = s1
  s2 = s2
  a = a
  b = b
  p1 = p1
  g1 = g1
  g2 = g2
  Slots <- MC_Slots
  Sessions <- MC_Sessions
  NoSession = NoSession
  Pids <- MC_Pids
  NoPid = NoPid
  Drainers <- MC_Drainers
  NoDrain = NoDrain
PROPERTY GracefulAwaitsSession
