\* Two hosts: sessions on equal slot indices displace each other.
SPECIFICATION EvictionSpec
CONSTANTS
  h1 = h1
  h2 = h2
  s1 = s1
  s2 = s2
  a = a
  b = b
  Hosts <- MC_Hosts
  Slots <- MC_Slots
  Sessions <- MC_Sessions
  EmptySession = EmptySession
  NoSession = NoSession
  Remainders <- MC_Remainders
CHECK_DEADLOCK FALSE
PROPERTY NoSessionLeftBehind
