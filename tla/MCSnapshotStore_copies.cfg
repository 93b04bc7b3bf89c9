\* Commands one after the other, whose copies in the daemon outlive them, with
\* failing copies, crashes and rebuilds.
SPECIFICATION FairSpec
CONSTANTS
  c1 = c1
  g1 = g1
  Nobody = Nobody
  Commands <- MC_Commands
  Handlers <- MC_Handlers
  MaxBuilds = 2
INVARIANT TypeOK
INVARIANT LastCopyIsExact
PROPERTY CommandEnds
