\* Three calls that overlap, with requests that fail and contexts that are cancelled.
SPECIFICATION BuildSpec
CONSTANTS
  b1 = b1
  b2 = b2
  b3 = b3
  Builders <- MC_Builders
INVARIANT LastCallResumes
