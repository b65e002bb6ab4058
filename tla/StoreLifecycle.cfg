SPECIFICATION Spec
CONSTANTS
  s1 = s1
  s2 = s2
  s3 = s3
  Session <- MCSession
  MaxOpens = 5
  MaxCrashes = 2
  MaxFaults = 2
SYMMETRY SessionSymmetry
INVARIANT
  HandlesAreLeased
PROPERTIES
  DiskIsChangedAlone
  ImplementsUpgrade
CHECK_DEADLOCK FALSE
