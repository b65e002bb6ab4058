SPECIFICATION Spec
CONSTANTS
  Caller = {"c1", "c2", "other"}
  Service = {"s1", "s2"}
  Home <- MCHome
  WaitLimit = 2
  OwnLimits = {1}
  Forever = 5
  Upgrading = {"s1"}
INVARIANTS
  OneBudget
  BusyMeansContended
