SPECIFICATION FairSpec
CONSTANTS
  c1 = c1
  c2 = c2
  c3 = c3
  Caller <- MCCaller
  MaxStarts = 3
  Contract = {"same", "other"}
  NoWorker = NoWorker
  Nobody = Nobody
INVARIANTS
  NoOrphans
  WorkerIsUsable
PROPERTIES
  ImplementsActive
  EveryRequestReturns
