SPECIFICATION FairSpec
CONSTANTS
  Caller = {c1, c2, c3}
  MaxServices = 4
  NoService = NoService
  Nobody = Nobody
INVARIANT
  OpenServices
PROPERTIES
  ImplementsActive
  EveryRequestReturns
