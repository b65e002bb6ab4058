SPECIFICATION FairSpec
CONSTANTS
  r1 = r1
  r2 = r2
  r3 = r3
  p1 = p1
  p2 = p2
  f = f
  m = m
  Request <- ThreeRequests
  Process <- MCProcess
  Home <- SharedHome
  Hash <- MCHash
  Setting <- OtherExtraction
  SettingOf <- OtherExtractionOf
  Selected <- OneFileSelected
  Path <- OneFile
  Manifest = m
  MaxVersion = 2
  Broken <- NoneBroken
  MaxEdits = 0
  MaxOps = 3
  MaxCrashes = 1
  Unset = Unset
  NoRow = NoRow
  Unlinked = Unlinked
  Free = Free
PROPERTY
  EveryCallReturns
CHECK_DEADLOCK FALSE
