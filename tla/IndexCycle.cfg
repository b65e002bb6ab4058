SPECIFICATION Spec
CONSTANTS
  r1 = r1
  r2 = r2
  r3 = r3
  p1 = p1
  p2 = p2
  f = f
  m = m
  Request <- MCRequest
  Process <- MCProcess
  Home <- MCHome
  Hash <- MCHash
  Setting <- MCSetting
  SettingOf <- MCSettingOf
  Selected <- MCSelected
  Path <- MCPath
  Manifest = m
  MaxVersion = 2
  Broken <- MCBroken
  MaxEdits = 1
  MaxOps = 3
  MaxCrashes = 1
  Unset = Unset
  NoRow = NoRow
  Unlinked = Unlinked
  Free = Free
INVARIANTS
  ReadyIsComplete
  StableRead
PROPERTIES
  SuccessIsReady
  ImplementsView
CHECK_DEADLOCK FALSE
