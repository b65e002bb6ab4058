SPECIFICATION Spec
CONSTANTS
  c1 = c1
  c2 = c2
  Caller <- MCCaller
  Name = {"focalspan", "old"}
  LegacyName = "old"
  ProjectTable = {"project"}
  UserTable = {"user"}
  Legacy = "legacy"
  Foreign = "foreign"
  None = None
  Broken = Broken
  Nobody = Nobody
  Commands <- NewNameCommands
  MaxEdits = 1
SYMMETRY CallerSymmetry
INVARIANT
  CommitsWhatItSaw
PROPERTIES
  OnlyItsEntry
  ForeignIsKept
