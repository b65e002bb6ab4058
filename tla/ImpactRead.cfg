SPECIFICATION Spec
CONSTANTS
  Path = {"a", "b", "c"}
  Symbol <- MCSymbol
  Home <- MCHome
  Refs <- MCRefs
  BaseCommit <- MCBase
  HeadCommit <- MCHead
  Content = {0, 1, 2}
  Alike <- MCAlike
  Outline <- MCOutline
  Penalty <- MCPenalty
  MaxCandidates = 2
INVARIANTS
  OneContent
  ChangedGiveWayToChanged
