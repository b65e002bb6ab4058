SPECIFICATION Spec
CONSTANTS
  MaxLines = 4
  Chunks <- MCChunks
  Links <- MCLinks
  Requests <- MCRequests
  ListLimit = 2
  MaxAnchors = 2
  FusedLimit = 5
  Offers <- MCOffers
  Intents = {"callers", "impact"}
  Modes = {"focused", "source"}
  Budgets = {1, 20}
  MinBudget = 9
  MaxBudget = 19
  MaxOffers = 4
  Lengths = {3, 28}
  Openings = {0, 99}
  Scores = {1, 2}
  MaxMatches = 3
  PackOffers <- MCPack
  PackIntents = {"any", "tests", "impact"}
  PackModes = {"source", "outline"}
  PackBudgets = {1, 12, 40}
  MinPack = 5
  MaxPack = 20
  MaxPacked = 4
  Lexicon <- MCLexicon
  Units <- MCUnits
  PlanAnchorLimit = 3
  FTSLimit = 6
  MaxUnits = 3
  Identifiers <- MCIdentifiers
  Pieces <- MCPieces
  MaxPieces = 4
  TokenBytes = 3
  WindowLines = 4
  WindowOverlap = 1
  HtmlLines = 3
  Markup <- MCMarkup
  MaxMarkup = 4
  PageLines = 2
  ScriptLines = 2
  ScriptOverlap = 1
  JoinedLines = 2
  LowerCase <- MCLower
  Anonymous <- MCAnonymous
  Symbols <- MCSymbols
  References <- MCReferences
  Facts <- MCFacts
  MaxDeclared = 3
  Humps <- MCHumps
  PyPieces <- MCPyPieces
  MaxPyPieces = 4
INVARIANTS
  ChangesAreLocated SearchFindsTheBest PacketIsHonestAndAnchored SessionReadsAllOnce EncodingIsFaithful
  SegmentsShowTheMatch BundleAccountsForAll PlanKeepsItsNames PhpIsSearchable PageIsRead PythonIsReadByScope
  LinksAreFound CallsReachTheNearest ExpansionIsWhole
CHECK_DEADLOCK FALSE
