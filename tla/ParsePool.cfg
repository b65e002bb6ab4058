SPECIFICATION FairPoolSpec
CONSTANTS
  FileCount = 4
  Workers = 3
INVARIANT
  UsesAllFiles
PROPERTY
  Returns
