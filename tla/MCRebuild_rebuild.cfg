SPECIFICATION FairSpec
CONSTANTS
  a = a b = b c = c d = d None = None
  Paths <- MCPaths Graphs <- MCGraphs
  MaxAttempts = 4 MaxEdits = 1 MaxWaits = 1
INVARIANTS GivesUpForAReason NothingIsLeftBehind ErrorsAreReal CleanMeansFresh
PROPERTIES LintsEnd
