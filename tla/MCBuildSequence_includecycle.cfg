SPECIFICATION FairSpec
CONSTANTS
  t = t a = a b = b c = c
  nt = nt na = na nb = nb nc = nc nx = nx
  work = work lib = lib ieee = ieee
  None = None All = All
  Paths <- MCPaths Names <- MCNames Libraries <- MCLibraries Builtin <- MCBuiltin
  Projects <- IncludeCycleProjects
PROPERTIES Terminates
\* one call: it ends when the sequence is returned
CHECK_DEADLOCK FALSE
