SPECIFICATION BusySpec
CONSTANTS
  t1 = t1 t2 = t2 a = a b = b na = na nb = nb Miss = Miss
  Paths <- MCPaths Targets <- MCTargets Names <- MCNames
  Texts <- TextsOfA MaxEdits = 1 Deletable = {}
PROPERTIES EventuallyRight
