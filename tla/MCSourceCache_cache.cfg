SPECIFICATION FairSpec
CONSTANTS
  t1 = t1 t2 = t2 a = a b = b na = na nb = nb Miss = Miss
  Paths <- MCPaths Targets <- MCTargets Names <- MCNames
  Texts <- TextsOfAll MaxEdits = 3 Deletable = {a, b}
INVARIANTS CachedAnswersAgree KeyErrorOnlyAfterDeletion
PROPERTIES CallsEnd
