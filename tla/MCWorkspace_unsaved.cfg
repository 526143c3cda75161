CONSTANTS
  LengthOf <- MCLengthOf
  Work = "work"
  Std = "std"
  None = None
  pkg = pkg
  top = top
  a = a
  b = b
  Files = {pkg, top}
  Temps = {t1, t2}
  Texts <- MCTexts
  LibraryOf <- MCLibraryOf
  FlagsOf <- MCFlagsOf
  NotInProject = "not_in_project"
  Tool = "msim"
  Threads = {a, b}
  MaxSaved = 1
  MaxSaves = 1
  MaxFailures = 1
  MaxRequests = 1
SPECIFICATION NavigationSpec
INVARIANTS
  NothingTemporaryIsLeft
  LintsDieForAReason
  LintingBringsTheFileBack
  FlagsOfTheFileComeLast
  NamesLeadBothWays
PROPERTIES
  
  DefinitionsAreFound
SYMMETRY Symmetry
CHECK_DEADLOCK FALSE
