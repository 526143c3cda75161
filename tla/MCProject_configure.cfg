SPECIFICATION FairSpec
CONSTANTS
  a = a b = b c = c t = t u = u l1 = l1 l2 = l2 f1 = f1 f2 = f2 top = top one = one two = two
  None = None Miss = Miss Broken = Broken Absent = Absent NoSources = NoSources
  Work = work NotInProject = not_in_project
  Paths <- MCPaths Temporary = {t} Names = {u} Libs = {l1, l2} Texts <- MCTexts
  FileTypeOf <- MCFileTypeOf Files = {f1, f2} Folders = {top, one, two} FolderOf <- MCFolderOf
  Default <- MCDefault RtlIn <- MCRtlIn Flag <- MCFlag Content <- MCContent MaxHops = 2
  Root = top RootFiles <- MCRootFiles Vunit <- MCVunit Headers <- MCHeaders
  Refused = Refused Preferred = "ghdl" Asked = {b, t} Resolved = {c} Editable = {c} MaxEdits = 1
INVARIANTS CachedLibrariesAgree  DuplicatesAreReported 
   
PROPERTIES  EveryReadingEnds
