---------------------------- MODULE ConfigFiles ----------------------------
(***************************************************************************)
(* The JSON configuration of a project: files that list sources, include   *)
(* other files and folders, and give flags per type of source; and what    *)
(* one of them expands to.                                                 *)
(*                                                                         *)
(* A file is reached by a path, and paths are compared as they are spelled: *)
(* an included path is joined to the folder of the file that includes it   *)
(* and never normalised.  Here a spelled path is the sequence of folders   *)
(* it goes through, and the file or folder where it ends.                  *)
(***************************************************************************)
EXTENDS Naturals, Sequences, FiniteSets, SequencesExt

CONSTANTS
  Paths,       (* the source files there are                                *)
  FileTypeOf,  (* their type, None when the extension is not known          *)
  Files,       (* configuration files                                       *)
  Folders,     (* folders                                                   *)
  FolderOf,    (* folder of each file                                       *)
  Default,     (* the project file in each folder, None if it has none      *)
  RtlIn,       (* sources of a known type somewhere in each folder          *)
  Libs,        (* libraries a configuration or a source can name            *)
  Flag,        (* arguments of a compiler                                   *)
  Content,     (* what each file says: a configuration, Broken or Absent    *)
  Broken, Absent,
  NoSources,   (* a configuration that has no list of sources               *)
  None,        (* Python's None, or no entry in a dictionary                *)
  MaxHops      (* bound: folders in a spelled path, for PATH_MAX            *)

Types == {"vhdl", "verilog", "systemverilog"}

NoFlags    == [single |-> <<>>, dependencies |-> <<>>, global |-> <<>>]
NoFlagsAtAll == [source_specific |-> <<>>, single |-> <<>>, dependencies |-> <<>>]

(* What a configuration includes, a source or a pattern that it lists, and *)
(* the whole of it.                                                        *)
Item == [node : Files \cup Folders, absolute : BOOLEAN]
Listing == [matches : SUBSET Paths, library : Libs \cup {None}, flags : Seq(Flag)]
Configuration ==
  [include : Seq(Item), sources : Seq(Listing) \cup {NoSources},
   flags   : [Types -> [single : Seq(Flag), dependencies : Seq(Flag), global : Seq(Flag)]]]

ASSUME ConfigFilesAssumption ==
  /\ IsFiniteSet(Paths)
  /\ FileTypeOf \in [Paths -> Types \cup {None}]
  /\ FolderOf \in [Files -> Folders] /\ None \notin Files
  /\ Default \in [Folders -> Files \cup {None}]
  /\ RtlIn \in [Folders -> SUBSET Paths]
  /\ DOMAIN Content = Files
  /\ \A f \in Files : Content[f] \in Configuration \cup {Broken, Absent}
  /\ MaxHops \in Nat \ {0}

(* A path as it is spelled; a source as the project gets it.               *)
Place == [node : Files \cup Folders, hops : Seq(Folders)]
SourceFlags == [source_specific : Seq(Flag), single : Seq(Flag), dependencies : Seq(Flag)]
Entry == [path : Paths, library : Libs \cup {None}, flags : SourceFlags]

-----------------------------------------------------------------------------
(* Where the last part of a path is. *)
FolderAt(node) == IF node \in Folders THEN node ELSE FolderOf[node]

(* _makeAbsoluteIfNeeded: the item of an include list as seen from the     *)
(* folder at the end of hops.                                              *)
Spelled(hops, item) ==
  LET folder == FolderAt(item.node)
  IN  [node |-> item.node,
       hops |-> IF item.absolute THEN <<folder>>
                ELSE IF folder = Last(hops) THEN hops
                ELSE Append(hops, folder)]

SpelledAll(hops, items) == {Spelled(hops, items[i]) : i \in DOMAIN items}

(* A folder stands for the project file in it. *)
FileAt(path) == IF path.node \in Folders THEN Default[path.node] ELSE path.node

(* findRtlSourcesByPath *)
Found(folder) == <<[matches |-> RtlIn[folder], library |-> None, flags |-> <<>>]>>

(* What getIncludedConfigs yields for a path: nothing for a path that does *)
(* not exist or a file that is not JSON, the sources of a folder without a *)
(* project file.                                                           *)
Loaded(path) ==
  LET file == FileAt(path)
  IN  IF Len(path.hops) > MaxHops THEN {}
      ELSE IF file = None
           THEN {[include |-> <<>>, sources |-> Found(path.node),
                  flags |-> [t \in Types |-> NoFlags]]}
      ELSE IF Content[file] \in {Broken, Absent} THEN {}
      ELSE {Content[file]}

(* Slip: a file that was read is included again. *)
IncludedAgain(path, checked) == UNION {SpelledAll(path.hops, config.include) : config \in Loaded(path)}

(* The paths getIncludedConfigs adds to those it has yet to read. *)
NewlyIncluded(path, checked) ==
  (UNION {SpelledAll(path.hops, config.include) : config \in Loaded(path)}) \ checked

-----------------------------------------------------------------------------
(* One source of _expand and the flags that apply to its type; a file of   *)
(* another type is listed without flags.                                   *)
SourceEntry(source, path, flags) ==
  IF FileTypeOf[path] = None
  THEN [path |-> path, library |-> source.library, flags |-> NoFlagsAtAll]
  ELSE LET own == flags[FileTypeOf[path]]
       IN  [path    |-> path,
            library |-> source.library,
            flags   |-> [source_specific |-> source.flags,
                         single          |-> own.global \o own.single,
                         dependencies    |-> own.global \o own.dependencies]]

(* _expand: a configuration without sources lists those of its folder.     *)
Expand(config, folder) ==
  LET sources == IF config.sources = NoSources THEN Found(folder) ELSE config.sources
      EntriesOf(source) ==
        LET matches == SetToSeq(source.matches)
        IN  [i \in DOMAIN matches |-> SourceEntry(source, matches[i], config.flags)]
  IN  FlattenSeq([i \in DOMAIN sources |-> EntriesOf(sources[i])])

(* What an included path adds to the project. *)
EntriesAt(path) ==
  IF Loaded(path) = {} THEN <<>>
  ELSE Expand(CHOOSE config \in Loaded(path) : TRUE, FolderAt(path.node))

-----------------------------------------------------------------------------
(* What is meant by including: every file that can be reached.             *)
Reachable(config) ==
  LET Further(nodes) ==
        nodes \cup {item.node : item \in UNION {Range(read.include) :
                      read \in UNION {Loaded([node |-> n, hops |-> <<FolderAt(n)>>]) : n \in nodes}}}
      reach[i \in 0..Cardinality(Files \cup Folders)] ==
        IF i = 0 THEN {item.node : item \in Range(config.include)} ELSE Further(reach[i - 1])
  IN  reach[Cardinality(Files \cup Folders)]

(* The sources a configuration and what it includes list. *)
ListedBy(config, folder) ==
  {e.path : e \in Range(Expand(config, folder))}
  \cup UNION {{e.path : e \in Range(EntriesAt([node |-> n, hops |-> <<FolderAt(n)>>]))} :
                n \in Reachable(config)}
=============================================================================
