---------------------------- MODULE ProjectFile ----------------------------
(***************************************************************************)
(* What the core makes of the project file of a workspace.  A file that is *)
(* not JSON is read line by line as the older .prj format: parameters, some *)
(* of them per language, and one source on a line.  The builder it names,  *)
(* or the first one that works on this machine, says which of VUnit's own  *)
(* sources join the project.                                               *)
(*                                                                         *)
(* A file is [format |-> "json", builder, config] or [format |-> "prj",    *)
(* lines], the lines without their comments, or [format |-> "absent"].     *)
(***************************************************************************)
EXTENDS ConfigFiles

CONSTANTS
  Refused,     (* reading the file raises an exception                      *)
  Preferred,   (* the builder found on this machine                         *)
  Vunit,       (* VUnit's sources, <<>> when it is not installed            *)
  Headers      (* and its Verilog headers                                   *)

Builders == {"msim", "ghdl", "xvhdl", "fallback"}

VunitSource == [path : Paths, type : Types, library : Libs, standard : STRING \cup {None}]
StandardFlag == [tool : {"msim", "ghdl"}, std : {"93", "2002", "2008"}]

(* The lines of the older format. *)
IsLine(line) ==
  \/ /\ line.kind = "parameter"
     /\ line.parameter = "builder" => line.value \in STRING
     /\ line.parameter \in {"single_build_flags", "global_build_flags", "dependencies_build_flags"} =>
          line.value \in Seq(Flag)
  \/ /\ line.kind = "source"
     /\ line.matches \subseteq Paths /\ line.library \in Libs \cup {None} /\ line.flags \in Seq(Flag)
  \/ line.kind = "blank"

IsFile(file) ==
  \/ file.format = "json" /\ file.builder \in STRING \cup {None} /\ file.config \in Configuration
  \/ file.format = "prj" /\ file.lines \in Seq(Range(file.lines)) /\ \A line \in Range(file.lines) : IsLine(line)
  \/ file.format = "absent"

ASSUME ProjectFileAssumption ==
  /\ Preferred \in Builders
  /\ StandardFlag \subseteq Flag
  /\ Vunit \in Seq(VunitSource) /\ Headers \in Seq(Paths)

-----------------------------------------------------------------------------
(* ConfigParser's parameters. *)
ScopeOf(parameter) ==
  CASE parameter = "single_build_flags" -> "single"
    [] parameter = "global_build_flags" -> "global"
    [] parameter = "dependencies_build_flags" -> "dependencies"
    [] OTHER -> None

(* A flag parameter replaces what an earlier line gave.  Without a         *)
(* language, or with one in capitals, there is no FileType for it.         *)
WithParameter(so_far, line) ==
  CASE line.parameter = "target_dir" -> so_far
    [] line.parameter = "builder" -> [so_far EXCEPT !.builder = line.value]
    [] ScopeOf(line.parameter) # None /\ line.language \in Types ->
         [so_far EXCEPT !.config.flags[line.language][ScopeOf(line.parameter)] = line.value]
    [] OTHER -> Refused

(* A source of a line, or one for each file that a pattern matches.  The   *)
(* language the line begins with is not used: the file's extension tells.  *)
WithSources(so_far, line) ==
  LET matches == SetToSeq(line.matches)
  IN  [so_far EXCEPT !.config.sources = @ \o
         [i \in DOMAIN matches |->
            [matches |-> {matches[i]}, library |-> line.library, flags |-> line.flags]]]

(* _parseLine; a line that looks like neither is passed over. *)
WithLine(so_far, line) ==
  IF so_far = Refused THEN Refused
  ELSE CASE line.kind = "parameter" -> WithParameter(so_far, line)
         [] line.kind = "source" -> WithSources(so_far, line)
         [] OTHER -> so_far

NothingRead ==
  [builder |-> None,
   config  |-> [include |-> <<>>, sources |-> <<>>, flags |-> [t \in Types |-> NoFlags]]]

(* ConfigParser(path).parse() *)
ParsePrj(lines) ==
  LET after[n \in 0..Len(lines)] ==
        IF n = 0 THEN NothingRead ELSE WithLine(after[n - 1], lines[n])
  IN  after[Len(lines)]

(* _updateConfigIfNeeded: JSON, and the older format when that fails. *)
ReadFile(file) ==
  CASE file.format = "json" -> [builder |-> file.builder, config |-> file.config]
    [] file.format = "prj" -> ParsePrj(file.lines)
    [] file.format = "absent" -> Refused

-----------------------------------------------------------------------------
(* getBuilderByName and getPreferredBuilder *)
BuilderFor(name) ==
  IF name = None THEN Preferred
  ELSE IF name \in Builders THEN name ELSE "fallback"

TypesOf(builder) == IF builder \in {"ghdl", "xvhdl"} THEN {"vhdl"} ELSE Types

StandardFlags(builder, standard) ==
  IF builder \in {"msim", "ghdl"} /\ standard \in {"93", "2002", "2008"}
  THEN <<[tool |-> builder, std |-> standard]>> ELSE <<>>

(* getVunitSources, as added by configure: the sources of each kind the    *)
(* builder can handle and, if there are any, the headers.                  *)
VunitEntries(builder) ==
  LET Added(path, library, flags) ==
        [path |-> path, library |-> library,
         flags |-> [source_specific |-> flags, single |-> flags, dependencies |-> <<>>]]
      sources == FlattenSeq([i \in DOMAIN Vunit |->
                   IF Vunit[i].type \in TypesOf(builder) THEN <<Vunit[i]>> ELSE <<>>])
      headers == IF sources # <<>> /\ "systemverilog" \in TypesOf(builder) THEN Headers ELSE <<>>
  IN  IF builder = "fallback" THEN <<>>
      ELSE [i \in DOMAIN sources |->
              Added(sources[i].path, sources[i].library, StandardFlags(builder, sources[i].standard))]
           \o [i \in DOMAIN headers |-> Added(headers[i], None, <<>>)]
=============================================================================
