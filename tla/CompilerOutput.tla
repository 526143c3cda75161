--------------------------- MODULE CompilerOutput ---------------------------
(***************************************************************************)
(* What the builders make of the lines a compiler prints, the flags they   *)
(* give it, and how diagnostics reach the editor.                          *)
(*                                                                         *)
(* A line of output has a level ("error", "warning", "note" or "blank"),   *)
(* the path and position it names or None, a code, whether it is one of    *)
(* those that only say that the compiler gave up, the file its text names, *)
(* and a hint that something is to be compiled again.                      *)
(***************************************************************************)
EXTENDS SourceText

Tools == {"msim", "ghdl", "xvhdl", "fallback"}

(* _shouldIgnoreLine *)
Ignored(tool, line) ==
  CASE tool = "msim" -> line.level \notin {"error", "warning"} \/ line.gives_up
    [] tool = "ghdl" -> line.level = "blank" \/ line.gives_up
    [] tool = "xvhdl" -> line.level \notin {"error", "warning"} \/ line.gives_up
    [] tool = "fallback" -> TRUE

(* Positions are counted from 1 by the compilers and from 0 here. *)
Counted(number) == IF number = None THEN None ELSE number - 1

Severity(line) == IF line.level = "warning" THEN "warning" ELSE "error"

(* _makeRecords: ModelSim may leave out the file, GHDL always gives file,  *)
(* line and column and has no codes, xvhdl has no columns.                 *)
Records(tool, line) ==
  LET record(column) ==
        [checker |-> tool, filename |-> line.path, what |-> line.what, about |-> line.about,
         names |-> line.names, code |-> IF tool = "ghdl" THEN None ELSE line.code,
         severity |-> Severity(line), line |-> Counted(line.line), column |-> column]
  IN  CASE tool = "msim" -> {record(None)}
        [] tool = "ghdl" -> IF line.path = None THEN {} ELSE {record(Counted(line.column))}
        [] tool = "xvhdl" -> {record(None)}
        [] tool = "fallback" -> {}

(* The hints each tool gives: a file is locked, a file has changed, a unit *)
(* is obsolete, or a unit of a library is to be compiled again.            *)
Hints(tool) ==
  CASE tool = "msim" -> {"locked", "recompile"}
    [] tool = "ghdl" -> {"changed", "obsolete"}
    [] tool = "xvhdl" -> {"recompile"}
    [] tool = "fallback" -> {}

(* _searchForRebuilds, and _getRebuilds on its results: a unit counts only *)
(* when the source depends on it, and work is the library compiled into.   *)
Rebuilds(tool, line, path, library, required) ==
  LET hint == line.hint
  IN  IF hint.kind \notin Hints(tool) THEN {}
      ELSE CASE hint.kind = "locked" -> {[kind |-> "path", path |-> path]}
             [] hint.kind = "changed" -> {[kind |-> "path", path |-> hint.path]}
             [] hint.kind = "obsolete" ->
                  {[kind |-> "unit", unit |-> unit] : unit \in {hint.unit} \cap required}
             [] hint.kind = "recompile" ->
                  {[kind |-> "library unit", unit |-> hint.unit,
                    library |-> IF hint.library = Work THEN library ELSE hint.library]}

Pointed(diag, path) == IF diag.filename = None THEN [diag EXCEPT !.filename = path] ELSE diag

(* _buildAndGetDiagnostics, after the compiler has run: output is the set  *)
(* of the lines it has printed.                                            *)
Gathered(tool, output, path, library, required) ==
  LET lines == {line \in output : ~ Ignored(tool, line)}
  IN  [diags    |-> {Pointed(diag, path) : diag \in UNION {Records(tool, line) : line \in lines}},
       rebuilds |-> UNION {Rebuilds(tool, line, path, library, required) : line \in lines}]

-----------------------------------------------------------------------------
(* default_flags of each builder, as what each set of flags is for. *)
DefaultFlags(tool, scope, type) ==
  CASE tool = "msim" /\ scope = "single" -> <<"lint">>
    [] tool = "msim" /\ scope = "dependencies" -> <<"permissive">>
    [] tool = "msim" /\ scope = "all" /\ type = "vhdl" -> <<"explicit">>
    [] tool = "ghdl" /\ scope = "single" /\ type = "vhdl" -> <<"warn">>
    [] tool = "ghdl" /\ scope = "all" /\ type = "vhdl" -> <<"explicit">>
    [] OTHER -> <<>>

(* Database.getFlags *)
FlagsFor(given, scope) == given[scope] \o given.source_specific

NoFlags == [source_specific |-> <<>>, single |-> <<>>, dependencies |-> <<>>]

(* BaseBuilder._getFlags *)
CompileFlags(tool, given, scope, type) ==
  FlagsFor(given, scope) \o DefaultFlags(tool, scope, type) \o DefaultFlags(tool, "all", type)

(* The commands that compile a VHDL source: GHDL analyses it and checks    *)
(* its syntax again with the same flags.                                   *)
Programs(tool) ==
  CASE tool = "msim" -> {"vcom"}
    [] tool = "ghdl" -> {"ghdl -a", "ghdl -s"}
    [] tool = "xvhdl" -> {"xvhdl"}
    [] tool = "fallback" -> {}

Commands(tool, library, flags, path) ==
  {[program |-> program, library |-> library, flags |-> flags, path |-> path] :
     program \in Programs(tool)}

-----------------------------------------------------------------------------
(* _translateSeverity *)
LspSeverity(severity) ==
  CASE severity \in {"style warning", "style error", "info", "style info"} -> "Information"
    [] severity = "warning" -> "Warning"
    [] OTHER -> "Error"

OrZero(number) == IF number = None THEN 0 ELSE number

(* checkerDiagToLspDict *)
LspDiagnostic(diag) ==
  [source |-> diag.checker, message |-> [what |-> diag.what, about |-> diag.about,
                                         names |-> diag.names],
   severity |-> LspSeverity(diag.severity), code |-> diag.code,
   start |-> [line |-> OrZero(diag.line), character |-> OrZero(diag.column)]]

(* lint publishes the diagnostics of every file they name, and of the one  *)
(* that was linted: none clears it.                                        *)
Published(diags, path) ==
  [file \in {diag.filename : diag \in diags} \cup {path} |->
     {LspDiagnostic(diag) : diag \in {diag \in diags : diag.filename = file}}]
=============================================================================
