---------------------------- MODULE MCWorkspace ----------------------------
(***************************************************************************)
(* A file of packages and an entity that uses them.  One text of the file  *)
(* begins with a tag and has one package, the other has a second package   *)
(* with a function and a body.  One text of the entity uses the first      *)
(* package and has a port that is not used, the other uses the second      *)
(* package, by the name of its library, and calls the function.            *)
(***************************************************************************)
EXTENDS Navigation

CONSTANTS pkg, top, a, b

MCLengthOf == [w \in {"work", "std", "lib", "pk", "qk", "fn", "top", "clk"} |->
                 CASE w = "work" -> 4 [] w \in {"pk", "qk", "fn"} -> 2 [] OTHER -> 3]

Lower(word) == [word |-> word, caps |-> FALSE]
Upper(word) == [word |-> word, caps |-> TRUE]

Of(kind, names, at) ==
  [kind |-> kind, names |-> names, library |-> None, at |-> at, gap |-> 1, where |-> "code",
   closed |-> TRUE, lower |-> TRUE]

Vhdl(lines) == [type |-> "vhdl", lines |-> lines]

TagFirst ==
  Vhdl(<<[Of("tag", <<>>, 3) EXCEPT !.where = "comment"],
         Of("package", <<Lower("pk")>>, 7)>>)

Declaring ==
  Vhdl(<<Of("package", <<Lower("pk")>>, 7),
         Of("package", <<Upper("qk")>>, 7),
         Of("function", <<Lower("fn")>>, 2),
         Of("package body", <<Lower("qk")>>, 0)>>)

Unused ==
  Vhdl(<<[Of("use", <<Lower("pk")>>, 4) EXCEPT !.library = Lower("work")],
         Of("entity", <<Lower("top")>>, 6),
         Of("port", <<Lower("clk")>>, 4)>>)

Calling ==
  Vhdl(<<Of("library", <<Lower("lib")>>, 8),
         [Of("use", <<Lower("qk")>>, 4) EXCEPT !.library = Lower("lib")],
         Of("entity", <<Lower("top")>>, 6),
         Of("call", <<Lower("fn")>>, 2)>>)

(* What the other parser finds, which no text above needs: a class that is  *)
(* declared counts as required, and what follows a parenthesis in a comment *)
(* is read.                                                                 *)
ASSUME SystemVerilogExample ==
  LET text == [type |-> "systemverilog", lines |->
                 <<Of("package", <<Lower("pk")>>, 7),
                   Of("class", <<Upper("qk")>>, 0),
                   [Of("scope", <<Lower("fn")>>, 8) EXCEPT !.where = "comment"],
                   [Of("scope", <<Lower("top")>>, 8) EXCEPT !.where = "freed"],
                   Of("scope", <<Lower("std")>>, 2)>>]
  IN  /\ {unit.name.word : unit \in UnitsOf(text)} = {"pk"}
      /\ {d.name.word : d \in DependenciesOf(text)} = {"qk", "top"}
      /\ DependenciesOf([text EXCEPT !.type = "verilog"]) = {}
      /\ \A unit \in UnitsOf(text) : ~ SameName(unit.name, Identifier(Upper("pk"), "systemverilog"))
                                     /\ SameName(unit.name, Identifier(Upper("pk"), "vhdl"))

(* Each builder answers its own hints only.                                 *)
ASSUME HintExample ==
  \A tool \in Tools :
    LET Hinting(kind) == [hint |-> [kind |-> kind, path |-> top, unit |-> "pk", library |-> "work"]]
        Asked(kind)   == Rebuilds(tool, Hinting(kind), pkg, "lib", {"pk"})
    IN  /\ Asked("locked") = IF tool = "msim" THEN {[kind |-> "path", path |-> pkg]} ELSE {}
        /\ Asked("changed") = IF tool = "ghdl" THEN {[kind |-> "path", path |-> top]} ELSE {}
        /\ Asked("recompile") = IF tool \in {"msim", "xvhdl"}
                                THEN {[kind |-> "library unit", unit |-> "pk", library |-> "lib"]}
                                ELSE {}

MCTexts == [f \in {pkg, top} |-> IF f = pkg THEN <<TagFirst, Declaring>> ELSE <<Unused, Calling>>]
MCLibraryOf == [f \in {pkg, top} |-> "lib"]
MCFlagsOf == [f \in {pkg, top} |-> [source_specific |-> <<"of the source">>, single |-> <<"single">>,
                                    dependencies |-> <<"dependencies">>]]

Symmetry == Permutations({a, b})
=============================================================================
