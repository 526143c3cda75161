----------------------------- MODULE MCProject -----------------------------
(***************************************************************************)
(* Instances of Project: two files that define u, one that uses it in its  *)
(* second text, and a temporary one; two configuration files that include  *)
(* each other, a folder without one; a project file that is replaced by    *)
(* one of the older format, which lists a source twice, and that by one    *)
(* that cannot be read.                                                    *)
(***************************************************************************)
EXTENDS Project

CONSTANTS a, b, c, t, u, l1, l2, f1, f2, top, one, two

MCPaths == {a, b, c, t}
MCFileTypeOf == [p \in MCPaths |-> "vhdl"]
MCFolderOf == [f \in {f1, f2} |-> IF f = f1 THEN one ELSE two]
MCDefault == [f \in {top, one, two} |-> IF f = two THEN f2 ELSE None]
MCRtlIn == [f \in {top, one, two} |-> CASE f = top -> {} [] f = one -> {a} [] f = two -> {b}]

MCFlag == {f1, f2, top, one, two, l2} \cup StandardFlag
Flags(tag) == [type \in Types |-> [single |-> <<tag>>, dependencies |-> <<>>, global |-> <<>>]]
Says(units, uses) == [units |-> units, uses |-> uses]
Source(p, library) == [matches |-> {p}, library |-> library, flags |-> <<>>]
Near(node) == [node |-> node, absolute |-> FALSE]
Far(node) == [node |-> node, absolute |-> TRUE]

MCTexts ==
  [p \in MCPaths |->
     CASE p = a -> <<Says({u}, {})>>
       [] p = b -> <<Says({u}, {})>>
       [] p = c -> <<Says({}, {<<l1, u>>}), Says({}, {<<l2, u>>, <<None, u>>})>>
       [] p = t -> <<Says({u}, {<<None, u>>})>>]

MCContent ==
  [f \in {f1, f2} |->
     IF f = f1
     THEN [include |-> <<Near(two)>>, flags |-> Flags(f1),
           sources |-> <<>>]
     ELSE [include |-> <<Near(f1), Far(f1)>>, flags |-> Flags(f2),
           sources |-> NoSources]]

Param(name, language, value) ==
  [kind |-> "parameter", parameter |-> name, language |-> language, value |-> value]

MCRootFiles ==
  <<[format |-> "json", builder |-> None,
     config |-> [include |-> <<Far(f1), Far(one)>>, flags |-> Flags(top), sources |-> <<Source(c, l1)>>]],
    [format |-> "prj",
     lines  |-> <<Param("builder", None, "fallback"),
                  Param("single_build_flags", "vhdl", <<one>>),
                  Param("single_build_flags", "vhdl", <<two>>), [kind |-> "blank"],
                  [kind |-> "source", matches |-> {c}, library |-> l1, flags |-> <<one>>],
                  [kind |-> "source", matches |-> {c}, library |-> l2, flags |-> <<l2>>]>>],
    [format |-> "prj", lines |-> <<Param("global_build_flags", None, <<one>>)>>]>>

MCVunit == <<[path |-> a, type |-> "vhdl", library |-> l2, standard |-> "2008"]>>
MCHeaders == <<>>
=============================================================================
