--------------------------- MODULE MCCheckerCore ---------------------------
(***************************************************************************)
(* Instances of CheckerCore: sources s and r, in configurations that can   *)
(* be applied, or that cannot be parsed, or half applied.                  *)
(***************************************************************************)
EXTENDS CheckerCore

CONSTANTS s, r, t1, t2, p1, p2

GoodContents == {[sources |-> {x}, fails |-> "no"] : x \in {s, r}}

MCContents ==
  GoodContents \cup
  {[sources |-> {}, fails |-> "parse"], [sources |-> {s}, fails |-> "configure"]}
=============================================================================
