----------------------------- MODULE MCRebuild -----------------------------
(***************************************************************************)
(* Instances of Rebuild: four paths a, b, c, d, each may need the earlier. *)
(***************************************************************************)
EXTENDS Rebuild

CONSTANTS a, b, c, d

MCPaths == {a, b, c, d}

Diamond == [p \in MCPaths |-> CASE p = a -> {} [] p = b -> {a} [] p = c -> {a} [] p = d -> {b, c}]
Chain   == [p \in MCPaths |-> CASE p = b -> {a} [] p = c -> {b} [] OTHER -> {}]

MCGraphs == {Diamond, Chain}
=============================================================================
