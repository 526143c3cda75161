---------------------------- MODULE CompileOrder ----------------------------
(***************************************************************************)
(* What Database.getBuildSequence promises its caller, whatever the        *)
(* algorithm: the order lists a path only once everything the path needs   *)
(* has been provided by the paths before it (or by the path itself), never *)
(* lists a path that has nothing to add, and it stops only when no further *)
(* candidate could be listed under that rule.                              *)
(***************************************************************************)
EXTENDS Sequences, Naturals

CONSTANT Paths

VARIABLES
  provides,    (* Path -> set of design units compiling it makes available *)
  needs,       (* Path -> set of design units it needs to be compiled      *)
  candidates,  (* the paths that may be listed                             *)
  order,       (* the paths listed so far                                  *)
  finished     (* the order has been handed to the caller                  *)

vars == <<provides, needs, candidates, order, finished>>

Available == UNION {provides[order[i]] : i \in DOMAIN order}

Ready(p) == needs[p] \subseteq Available \cup provides[p]

AddsUnits(p) == ~ (provides[p] \subseteq Available)

Init ==
  /\ candidates = {}
  /\ order = <<>>
  /\ finished = FALSE

(* Finding out which paths matter to the target. *)
Choose ==
  /\ ~ finished /\ order = <<>> /\ candidates = {}
  /\ candidates' \in SUBSET Paths
  /\ UNCHANGED <<provides, needs, order, finished>>

List(p) ==
  /\ ~ finished
  /\ p \in candidates
  /\ Ready(p) /\ AddsUnits(p)
  /\ order' = Append(order, p)
  /\ UNCHANGED <<provides, needs, candidates, finished>>

Finish ==
  /\ ~ finished
  /\ \A p \in candidates : ~ (Ready(p) /\ AddsUnits(p))
  /\ finished' = TRUE
  /\ UNCHANGED <<provides, needs, candidates, order>>

Next == Choose \/ Finish \/ \E p \in Paths : List(p)

Spec == Init /\ [][Next]_vars
=============================================================================
