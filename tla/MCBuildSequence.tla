-------------------------- MODULE MCBuildSequence --------------------------
(***************************************************************************)
(* Instances of BuildSequence.  Four paths: the target t and a, b, c.      *)
(***************************************************************************)
EXTENDS BuildSequence

CONSTANTS t, a, b, c,            \* paths
          nt, na, nb, nc, nx,    \* names; no path defines nx
          work, lib, ieee        \* libraries; ieee is built in

MCPaths == {t, a, b, c}
MCNames == {nt, na, nb, nc, nx}
MCLibraries == {work, lib, ieee}
MCBuiltin == {ieee}

Dep(l, n) == [library |-> l, name |-> n]

NoIncludes == [p \in MCPaths |-> {}]
OneUnitEach == [p \in MCPaths |->
  CASE p = t -> {nt} [] p = a -> {na} [] p = b -> {nb} [] p = c -> {nc}]

(* Every dependency graph on one unit per path, in one library. *)
GraphProjects ==
  {[target   |-> t,
    library  |-> [p \in MCPaths |-> lib],
    defines  |-> OneUnitEach,
    requires |-> [p \in MCPaths |-> {Dep(lib, n) : n \in g[p]}],
    includes |-> NoIncludes] :
     g \in {f \in [MCPaths -> SUBSET {nt, na, nb, nc}] :
              \A p \in MCPaths : f[p] \cap OneUnitEach[p] = {}}}

(* Libraries that are unknown, wrong, built in or "work"; "use lib.all";   *)
(* units nobody defines; two paths for one unit, paths with two units;     *)
(* includes, one of them ambiguous.                                        *)
ShapeProjects ==
  {[target   |-> t,
    library  |-> [p \in MCPaths |-> IF p = b THEN lb ELSE IF p = c THEN lc ELSE lib],
    defines  |-> [p \in MCPaths |->
                    CASE p = t -> {nt} [] p = a -> {na} [] p = b -> {nb, nc} [] p = c -> dc],
    requires |-> [p \in MCPaths |->
                    CASE p = t -> {Dep(lib, na), Dep(lib, All)}
                      [] p = a -> ra
                      [] p = b -> rb
                      [] p = c -> {}],
    includes |-> [p \in MCPaths |-> IF p = t THEN it ELSE {}]] :
     lb \in {lib, work, None}, lc \in {lib, ieee},
     dc \in {{nc}, {na, nc}, {}},
     ra \in {{Dep(lib, nb)}, {Dep(None, nb), Dep(lib, nc)}, {Dep(ieee, nx)}, {Dep(ieee, nc)}},
     rb \in {{}, {Dep(lib, nx)}, {Dep(None, nc), Dep(lib, nt)}},
     it \in {{}, {{b}}, {{b, c}, {}}}}

(* a and b include each other, the target includes a. *)
IncludeCycleProjects ==
  {[target   |-> t,
    library  |-> [p \in MCPaths |-> lib],
    defines  |-> [p \in MCPaths |-> IF p = t THEN {nt} ELSE {}],
    requires |-> [p \in MCPaths |-> {}],
    includes |-> [p \in MCPaths |->
                    CASE p = t -> {{a}} [] p = a -> {{b}} [] p = b -> {{a}} [] p = c -> {}]]}

MCProjects == GraphProjects \cup ShapeProjects
=============================================================================
