------------------------ MODULE BuildSequenceProofs ------------------------
(***************************************************************************)
(* Proofs about BuildSequence, for every set of paths and every project:   *)
(* types, the order of the sequence, the bound on the passes, and that the *)
(* result does not depend on the order in which Python iterates over sets. *)
(***************************************************************************)
EXTENDS BuildSequence, FiniteSetTheorems, SequenceTheorems, TLAPS

(* Facts that hold while the search runs. *)
SearchInv ==
  pc = "search" =>
    /\ candidates = {} /\ paths_to_build = {} /\ to_visit = {} /\ paths_built = {}
    /\ units_compiled = {} /\ yielded = <<>> /\ i = 0

(* The units compiled are the ones of the paths yielded. *)
CompiledIsYielded ==
  units_compiled = UNION {Own(yielded[k]) : k \in DOMAIN yielded}

(* A path that was dealt with has nothing more to add. *)
DealtWith ==
  \A p \in (candidates \ paths_to_build) \cup paths_built : Own(p) \subseteq units_compiled

(* As long as a pass has dealt with no path, no path it visited can be     *)
(* compiled: the passes stop only when nothing more can be done.           *)
VisitedInVain ==
  /\ pc = "pass" /\ paths_built = {} =>
       \A p \in paths_to_build \ to_visit : ~ (Deps(p) \subseteq units_compiled \cup Own(p))
  /\ pc = "done" => Closed(units_compiled)

(* Every pass but the last takes at least one path away. *)
PassesLeft == pc = "pass" => i + Cardinality(paths_to_build) < iteration_limit

-----------------------------------------------------------------------------
(* The units and dependencies of a path are units, of a project that is    *)
(* one of the projects considered.                                         *)
LEMMA UnitTypes ==
  ASSUME NEW prj \in Projects, NEW p \in Paths
  PROVE  /\ OwnUnitsIn(prj, p) \subseteq Unit
         /\ DepsIn(prj, p) \subseteq Unit
         /\ \A d \in prj.requires[p] : UnitOfIn(prj, p, d) \in Unit
  BY ProjectsAssumption DEF OwnUnitsIn, DepsIn, UnitOfIn, Unit, Project, Dependency

LEMMA PathsDefiningTypes == \A u : PathsDefining(u) \subseteq Paths
  BY DEF PathsDefining

(* Resolved includes are paths. *)
LEMMA IncludeTypes ==
  ASSUME NEW P, NEW S \in ResolvedIncludes(P)
  PROVE  S \subseteq Paths
<1> DEFINE D == {d \in UNION {project.includes[p] : p \in P} : d # {}}
<1>1. PICK choice \in [D -> Paths] : S = {choice[d] : d \in D}
  BY DEF ResolvedIncludes
<1>2. \A d \in D : choice[d] \in Paths
  OBVIOUS
<1> HIDE DEF D
<1>3. QED
  BY <1>1, <1>2

(* What the paths searched require are units. *)
LEMMA RequiredUnitTypes ==
  ASSUME project \in Projects, NEW P \in SUBSET Paths
  PROVE  RequiredUnits(P) \subseteq Unit
<1>1. ASSUME NEW u \in RequiredUnits(P) PROVE u \in Unit
  <2>1. PICK p \in P : u \in {UnitOfIn(project, p, d) : d \in project.requires[p]}
    BY <1>1 DEF RequiredUnits
  <2>2. QED
    BY <2>1, UnitTypes
<1>2. QED
  BY <1>1

(* While the search runs nothing is built. *)
LEMMA SearchInvariant == Spec => []SearchInv
<1>1. Init => SearchInv
  BY DEF Init, SearchInv
<1>2. SearchInv /\ [Next]_vars => SearchInv'
  BY DEF SearchInv, Next, vars, pass_vars, search_vars, Search, StartBuilding, Yield, Skip,
         Defer, Visiting, NextPass, Return, EndOfPass
<1>3. QED
  BY <1>1, <1>2, PTL DEF Spec

(* TypeOK holds in every state (src/hdl_checker/database.py:678-856). *)
THEOREM TypeCorrect == Spec => []TypeOK
<1>1. Init => TypeOK
  BY ProjectsAssumption DEF Init, TypeOK, Project
<1>2. TypeOK /\ SearchInv /\ [Next]_vars => TypeOK'
  <2> SUFFICES ASSUME TypeOK, SearchInv, [Next]_vars PROVE TypeOK'
    OBVIOUS
  <2>1. CASE Search
    <3>1. NewDepsOf(search_paths) \subseteq Unit
      BY RequiredUnitTypes DEF NewDepsOf, TypeOK
    <3>2. search_paths' \subseteq Paths
      BY <2>1, IncludeTypes, PathsDefiningTypes DEF TypeOK, Search
    <3>3. QED
      BY <2>1, <3>1, <3>2 DEF TypeOK, Search, pass_vars
  <2>2. CASE StartBuilding
    <3>1. PathsToBuild \subseteq Paths
      BY PathsDefiningTypes DEF PathsToBuild
    <3>2. paths_built = {}
      BY <2>2 DEF TypeOK, StartBuilding, SearchInv
    <3>3. QED
      BY <2>2, <3>1, <3>2 DEF TypeOK, StartBuilding, search_vars
  <2>3. ASSUME NEW p \in Paths, Yield(p) PROVE TypeOK'
    <3>1. yielded \in Seq(Paths) /\ yielded' = Append(yielded, p)
      BY <2>3 DEF TypeOK, Yield
    <3>2. yielded' \in Seq(Paths)
      BY <3>1, AppendProperties
    <3>3. QED
      BY <2>3, <3>2, UnitTypes DEF TypeOK, Yield, Visiting, search_vars, Own
  <2>4. ASSUME NEW p \in Paths, Skip(p) PROVE TypeOK'
    BY <2>4 DEF TypeOK, Skip, Visiting, search_vars
  <2>5. ASSUME NEW p \in Paths, Defer(p) PROVE TypeOK'
    BY <2>5 DEF TypeOK, Defer, Visiting, search_vars
  <2>6. CASE NextPass
    <3>1. pc' \in {"pass", "limit reached"}
      BY <2>6, Zenon DEF NextPass
    <3>2. i \in Nat /\ i' = i + 1
      BY <2>6, Zenon DEF NextPass, TypeOK
    <3>3. i' \in Nat
      BY <3>2
    <3>4. /\ paths_to_build' = paths_to_build \ paths_built
          /\ to_visit' = paths_to_build \ paths_built
          /\ paths_built' = {}
          /\ UNCHANGED <<project, search_vars, candidates, units_compiled, yielded>>
      BY <2>6, Zenon DEF NextPass
    <3>5. QED
      BY <3>1, <3>3, <3>4 DEF TypeOK, search_vars
  <2>7. CASE Return
    BY <2>7 DEF TypeOK, Return, search_vars, pass_vars
  <2>8. CASE UNCHANGED vars
    BY <2>8 DEF TypeOK, vars, search_vars, pass_vars
  <2>9. QED
    BY <2>1, <2>2, <2>3, <2>4, <2>5, <2>6, <2>7, <2>8 DEF Next
<1>3. QED
  BY <1>1, <1>2, SearchInvariant, PTL DEF Spec

-----------------------------------------------------------------------------
(* The order of the sequence.                                              *)

(* A call works on one project. *)
LEMMA ProjectIsFixed ==
  ASSUME [Next]_vars
  PROVE  project' = project
BY DEF Next, vars, Search, StartBuilding, Yield, Skip, Defer, Visiting, NextPass, Return

(* The element Append adds, and the ones it keeps. *)
LEMMA AppendedPath ==
  ASSUME NEW s \in Seq(Paths), NEW p \in Paths
  PROVE  /\ DOMAIN s = 1 .. Len(s)
         /\ DOMAIN Append(s, p) = 1 .. Len(s) + 1
         /\ Len(s) \in Nat
         /\ \A k \in DOMAIN s : k \in 1 .. Len(s) + 1 /\ Append(s, p)[k] = s[k]
         /\ Append(s, p)[Len(s) + 1] = p
  OBVIOUS

(* Units of the paths in a sequence, when a path is appended to it. *)
LEMMA UnitsOfAppend ==
  ASSUME NEW prj, NEW s \in Seq(Paths), NEW p \in Paths
  PROVE  UNION {OwnUnitsIn(prj, Append(s, p)[k]) : k \in DOMAIN Append(s, p)}
           = (UNION {OwnUnitsIn(prj, s[k]) : k \in DOMAIN s}) \cup OwnUnitsIn(prj, p)
<1> DEFINE A == {OwnUnitsIn(prj, Append(s, p)[k]) : k \in DOMAIN Append(s, p)}
           B == {OwnUnitsIn(prj, s[k]) : k \in DOMAIN s}
<1>1. ASSUME NEW X \in A PROVE X \in B \cup {OwnUnitsIn(prj, p)}
  <2>1. PICK k \in DOMAIN Append(s, p) : X = OwnUnitsIn(prj, Append(s, p)[k])
    BY <1>1
  <2>2. CASE k = Len(s) + 1
    BY <2>1, <2>2, AppendedPath
  <2>3. CASE k # Len(s) + 1
    BY <2>1, <2>3, AppendedPath
  <2>4. QED
    BY <2>2, <2>3
<1>2. ASSUME NEW X \in B \cup {OwnUnitsIn(prj, p)} PROVE X \in A
  <2>1. CASE X \in B
    BY <2>1, AppendedPath
  <2>2. CASE X = OwnUnitsIn(prj, p)
    <3>1. Len(s) + 1 \in DOMAIN Append(s, p)
      BY AppendedPath
    <3>2. QED
      BY <2>2, <3>1, AppendedPath
  <2>3. QED
    BY <1>2, <2>1, <2>2
<1> HIDE DEF A, B
<1>3. UNION A = (UNION B) \cup OwnUnitsIn(prj, p)
  BY <1>1, <1>2
<1>4. QED
  BY <1>3 DEF A, B

(* The units compiled are those of the paths yielded so far. *)
LEMMA CompiledIsYieldedInvariant == Spec => []CompiledIsYielded
<1>1. Init => CompiledIsYielded
  BY DEF Init, CompiledIsYielded
<1>2. TypeOK /\ CompiledIsYielded /\ [Next]_vars => CompiledIsYielded'
  <2> SUFFICES ASSUME TypeOK, CompiledIsYielded, [Next]_vars PROVE CompiledIsYielded'
    OBVIOUS
  <2>1. ASSUME NEW p \in Paths, Yield(p) PROVE CompiledIsYielded'
    <3>1. /\ yielded' = Append(yielded, p) /\ units_compiled' = units_compiled \cup Own(p)
          /\ project' = project
      BY <2>1 DEF Yield, Visiting
    <3>2. yielded \in Seq(Paths)
      BY DEF TypeOK
    <3>3. QED
      BY <3>1, <3>2, UnitsOfAppend DEF CompiledIsYielded, Own
  <2>2. CASE UNCHANGED <<project, units_compiled, yielded>>
    BY <2>2 DEF CompiledIsYielded, Own
  <2>3. QED
    BY <2>1, <2>2 DEF Next, vars, pass_vars, Search, StartBuilding, Skip, Defer, Visiting,
                      NextPass, Return
<1>3. QED
  BY <1>1, <1>2, TypeCorrect, PTL DEF Spec

(* In the sequence getBuildSequence returns, what a path requires is       *)
(* defined by the paths before it or by itself (database.py:808-823).      *)
THEOREM OrderSound == Spec => []OrderIsSound
<1>1. Init => OrderIsSound
  BY DEF Init, OrderIsSound
<1>2. TypeOK /\ CompiledIsYielded /\ OrderIsSound /\ [Next]_vars => OrderIsSound'
  <2> SUFFICES ASSUME TypeOK, CompiledIsYielded, OrderIsSound, [Next]_vars
               PROVE  OrderIsSound'
    OBVIOUS
  <2>1. ASSUME NEW p \in Paths, Yield(p) PROVE OrderIsSound'
    <3>1. /\ yielded' = Append(yielded, p) /\ project' = project
          /\ Deps(p) \subseteq units_compiled \cup Own(p)
      BY <2>1 DEF Yield, Visiting, PathNeeds
    <3>2. yielded \in Seq(Paths)
      BY DEF TypeOK
    <3> SUFFICES ASSUME NEW k \in DOMAIN yielded', NEW u \in DepsIn(project, yielded'[k]),
                        u \notin OwnUnitsIn(project, yielded'[k])
                 PROVE  \E j \in 1 .. k - 1 : u \in OwnUnitsIn(project, yielded'[j])
      BY <3>1 DEF OrderIsSound, Own, Deps
    <3>3. CASE k \in DOMAIN yielded
      <4>1. yielded'[k] = yielded[k]
        BY <3>1, <3>2, <3>3, AppendedPath
      <4>2. PICK j \in 1 .. k - 1 : u \in OwnUnitsIn(project, yielded[j])
        BY <4>1, <3>3 DEF OrderIsSound, Own, Deps
      <4>3. j \in DOMAIN yielded /\ yielded'[j] = yielded[j]
        BY <3>1, <3>2, <3>3, AppendedPath
      <4>4. QED
        BY <4>2, <4>3
    <3>4. CASE k \notin DOMAIN yielded
      <4>1. k = Len(yielded) + 1 /\ yielded'[k] = p
        BY <3>1, <3>2, <3>4, AppendedPath
      <4>2. u \in UNION {OwnUnitsIn(project, yielded[j]) : j \in DOMAIN yielded}
        BY <3>1, <4>1 DEF CompiledIsYielded, Own, Deps
      <4>3. PICK j \in DOMAIN yielded : u \in OwnUnitsIn(project, yielded[j])
        BY <4>2
      <4>4. j \in 1 .. k - 1 /\ yielded'[j] = yielded[j]
        BY <3>1, <3>2, <4>1, AppendedPath
      <4>5. QED
        BY <4>3, <4>4
    <3>5. QED
      BY <3>3, <3>4
  <2>2. CASE UNCHANGED <<project, yielded>>
    BY <2>2 DEF OrderIsSound, Own, Deps
  <2>3. QED
    BY <2>1, <2>2 DEF Next, vars, pass_vars, Search, StartBuilding, Skip, Defer, Visiting,
                      NextPass, Return
<1>3. QED
  BY <1>1, <1>2, TypeCorrect, CompiledIsYieldedInvariant, PTL DEF Spec

-----------------------------------------------------------------------------
(* The bound on the passes.                                                *)

LEMMA PassesLeftInvariant == Spec => [](PassesLeft /\ PassLimitIsNeverReached)
<1> DEFINE Inv == PassesLeft /\ PassLimitIsNeverReached
<1>1. Init => Inv
  BY DEF Init, PassesLeft, PassLimitIsNeverReached
<1>2. TypeOK /\ SearchInv /\ Inv /\ [Next]_vars => Inv'
  <2> SUFFICES ASSUME TypeOK, SearchInv, Inv, [Next]_vars PROVE Inv'
    OBVIOUS
  <2>1. IsFiniteSet(paths_to_build) /\ IsFiniteSet(candidates)
    BY FinitePathsAssumption, FS_Subset DEF TypeOK
  <2>2. Cardinality(paths_to_build) \in Nat /\ Cardinality(candidates) \in Nat
    BY <2>1, FS_CardinalityType
  <2>3. CASE StartBuilding
    <3>1. /\ paths_to_build' = PathsToBuild /\ candidates' = PathsToBuild
          /\ i' = 0 /\ pc' = "pass"
      BY <2>3 DEF StartBuilding, SearchInv
    <3>2. PathsToBuild \in SUBSET Paths
      BY PathsDefiningTypes DEF PathsToBuild
    <3>3. Cardinality(PathsToBuild) \in Nat
      BY <3>2, FinitePathsAssumption, FS_Subset, FS_CardinalityType
    <3>4. iteration_limit' = Cardinality(PathsToBuild) + 1
      BY <3>1 DEF iteration_limit
    <3>5. i' + Cardinality(paths_to_build)' < iteration_limit'
      BY <3>1, <3>3, <3>4
    <3>6. QED
      BY <3>1, <3>5 DEF PassesLeft, PassLimitIsNeverReached
  <2>4. CASE NextPass
    <3>1. pc = "pass" /\ paths_built # {} /\ candidates' = candidates
      BY <2>4 DEF NextPass, EndOfPass
    <3>2. /\ paths_to_build' = paths_to_build \ paths_built
          /\ i' = i + 1
          /\ pc' = IF i + 1 < iteration_limit THEN "pass" ELSE "limit reached"
      BY <2>4, Zenon DEF NextPass
    <3>3. paths_built \subseteq paths_to_build /\ i \in Nat
      BY DEF TypeOK
    <3>4. Cardinality(paths_to_build \ paths_built) < Cardinality(paths_to_build)
      <4>1. paths_to_build \ paths_built # paths_to_build
        BY <3>1, <3>3
      <4>2. paths_to_build \ paths_built \in SUBSET paths_to_build
        OBVIOUS
      <4>3. /\ Cardinality(paths_to_build \ paths_built) \in Nat
            /\ Cardinality(paths_to_build \ paths_built) <= Cardinality(paths_to_build)
            /\ Cardinality(paths_to_build \ paths_built) # Cardinality(paths_to_build)
        BY <2>1, <4>1, <4>2, FS_Subset, FS_CardinalityType
      <4>4. QED
        BY <4>3, <2>2
    <3>5. Cardinality(paths_to_build \ paths_built) \in Nat
      BY <2>1, FS_Subset, FS_CardinalityType
    <3>6. i + Cardinality(paths_to_build) < iteration_limit
      BY <3>1 DEF PassesLeft
    <3>7. iteration_limit \in Nat /\ iteration_limit' = iteration_limit
      BY <2>2, <3>1 DEF iteration_limit
    <3>8. i + 1 < iteration_limit /\ (i + 1) + Cardinality(paths_to_build \ paths_built) < iteration_limit
      BY <2>2, <3>3, <3>4, <3>5, <3>6, <3>7
    <3>9. pc' = "pass"
      BY <3>2, <3>8
    <3>10. i' + Cardinality(paths_to_build)' < iteration_limit'
      BY <3>2, <3>7, <3>8
    <3>11. QED
      BY <3>9, <3>10 DEF PassesLeft, PassLimitIsNeverReached
  <2>5. CASE Return
    BY <2>5 DEF Return, PassesLeft, PassLimitIsNeverReached
  <2>6. CASE UNCHANGED <<pc, i, paths_to_build, candidates>>
    BY <2>6 DEF PassesLeft, PassLimitIsNeverReached, iteration_limit
  <2>7. QED
    BY <2>3, <2>4, <2>5, <2>6 DEF Next, vars, pass_vars, Search, Yield, Skip, Defer, Visiting
<1>3. QED
  BY <1>1, <1>2, TypeCorrect, SearchInvariant, PTL DEF Spec

(* n + 1 passes are enough for n paths, for every project: the loop of     *)
(* _getBuildSequence never falls out of its range (database.py:785, 856).  *)
THEOREM PassesSuffice == Spec => []PassLimitIsNeverReached
BY PassesLeftInvariant, PTL

-----------------------------------------------------------------------------
(* The result does not depend on the order of the sets.                    *)

(* What was dealt with is compiled, and a pass without progress means that *)
(* nothing can be compiled any more.                                       *)
LEMMA NothingLeftInvariant == Spec => [](DealtWith /\ VisitedInVain)
<1> DEFINE Inv == DealtWith /\ VisitedInVain
<1>1. Init => Inv
  BY DEF Init, DealtWith, VisitedInVain
<1>2. TypeOK /\ SearchInv /\ Inv /\ [Next]_vars => Inv'
  <2> SUFFICES ASSUME TypeOK, SearchInv, Inv, [Next]_vars PROVE Inv'
    OBVIOUS
  <2>1. CASE Search
    BY <2>1 DEF Search, SearchInv, DealtWith, VisitedInVain, pass_vars
  <2>2. CASE StartBuilding
    BY <2>2 DEF StartBuilding, SearchInv, DealtWith, VisitedInVain
  <2>3. ASSUME NEW p \in Paths, Yield(p) PROVE Inv'
    <3>1. /\ project' = project /\ candidates' = candidates /\ pc' = "pass"
          /\ paths_to_build' = paths_to_build
          /\ paths_built' = paths_built \cup {p}
          /\ units_compiled' = units_compiled \cup Own(p)
      BY <2>3 DEF Yield, Visiting
    <3>2. DealtWith'
      BY <3>1 DEF DealtWith, Own
    <3>3. VisitedInVain'
      BY <3>1 DEF VisitedInVain
    <3>4. QED
      BY <3>2, <3>3
  <2>4. ASSUME NEW p \in Paths, Skip(p) PROVE Inv'
    <3>1. /\ project' = project /\ candidates' = candidates /\ pc' = "pass"
          /\ paths_to_build' = paths_to_build
          /\ paths_built' = paths_built \cup {p}
          /\ units_compiled' = units_compiled
          /\ Own(p) \subseteq units_compiled
      BY <2>4 DEF Skip, Visiting, NewUnits
    <3>2. DealtWith'
      BY <3>1 DEF DealtWith, Own
    <3>3. VisitedInVain'
      BY <3>1 DEF VisitedInVain
    <3>4. QED
      BY <3>2, <3>3
  <2>5. ASSUME NEW p \in Paths, Defer(p) PROVE Inv'
    <3>1. /\ project' = project /\ candidates' = candidates /\ pc' = pc /\ pc = "pass"
          /\ paths_to_build' = paths_to_build
          /\ to_visit' = to_visit \ {p}
          /\ UNCHANGED <<paths_built, units_compiled>>
          /\ ~ (Deps(p) \subseteq units_compiled \cup Own(p))
      BY <2>5 DEF Defer, Visiting, PathNeeds
    <3>2. DealtWith'
      BY <3>1 DEF DealtWith, Own
    <3>3. VisitedInVain'
      BY <3>1 DEF VisitedInVain, Own, Deps
    <3>4. QED
      BY <3>2, <3>3
  <2>6. CASE NextPass
    <3>1. /\ project' = project /\ candidates' = candidates
          /\ units_compiled' = units_compiled
          /\ paths_to_build' = paths_to_build \ paths_built
          /\ to_visit' = paths_to_build'
          /\ paths_built' = {}
          /\ pc' # "done"
      BY <2>6 DEF NextPass
    <3>2. DealtWith'
      BY <3>1 DEF DealtWith, Own
    <3>3. VisitedInVain'
      BY <3>1 DEF VisitedInVain
    <3>4. QED
      BY <3>2, <3>3
  <2>7. CASE Return
    <3>1. /\ UNCHANGED <<project, candidates, units_compiled, paths_built, paths_to_build>>
          /\ pc = "pass" /\ pc' = "done" /\ to_visit = {} /\ paths_built = {}
      BY <2>7 DEF Return, EndOfPass, pass_vars
    <3>2. DealtWith'
      BY <3>1 DEF DealtWith, Own
    <3>3. Closed(units_compiled)
      <4> SUFFICES ASSUME NEW p \in candidates, Deps(p) \subseteq units_compiled \cup Own(p)
                   PROVE  Own(p) \subseteq units_compiled
        BY DEF Closed
      <4>1. p \notin paths_to_build
        BY <3>1 DEF VisitedInVain
      <4>2. QED
        BY <4>1 DEF DealtWith
    <3>4. VisitedInVain'
      BY <3>1, <3>3 DEF VisitedInVain, Closed, Own, Deps
    <3>5. QED
      BY <3>2, <3>4
  <2>8. CASE UNCHANGED vars
    BY <2>8 DEF vars, pass_vars, DealtWith, VisitedInVain, Closed, Own, Deps
  <2>9. QED
    BY <2>1, <2>2, <2>3, <2>4, <2>5, <2>6, <2>7, <2>8 DEF Next
<1>3. QED
  BY <1>1, <1>2, TypeCorrect, SearchInvariant, PTL DEF Spec

(* Whatever is yielded had to be: it is in every closed set of units.      *)
LEMMA LeastInvariant == Spec => []CompiledInEveryClosedSet
<1>1. Init => CompiledInEveryClosedSet
  BY DEF Init, CompiledInEveryClosedSet
<1>2. TypeOK /\ SearchInv /\ CompiledInEveryClosedSet /\ [Next]_vars => CompiledInEveryClosedSet'
  <2> SUFFICES ASSUME TypeOK, SearchInv, CompiledInEveryClosedSet, [Next]_vars
               PROVE  CompiledInEveryClosedSet'
    OBVIOUS
  <2>1. CASE StartBuilding
    BY <2>1 DEF StartBuilding, SearchInv, CompiledInEveryClosedSet
  <2>2. ASSUME NEW p \in Paths, Yield(p) PROVE CompiledInEveryClosedSet'
    <3>1. /\ project' = project /\ candidates' = candidates
          /\ units_compiled' = units_compiled \cup Own(p)
          /\ Deps(p) \subseteq units_compiled \cup Own(p)
          /\ p \in candidates
      BY <2>2 DEF Yield, Visiting, PathNeeds, TypeOK
    <3>2. ASSUME NEW S \in SUBSET AllOwnUnits, Closed(S) PROVE units_compiled \cup Own(p) \subseteq S
      <4>1. units_compiled \subseteq S
        BY <3>2 DEF CompiledInEveryClosedSet
      <4>2. Deps(p) \subseteq S \cup Own(p)
        BY <3>1, <4>1
      <4>3. QED
        BY <3>1, <3>2, <4>1, <4>2 DEF Closed
    <3>3. QED
      BY <3>1, <3>2 DEF CompiledInEveryClosedSet, AllOwnUnits, Closed, Own, Deps
  <2>3. CASE UNCHANGED <<project, candidates, units_compiled>>
    BY <2>3 DEF CompiledInEveryClosedSet, AllOwnUnits, Closed, Own, Deps
  <2>4. QED
    BY <2>1, <2>2, <2>3 DEF Next, vars, pass_vars, Search, Skip, Defer, Visiting, NextPass, Return
<1>3. QED
  BY <1>1, <1>2, TypeCorrect, SearchInvariant, PTL DEF Spec

(* The units getBuildSequence has compiled are the least closed set: they  *)
(* are the same in whatever order Python iterates over the paths.          *)
THEOREM ResultUnique == Spec => []ResultIndependentOfSetOrder
<1>1. DealtWith /\ VisitedInVain /\ CompiledInEveryClosedSet => ResultIndependentOfSetOrder
  BY DEF VisitedInVain, ResultIndependentOfSetOrder
<1>2. QED
  BY <1>1, NothingLeftInvariant, LeastInvariant, PTL

-----------------------------------------------------------------------------
(* The call implements CompileOrder: the search and the bookkeeping of the *)
(* passes are invisible, every path yielded may be listed next, and the    *)
(* call returns only when nothing else may be listed.                      *)
LEMMA AvailableIsCompiled ==
  ASSUME TypeOK, CompiledIsYielded
  PROVE  CompileOrder!Available = units_compiled
<1>1. yielded \in Seq(Paths)
  BY DEF TypeOK
<1>2. \A k \in DOMAIN yielded : yielded[k] \in Paths
  BY <1>1
<1>3. QED
  BY <1>2 DEF CompiledIsYielded, CompileOrder!Available

THEOREM SequenceImplementsCompileOrder == Spec => ImplementsCompileOrder
<1>1. Init => CompileOrder!Init
  BY DEF Init, CompileOrder!Init
<1>2. /\ TypeOK /\ SearchInv /\ CompiledIsYielded /\ DealtWith /\ VisitedInVain
      /\ VisitedInVain' /\ [Next]_vars
      => [CompileOrder!Next]_(CompileOrder!vars)
  <2> SUFFICES ASSUME TypeOK, SearchInv, CompiledIsYielded, DealtWith, VisitedInVain,
                      VisitedInVain', [Next]_vars
               PROVE  [CompileOrder!Next]_(CompileOrder!vars)
    OBVIOUS
  <2>1. [p \in Paths |-> Own(p)]' = [p \in Paths |-> Own(p)]
    BY ProjectIsFixed DEF Own
  <2>2. [p \in Paths |-> Deps(p)]' = [p \in Paths |-> Deps(p)]
    BY ProjectIsFixed DEF Deps
  <2>3. ASSUME UNCHANGED <<candidates, yielded>>, (pc' = "done") = (pc = "done")
        PROVE  UNCHANGED CompileOrder!vars
    BY <2>1, <2>2, <2>3 DEF CompileOrder!vars
  <2>4. CASE Search
    BY <2>3, <2>4 DEF Search, pass_vars
  <2>5. CASE StartBuilding
    <3>1. /\ candidates = {} /\ yielded = <<>> /\ yielded' = yielded /\ pc # "done" /\ pc' # "done"
          /\ candidates' = PathsToBuild
      BY <2>5 DEF StartBuilding, SearchInv
    <3>2. candidates' \in SUBSET Paths
      BY <3>1, PathsDefiningTypes DEF PathsToBuild
    <3>3. CompileOrder!Choose
      BY <2>1, <2>2, <3>1, <3>2 DEF CompileOrder!Choose
    <3>4. QED
      BY <3>3 DEF CompileOrder!Next
  <2>6. ASSUME NEW p \in Paths, Yield(p) PROVE CompileOrder!List(p)
    <3>1. /\ yielded' = Append(yielded, p) /\ candidates' = candidates
          /\ pc' # "done" /\ pc # "done" /\ p \in candidates
          /\ Deps(p) \subseteq units_compiled \cup Own(p)
          /\ ~ (Own(p) \subseteq units_compiled)
      BY <2>6 DEF Yield, Visiting, PathNeeds, NewUnits, TypeOK
    <3>2. CompileOrder!Ready(p) /\ CompileOrder!AddsUnits(p)
      BY <3>1, AvailableIsCompiled DEF CompileOrder!Ready, CompileOrder!AddsUnits
    <3>3. QED
      BY <2>1, <2>2, <3>1, <3>2 DEF CompileOrder!List
  <2>7. ASSUME NEW p \in Paths, Skip(p) \/ Defer(p) PROVE UNCHANGED CompileOrder!vars
    BY <2>3, <2>7 DEF Skip, Defer, Visiting
  <2>8. CASE NextPass
    <3>1. pc # "done" /\ pc' # "done" /\ UNCHANGED <<candidates, yielded>>
      BY <2>8 DEF NextPass, EndOfPass
    <3>2. QED
      BY <2>3, <3>1
  <2>9. CASE Return
    <3>1. pc # "done" /\ pc' = "done" /\ UNCHANGED <<candidates, yielded, units_compiled, project>>
      BY <2>9 DEF Return, EndOfPass, pass_vars
    <3>2. Closed(units_compiled)
      BY <3>1 DEF VisitedInVain, Closed, Own, Deps
    <3>3. ASSUME NEW p \in candidates
          PROVE  ~ (CompileOrder!Ready(p) /\ CompileOrder!AddsUnits(p))
      <4>1. p \in Paths
        BY DEF TypeOK
      <4>2. QED
        BY <3>2, <4>1, AvailableIsCompiled DEF Closed, CompileOrder!Ready, CompileOrder!AddsUnits
    <3>4. CompileOrder!Finish
      BY <2>1, <2>2, <3>1, <3>3 DEF CompileOrder!Finish
    <3>5. QED
      BY <3>4 DEF CompileOrder!Next
  <2>10. CASE UNCHANGED vars
    BY <2>3, <2>10 DEF vars, pass_vars
  <2>11. QED
    BY <2>4, <2>5, <2>6, <2>7, <2>8, <2>9, <2>10 DEF Next, CompileOrder!Next
<1>3. QED
  BY <1>1, <1>2, TypeCorrect, SearchInvariant, CompiledIsYieldedInvariant, NothingLeftInvariant, PTL
     DEF Spec, ImplementsCompileOrder, CompileOrder!Spec

-----------------------------------------------------------------------------
(* The search.                                                             *)

(* What has been found so far: everything the searched paths require is    *)
(* recorded, and every path that defines a recorded unit, and a match of   *)
(* each include of a searched path, is searched or about to be.            *)
Reached == searched \cup search_paths

FoundSoFar ==
  /\ project.target \in Reached
  /\ pc # "search" => search_paths = {}
  /\ RequiredUnits(searched) \subseteq units
  /\ \A u \in units : PathsDefining(u) \subseteq Reached
  /\ \A p \in searched : \A d \in project.includes[p] : d = {} \/ d \cap Reached # {}

(* Each include of the paths P has a match among those resolved. *)
LEMMA IncludesAreResolved ==
  ASSUME NEW P, NEW S \in ResolvedIncludes(P), NEW p \in P, NEW d \in project.includes[p], d # {}
  PROVE  d \cap S # {}
<1> DEFINE D == {x \in UNION {project.includes[q] : q \in P} : x # {}}
<1>1. PICK choice \in [D -> Paths] : S = {choice[x] : x \in D} /\ \A x \in D : choice[x] \in x
  BY DEF ResolvedIncludes
<1>2. d \in D
  OBVIOUS
<1>3. choice[d] \in d /\ choice[d] \in S
  BY <1>1, <1>2
<1>4. QED
  BY <1>3

(* The lookup depends on the project only. *)
LEMMA LookupIsFixed ==
  ASSUME project' = project
  PROVE  \A u : PathsDefining(u)' = PathsDefining(u)
  BY DEF PathsDefining

LEMMA FoundSoFarInvariant == Spec => []FoundSoFar
<1>1. Init => FoundSoFar
  BY DEF Init, FoundSoFar, Reached, RequiredUnits
<1>2. FoundSoFar /\ [Next]_vars => FoundSoFar'
  <2> SUFFICES ASSUME FoundSoFar, [Next]_vars PROVE FoundSoFar'
    OBVIOUS
  <2>0. project' = project
    BY ProjectIsFixed
  <2>1. CASE Search
    <3> DEFINE new == NewDepsOf(search_paths)
    <3>1. PICK included \in ResolvedIncludes(search_paths) :
             search_paths' = included \cup UNION {PathsDefining(u) : u \in new}
      BY <2>1 DEF Search
    <3>2. /\ pc = "search" /\ pc' = pc /\ units' = units \cup new
          /\ searched' = Reached /\ Reached \subseteq Reached'
      BY <2>1 DEF Search, Reached
    <3>3. RequiredUnits(searched') \subseteq units'
      <4>1. RequiredUnits(Reached) = RequiredUnits(searched) \cup RequiredUnits(search_paths)
        BY DEF RequiredUnits, Reached
      <4>2. QED
        BY <3>2, <4>1 DEF FoundSoFar, NewDepsOf
    <3>4. ASSUME NEW u \in units' PROVE PathsDefining(u) \subseteq Reached'
      <4>1. CASE u \in units
        BY <3>2, <4>1 DEF FoundSoFar
      <4>2. CASE u \in new
        BY <3>1, <4>2 DEF Reached
      <4>3. QED
        BY <3>2, <4>1, <4>2
    <3>5. ASSUME NEW p \in searched', NEW d \in project.includes[p], d # {}
          PROVE  d \cap Reached' # {}
      <4>1. CASE p \in searched
        BY <3>2, <3>5, <4>1 DEF FoundSoFar
      <4>2. CASE p \in search_paths
        <5>1. d \cap included # {}
          BY <3>5, <4>2, IncludesAreResolved
        <5>2. QED
          BY <3>1, <5>1 DEF Reached
      <4>3. QED
        BY <3>2, <4>1, <4>2 DEF Reached
    <3>6. RequiredUnits(searched)' \subseteq units'
      BY <2>0, <3>3 DEF RequiredUnits
    <3>7. \A u : PathsDefining(u)' = PathsDefining(u)
      BY <2>0, LookupIsFixed
    <3>8. project'.target \in Reached'
      BY <2>0, <3>2 DEF FoundSoFar
    <3>9. QED
      BY <2>0, <3>2, <3>4, <3>5, <3>6, <3>7, <3>8 DEF FoundSoFar
  <2>2. CASE UNCHANGED search_vars /\ (pc # "search" \/ search_paths = {} \/ pc' = "search")
    <3>1. Reached' = Reached /\ units' = units /\ searched' = searched /\ search_paths' = search_paths
      BY <2>2 DEF search_vars, Reached
    <3>2. RequiredUnits(searched)' = RequiredUnits(searched)
      BY <2>0, <3>1 DEF RequiredUnits
    <3>3. \A u : PathsDefining(u)' = PathsDefining(u)
      BY <2>0, LookupIsFixed
    <3>4. QED
      BY <2>0, <2>2, <3>1, <3>2, <3>3 DEF FoundSoFar
  <2>3. QED
    BY <2>1, <2>2 DEF Next, vars, StartBuilding, Yield, Skip, Defer, Visiting, NextPass, Return,
                      EndOfPass
<1>3. QED
  BY <1>1, <1>2, PTL DEF Spec

(* No dependency is left out of the search: when it ends, all that the     *)
(* paths it reached require is recorded, and all the paths that define it  *)
(* were searched (getDependenciesUnits, database.py:694-735).              *)
THEOREM SearchComplete == Spec => []SearchIsComplete
<1>1. FoundSoFar => SearchIsComplete
  <2> SUFFICES ASSUME FoundSoFar, pc # "search" PROVE SearchIsComplete
    BY DEF SearchIsComplete
  <2>1. Reached = searched
    BY DEF FoundSoFar, Reached
  <2>2. \A p \in searched : RequiredUnits({p}) \subseteq units
    BY DEF FoundSoFar, RequiredUnits
  <2>3. QED
    BY <2>1, <2>2 DEF FoundSoFar, SearchIsComplete
<1>2. QED
  BY <1>1, FoundSoFarInvariant, PTL
=============================================================================
