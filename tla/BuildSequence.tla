--------------------------- MODULE BuildSequence ---------------------------
(***************************************************************************)
(* Database.getBuildSequence: which paths must be compiled before a target *)
(* and in which order.  Two loops of src/hdl_checker/database.py, one after *)
(* the other:                                                              *)
(*                                                                         *)
(*   getDependenciesUnits  a breadth-first search over "requires a unit",  *)
(*                         "is defined by a path" and "includes a path"    *)
(*   _getBuildSequence     passes over the paths found; a pass visits each *)
(*                         path once, in the order a Python set yields it  *)
(*                                                                         *)
(* The set order is unspecified, so a pass visits its paths in any order,  *)
(* and set.pop() on an ambiguous include returns any of the matches.       *)
(*                                                                         *)
(* What the database knows while one call runs (libraries, units,          *)
(* dependencies) is the variable project; it does not change here.  The    *)
(* files being edited while a call runs is the subject of SourceCache.     *)
(***************************************************************************)
EXTENDS Naturals, Sequences, FiniteSets

CONSTANTS
  Paths,      (* the sources in the database                                *)
  Names,      (* names of design units                                      *)
  Libraries,  (* names of libraries                                         *)
  None,       (* Python's None: a library that is not known                 *)
  All,        (* the name in "use lib.all"                                  *)
  Builtin,    (* libraries the builder provides (builtin_libraries)         *)
  Projects    (* the project structures considered                          *)

Dependency == [library : Libraries \cup {None}, name : Names \cup {All}]

Project ==
  [target   : Paths,
   library  : [Paths -> Libraries \cup {None}],
   defines  : [Paths -> SUBSET Names],
   requires : [Paths -> SUBSET Dependency],
   includes : [Paths -> SUBSET SUBSET Paths]]

ASSUME FinitePathsAssumption == IsFiniteSet(Paths)
ASSUME ProjectsAssumption == Projects \subseteq Project
ASSUME NamesAssumption == None \notin Libraries /\ All \notin Names

VARIABLES
  project,        (* what the database holds, and the target of the call    *)
  pc,             (* where the call is                                      *)
  search_paths,   (* getDependenciesUnits: paths to search next             *)
  searched,       (* history: every path searched so far                    *)
  units,          (* units found so far                                     *)
  candidates,     (* paths_to_build as first computed                       *)
  paths_to_build, (* _getBuildSequence: paths not dealt with yet            *)
  to_visit,       (* paths the running pass has not visited                 *)
  paths_built,    (* paths the running pass dealt with                      *)
  units_compiled, (* units made available by the paths yielded              *)
  yielded,        (* the paths yielded, in order                            *)
  i               (* the pass counter                                       *)

search_vars == <<search_paths, searched, units>>
pass_vars   == <<paths_to_build, to_visit, paths_built, units_compiled, yielded, i>>
vars == <<project, pc, search_vars, candidates, pass_vars>>

Unit == (Libraries \cup {None}) \X (Names \cup {All})

-----------------------------------------------------------------------------
(* Lookups on the database.                                                *)

(* The (library, name) pairs a path defines. *)
OwnUnitsIn(prj, p) == {<<prj.library[p], n>> : n \in prj.defines[p]}

(* dependency.library or getLibrary(dependency.owner) *)
UnitOfIn(prj, p, d) ==
  <<IF d.library = None THEN prj.library[p] ELSE d.library, d.name>>

(* Dependencies that order the compilation: those of built-in libraries    *)
(* and "use lib.all" do not.                                               *)
DepsIn(prj, p) ==
  {UnitOfIn(prj, p, d) :
     d \in {x \in prj.requires[p] : x.name # All /\ x.library \notin Builtin}}

Own(p)  == OwnUnitsIn(project, p)
Deps(p) == DepsIn(project, p)

(* getPathsDefining: if no path defines the name in that library the       *)
(* project is taken to be incomplete, and any path with the name will do.  *)
PathsDefining(u) ==
  LET named    == {p \in Paths : u[2] \in project.defines[p]}
      matching == {p \in named : project.library[p] = u[1]}
  IN IF u[1] # None /\ matching # {} THEN matching ELSE named

(* resolveIncludedPath for each include of a path: one of its matches, if  *)
(* there is any.                                                           *)
ResolvedIncludes(P) ==
  LET directives == {d \in UNION {project.includes[p] : p \in P} : d # {}}
  IN {{choice[d] : d \in directives} :
        choice \in {f \in [directives -> Paths] : \A d \in directives : f[d] \in d}}

RequiredUnits(P) == UNION {{UnitOfIn(project, p, d) : d \in project.requires[p]} : p \in P}

-----------------------------------------------------------------------------
Init ==
  /\ project \in Projects
  /\ pc = "search"
  /\ search_paths = {project.target}
  /\ searched = {}
  /\ units = {}
  /\ candidates = {} /\ paths_to_build = {} /\ to_visit = {} /\ paths_built = {}
  /\ units_compiled = {} /\ yielded = <<>> /\ i = 0

(* Slip: the units seen before are followed again. *)
NewDepsWithoutMemory(P) == RequiredUnits(P)

NewDepsOf(P) == RequiredUnits(P) \ units

(* Slip: included paths are not searched. *)
SearchIgnoringIncludes ==
  /\ pc = "search" /\ search_paths # {}
  /\ LET new_deps == NewDepsOf(search_paths) IN
       /\ units' = units \cup new_deps
       /\ search_paths' = UNION {PathsDefining(u) : u \in new_deps}
  /\ searched' = searched \cup search_paths
  /\ UNCHANGED <<project, pc, candidates, pass_vars>>

(* One iteration of the search: units already seen are not followed again. *)
Search ==
  /\ pc = "search" /\ search_paths # {}
  /\ LET new_deps == NewDepsOf(search_paths) IN
       /\ units' = units \cup new_deps
       /\ \E included \in ResolvedIncludes(search_paths) :
            search_paths' = included \cup UNION {PathsDefining(u) : u \in new_deps}
  /\ searched' = searched \cup search_paths
  /\ UNCHANGED <<project, pc, candidates, pass_vars>>

PathsToBuild == UNION {PathsDefining(u) : u \in {x \in units \ Own(project.target) : x[1] \notin Builtin}}

(* The search is over; the paths to build are worked out, the first pass   *)
(* begins.                                                                 *)
StartBuilding ==
  /\ pc = "search" /\ search_paths = {}
  /\ pc' = "pass"
  /\ candidates' = PathsToBuild
  /\ paths_to_build' = PathsToBuild
  /\ to_visit' = PathsToBuild
  /\ UNCHANGED <<project, search_vars, paths_built, units_compiled, yielded, i>>

(* Slip: a unit counts as compiled once its path was visited. *)
PathNeedsOfUnvisited(p) ==
  (Deps(p) \ UNION {Own(q) : q \in candidates \ to_visit}) \ Own(p)

PathNeeds(p) == (Deps(p) \ units_compiled) \ Own(p)

(* Slip: whether the units are new is not looked at. *)
AllUnitsOf(p) == Own(p)

NewUnits(p) == Own(p) \ units_compiled

Visiting(p) ==
  /\ pc = "pass"
  /\ p \in to_visit
  /\ to_visit' = to_visit \ {p}
  /\ UNCHANGED <<project, pc, search_vars, candidates, paths_to_build, i>>

(* Everything p needs is there and p adds something: yield it. *)
Yield(p) ==
  /\ Visiting(p)
  /\ NewUnits(p) # {} /\ PathNeeds(p) = {}
  /\ yielded' = Append(yielded, p)
  /\ paths_built' = paths_built \cup {p}
  /\ units_compiled' = units_compiled \cup Own(p)

(* Other paths already provide all of p's units. *)
Skip(p) ==
  /\ Visiting(p)
  /\ NewUnits(p) = {}
  /\ paths_built' = paths_built \cup {p}
  /\ UNCHANGED <<units_compiled, yielded>>

(* p still needs units: leave it for the next pass. *)
Defer(p) ==
  /\ Visiting(p)
  /\ NewUnits(p) # {} /\ PathNeeds(p) # {}
  /\ UNCHANGED <<paths_built, units_compiled, yielded>>

(* Slip: one pass less than the worst case. *)
OnePassPerPath == Cardinality(candidates)

iteration_limit == Cardinality(candidates) + 1

EndOfPass == pc = "pass" /\ to_visit = {}

(* The pass dealt with something: run another one, unless the limit on the *)
(* number of passes stops the loop.                                        *)
NextPass ==
  /\ EndOfPass /\ paths_built # {}
  /\ paths_to_build' = paths_to_build \ paths_built
  /\ i' = i + 1
  /\ pc' = IF i + 1 < iteration_limit THEN "pass" ELSE "limit reached"
  /\ to_visit' = paths_to_build \ paths_built
  /\ paths_built' = {}
  /\ UNCHANGED <<project, search_vars, candidates, units_compiled, yielded>>

(* Slip: the loop stops at the first pass that leaves a path behind. *)
ReturnAtFirstDeferral ==
  /\ EndOfPass /\ paths_built # paths_to_build
  /\ pc' = "done"
  /\ UNCHANGED <<project, search_vars, candidates, pass_vars>>

(* Nothing was dealt with in this pass: whatever is left stays unbuilt. *)
Return ==
  /\ EndOfPass /\ paths_built = {}
  /\ pc' = "done"
  /\ UNCHANGED <<project, search_vars, candidates, pass_vars>>

Next ==
  \/ Search
  \/ StartBuilding
  \/ \E p \in Paths : Yield(p) \/ Skip(p) \/ Defer(p)
  \/ NextPass
  \/ Return

Spec == Init /\ [][Next]_vars

(* A call runs on: Python executes the next statement. *)
FairSpec == Spec /\ WF_vars(Next)

-----------------------------------------------------------------------------
(* Types, and how the sets of paths of a pass nest. *)
TypeOK ==
  /\ project \in Projects
  /\ pc \in {"search", "pass", "done", "limit reached"}
  /\ search_paths \subseteq Paths /\ searched \subseteq Paths
  /\ units \subseteq Unit
  /\ candidates \subseteq Paths
  /\ paths_to_build \subseteq candidates
  /\ paths_built \subseteq paths_to_build
  /\ to_visit \subseteq paths_to_build \ paths_built
  /\ units_compiled \subseteq Unit
  /\ yielded \in Seq(Paths)
  /\ i \in Nat

(* A path is yielded only after paths that define everything it requires   *)
(* (database.py:809-811): the builder compiles the sequence front to back. *)
OrderIsSound ==
  \A k \in DOMAIN yielded :
    Deps(yielded[k]) \subseteq Own(yielded[k]) \cup UNION {Own(yielded[j]) : j \in 1 .. k - 1}

(* Reference definition of the result: a set of units is closed when every *)
(* candidate that can be compiled with it adds nothing to it.              *)
Closed(S) ==
  \A p \in candidates : Deps(p) \subseteq S \cup Own(p) => Own(p) \subseteq S

AllOwnUnits == UNION {Own(p) : p \in Paths}

(* Nothing is compiled that every closed set does not contain.             *)
CompiledInEveryClosedSet ==
  \A S \in SUBSET AllOwnUnits : Closed(S) => units_compiled \subseteq S

(* The order in which a set yields its paths (hash order, different from   *)
(* run to run, database.py:786) cannot change what gets compiled: when the *)
(* call returns, the units compiled are the least closed set.              *)
ResultIndependentOfSetOrder ==
  /\ CompiledInEveryClosedSet
  /\ pc = "done" => Closed(units_compiled)

(* The error "Iteration limit of %d reached" (database.py:856) is never    *)
(* logged: n + 1 passes always suffice for n paths.                        *)
PassLimitIsNeverReached == pc # "limit reached"

(* When the search ends, every path it reached has had all its             *)
(* requirements recorded and all their defining paths searched, and at     *)
(* least one match of each of its includes: no dependency is left out      *)
(* (database.py:694-735).                                                  *)
SearchIsComplete ==
  pc # "search" =>
    /\ project.target \in searched
    /\ \A p \in searched :
         /\ RequiredUnits({p}) \subseteq units
         /\ \A u \in RequiredUnits({p}) : PathsDefining(u) \subseteq searched
         /\ \A d \in project.includes[p] : d = {} \/ d \cap searched # {}

(* The call is a compile order in the sense of CompileOrder. *)
CompileOrder == INSTANCE CompileOrder WITH
  provides <- [p \in Paths |-> Own(p)],
  needs    <- [p \in Paths |-> Deps(p)],
  order    <- yielded,
  finished <- (pc = "done")

ImplementsCompileOrder == CompileOrder!Spec

(* getBuildSequence returns (no test exercises a cycle of dependencies     *)
(* together with unordered passes).                                        *)
Terminates == <>(pc = "done")
=============================================================================
