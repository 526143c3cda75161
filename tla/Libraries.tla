----------------------------- MODULE Libraries -----------------------------
(***************************************************************************)
(* What Database knows of the library of each source: the libraries that   *)
(* the configuration gives, those it works out from the way units are      *)
(* used, the dependencies it rewrites when it has found one, the           *)
(* diagnostics it keeps about both, and what of it survives in the cache   *)
(* file.                                                                   *)
(*                                                                         *)
(* The database is a record and every method a pure operator on it, so     *)
(* that a call inside a call is an application.  A method whose outcome    *)
(* depends on the order of a Python set or dictionary gives the set of its *)
(* outcomes, records [db, ans].  Which calls happen when is the subject of *)
(* the modules that use this one.                                          *)
(***************************************************************************)
EXTENDS ConfigFiles

CONSTANTS
  Temporary,     (* those of them that are TemporaryPath                    *)
  Names,         (* names of design units                                   *)
  Work,          (* the library called work                                 *)
  NotInProject,  (* the library called not_in_project                       *)
  Texts,         (* path -> the sequence of texts it has, one per version   *)
  Miss           (* no entry in a cache                                     *)

Known == Libs \cup {Work, NotInProject}

(* What a parser finds in a text: the names of the units it defines, and   *)
(* the pairs of a library, None when it says work or nothing, and a name.  *)
Text == [units : SUBSET Names, uses : SUBSET ((Libs \cup {None}) \X Names)]

(* A dependency keeps the library that was written beside the one it has   *)
(* been resolved to.                                                       *)
Dependency == [library : Known \cup {None}, name : Names, written : Libs \cup {None}]

Diagnostic ==
  [kind : {"PathNotInProjectFile", "PathLibraryIsNotUnique"}, about : {None}]
  \cup [kind : {"DependencyNotUnique"}, about : Names]

Gone == 0        (* version of a file that does not exist, mtime of one not parsed *)

ASSUME LibrariesAssumption ==
  /\ Temporary \subseteq Paths /\ IsFiniteSet(Names) /\ IsFiniteSet(Libs)
  /\ Work \notin Libs /\ NotInProject \notin Libs /\ Work # NotInProject
  /\ None \notin Known /\ Miss \notin Known \cup {None}
  /\ \A p \in Paths : Texts[p] \in Seq(Text) /\ Len(Texts[p]) > 0

-----------------------------------------------------------------------------
(* The attributes of a Database, and one that nothing was added to. *)
Database ==
  [paths      : SUBSET Paths,
   stamp      : [Paths -> Nat],
   library    : [Paths -> Known \cup {None}],
   flags      : [Paths -> SourceFlags \cup {None}],
   deps       : [Paths -> SUBSET Dependency],
   units      : [Paths -> SUBSET Names],
   inferred   : SUBSET Paths,
   diags      : [Paths -> SUBSET Diagnostic],
   c_library  : [Paths -> Known \cup {None, Miss}],
   c_referred : [Names -> [Known -> Nat] \cup {Miss}],
   c_defining : [(Known \cup {None}) \X Names -> (SUBSET Paths) \cup {Miss}]]

EmptyDatabase ==
  [paths      |-> {},
   stamp      |-> [p \in Paths |-> Gone],
   library    |-> [p \in Paths |-> None],
   flags      |-> [p \in Paths |-> None],
   deps       |-> [p \in Paths |-> {}],
   units      |-> [p \in Paths |-> {}],
   inferred   |-> {},
   diags      |-> [p \in Paths |-> {}],
   c_library  |-> [p \in Paths |-> Miss],
   c_referred |-> [n \in Names |-> Miss],
   c_defining |-> [k \in (Known \cup {None}) \X Names |-> Miss]]

CachesCleared(d) ==
  [d EXCEPT !.c_library  = EmptyDatabase.c_library,
            !.c_referred = EmptyDatabase.c_referred,
            !.c_defining = EmptyDatabase.c_defining]

Diagnosed(d, p, kind, about) ==
  [d EXCEPT !.diags[p] = @ \cup {[kind |-> kind, about |-> about]}]

DependenciesIn(text) ==
  {[library |-> use[1], name |-> use[2], written |-> use[1]] : use \in text.uses}

(* Slip: a source that is parsed again leaves the caches alone. *)
ParsedQuietly(d, disk, p) ==
  LET text == Texts[p][disk[p]]
  IN  [d EXCEPT !.stamp[p] = disk[p], !.units[p] = text.units,
                !.deps[p] = DependenciesIn(text)]

(* _parseSource: what was known of the text is replaced, what was resolved *)
(* in it is unresolved again.                                              *)
Parsed(d, disk, p) ==
  LET text == Texts[p][disk[p]]
  IN  CachesCleared([d EXCEPT !.stamp[p] = disk[p], !.units[p] = text.units,
                              !.deps[p] = DependenciesIn(text)])

(* Whether removeSource finds anything of p. *)
Holds(d, p) ==
  \/ p \in d.paths \/ d.units[p] # {} \/ d.stamp[p] # Gone
  \/ d.library[p] # None \/ d.flags[p] # None \/ d.diags[p] # {}

Removed(d, p) ==
  IF ~ Holds(d, p) THEN d
  ELSE CachesCleared([d EXCEPT !.paths = @ \ {p}, !.units[p] = {}, !.stamp[p] = Gone,
                               !.library[p] = None, !.flags[p] = None, !.deps[p] = {},
                               !.diags[p] = {}])

(* _parseSourceIfNeeded *)
Looked(d, disk, p) ==
  IF disk[p] = Gone THEN Removed(d, p)
  ELSE IF d.stamp[p] = disk[p] THEN d
  ELSE Parsed(d, disk, p)

(* Slip: a source that has a library keeps it when it is listed again. *)
RecordedOnce(d, entry) ==
  [d EXCEPT !.paths = @ \cup {entry.path},
            !.flags[entry.path] = entry.flags,
            !.library[entry.path] = IF @ # None THEN @ ELSE entry.library]

(* What addSource does before it parses the source: an entry without a     *)
(* library leaves the one the source has.                                  *)
Recorded(d, entry) ==
  [d EXCEPT !.paths = @ \cup {entry.path},
            !.flags[entry.path] = entry.flags,
            !.library[entry.path] = IF entry.library # None THEN entry.library ELSE @]

(* _updatePathLibrary: a new library also replaces the None of what p uses. *)
LibraryUpdated(d, p, library) ==
  IF d.library[p] = library THEN d
  ELSE [d EXCEPT !.library[p] = library,
                 !.deps[p] = {IF use.library = None THEN [use EXCEPT !.library = library]
                              ELSE use : use \in @}]

-----------------------------------------------------------------------------
(* How often each library is named with a unit called name: a bag of the   *)
(* list getLibrariesReferredByUnit returns.                                *)
ReferredNow(d, name) ==
  LET uses == {u \in UNION {{p} \X d.deps[p] : p \in Paths} : u[2].name = name}
      Library(p, use) == IF use.library # None THEN use.library
                         ELSE IF d.library[p] # None THEN d.library[p]
                         ELSE Work
  IN  [l \in Known |-> Cardinality({u \in uses : Library(u[1], u[2]) = l})]

Referred(d, name) == IF d.c_referred[name] # Miss THEN d.c_referred[name] ELSE ReferredNow(d, name)

(* How often the library l is named with one of the names. *)
TimesNamed(d, names, l) ==
  LET sum[n \in 0..Len(names)] == IF n = 0 THEN 0 ELSE sum[n - 1] + Referred(d, names[n])[l]
  IN  sum[Len(names)]

(* _inferLibraryForPath: the library that the uses of what p defines name  *)
(* most often, any of them when several do, and None when none is named.   *)
Inferences(d, p) ==
  LET counted == [d EXCEPT !.c_referred = [n \in Names |-> IF n \in d.units[p] THEN Referred(d, n) ELSE @[n]],
                           !.inferred = @ \cup {p}]
      Count(l) == TimesNamed(d, SetToSeq(d.units[p]), l)
      named    == {l \in Known \ {Work} : Count(l) > 0}
      most     == {l \in named : \A other \in named : Count(l) >= Count(other)}
  IN  IF named = {} THEN {[db |-> counted, ans |-> None]}
      ELSE {[db  |-> IF Cardinality(named) = 1 THEN counted
                     ELSE Diagnosed(counted, p, "PathLibraryIsNotUnique", None),
             ans |-> l] : l \in most}

(* Slip: the library is worked out from its uses even when it is known. *)
FindLibraryAgain(d, p) ==
  {IF found.ans = None THEN found.db ELSE LibraryUpdated(found.db, p, found.ans)
     : found \in Inferences(d, p)}

(* What getLibrary makes of the database when it is not in the cache: a    *)
(* file that is not in the project gets a library of its own and, unless   *)
(* it is temporary, a diagnostic.                                          *)
FindLibrary(d, p) ==
  IF p \notin d.paths
  THEN LET put == LibraryUpdated(d, p, NotInProject)
       IN  {IF p \in Temporary THEN put ELSE Diagnosed(put, p, "PathNotInProjectFile", None)}
  ELSE IF d.library[p] # None THEN {d}
  ELSE {IF found.ans = None THEN found.db ELSE LibraryUpdated(found.db, p, found.ans)
          : found \in Inferences(d, p)}

(* getLibrary with its lru_cache. *)
GetLibrary(d, disk, p) ==
  IF d.c_library[p] # Miss THEN {[db |-> d, ans |-> d.c_library[p]]}
  ELSE {[db |-> [found EXCEPT !.c_library[p] = found.library[p]], ans |-> found.library[p]]
          : found \in FindLibrary(Looked(d, disk, p), p)}

(* getLibrary of one path more. *)
LibraryOfNext(outcomes, disk, p) ==
  UNION {{[db |-> next.db, ans |-> [outcome.ans EXCEPT ![p] = next.ans]]
            : next \in GetLibrary(outcome.db, disk, p)} : outcome \in outcomes}

(* getLibrary of each path of a sequence; the answers are a function. *)
GetLibraries(d, disk, order) ==
  LET after[n \in 0..Len(order)] ==
        IF n = 0 THEN {[db |-> d, ans |-> [p \in Paths |-> None]]}
        ELSE LibraryOfNext(after[n - 1], disk, order[n])
  IN  after[Len(order)]

-----------------------------------------------------------------------------
(* Slip: temporary files count when the choices are compared. *)
ReportedWithTemporary(d, library, name, choices) ==
  IF Cardinality(choices) # 2 THEN d
  ELSE [d EXCEPT !.diags = [p \in Paths |->
          IF \E use \in d.deps[p] : use.library = library /\ use.name = name
          THEN @[p] \cup {[kind |-> "DependencyNotUnique", about |-> name]} ELSE @[p]]]

(* _reportDependencyNotUnique: every dependency that names exactly this    *)
(* library and name, whoever asked.                                        *)
ReportedNotUnique(d, library, name, choices) ==
  IF Cardinality(choices \ Temporary) < 2 THEN d
  ELSE [d EXCEPT !.diags = [p \in Paths |->
          IF \E use \in d.deps[p] : use.library = library /\ use.name = name
          THEN @[p] \cup {[kind |-> "DependencyNotUnique", about |-> name]} ELSE @[p]]]

Owners(d, name) == {p \in Paths : name \in d.units[p]}

(* The paths that are left when the library counts, and the whole set when *)
(* none of them is in it, after a second look at each (database.py:597).   *)
WithLibrary(d, disk, name, library) ==
  LET owners == Owners(d, name)
      First  == UNION {GetLibraries(d, disk, order) : order \in SetToSeqs(owners)}
      In(outcome) == {p \in owners : outcome.ans[p] = library}
  IN  UNION {IF In(outcome) # {} THEN {[db |-> outcome.db, ans |-> In(outcome)]}
             ELSE {[db |-> second.db, ans |-> owners]
                     : second \in UNION {GetLibraries(outcome.db, disk, order) : order \in SetToSeqs(owners)}}
               : outcome \in First}

(* getPathsDefining(name, library) with its lru_cache. *)
GetPathsDefining(d, disk, name, library) ==
  IF d.c_defining[<<library, name>>] # Miss
  THEN {[db |-> d, ans |-> d.c_defining[<<library, name>>]]}
  ELSE {[db  |-> [IF Cardinality(found.ans) > 1
                  THEN ReportedNotUnique(found.db, library, name, found.ans) ELSE found.db
                    EXCEPT !.c_defining[<<library, name>>] = found.ans],
         ans |-> found.ans]
          : found \in IF library = None \/ Owners(d, name) = {}
                      THEN {[db |-> d, ans |-> Owners(d, name)]}
                      ELSE WithLibrary(d, disk, name, library)}

(* Slip: the times at which sources were parsed are not saved. *)
RecoveredWithoutTimes(d) ==
  [EmptyDatabase EXCEPT !.paths = d.paths, !.units = d.units, !.library = d.library,
                        !.flags = d.flags, !.deps = d.deps]

(* What __jsonEncode__ writes and __jsonDecode__ reads back: everything    *)
(* about the sources of the project but their diagnostics, every design    *)
(* unit, and the paths whose library was inferred.                         *)
Recovered(d) ==
  LET Kept(f, default) == [p \in Paths |-> IF p \in d.paths THEN f[p] ELSE default]
  IN  [EmptyDatabase EXCEPT
         !.paths = d.paths, !.units = d.units, !.inferred = d.inferred,
         !.stamp = Kept(d.stamp, Gone), !.library = Kept(d.library, None),
         !.flags = Kept(d.flags, None), !.deps = Kept(d.deps, {})]
=============================================================================
