---------------------------- MODULE SourceCache ----------------------------
(***************************************************************************)
(* Database.getBuildSequence while the files of the project are edited and *)
(* deleted, call after call, with everything that is remembered between    *)
(* calls: what was last parsed of each source, and the lru_cache of        *)
(* getLibrary, getPathsDefining and getBuildSequence.                      *)
(*                                                                         *)
(* A source is parsed again only when some call looks at its mtime: those  *)
(* looks (_parseSourceIfNeeded) are buried in getLibrary and               *)
(* getDesignUnitsByPath, and a cached answer skips them.  Parsing a source *)
(* clears every cache, also while an answer is being computed from data    *)
(* read before; that answer is stored when it is ready, after the clear.   *)
(*                                                                         *)
(* One thread lints one target at a time; files change at any moment.      *)
(* Threads that parse the same source at once are the subject of           *)
(* SourceParsing, the loops themselves of BuildSequence.  The project file *)
(* puts every source in one library, which the sources call work; nothing  *)
(* is built in.                                                            *)
(***************************************************************************)
EXTENDS Naturals, Sequences, FiniteSets

CONSTANTS
  Paths,      (* sources of the project                                     *)
  Targets,    (* the sources that get linted                                *)
  Names,      (* names of design units                                      *)
  Texts,      (* path -> the sequence of texts it has, one per version      *)
  MaxEdits,   (* bound: edits and deletions of files in one behaviour       *)
  Deletable,  (* the paths that may be deleted                              *)
  Miss        (* no entry in a cache                                        *)

Text == [defines : SUBSET Names, requires : SUBSET Names]

ASSUME TargetsAssumption == Targets \subseteq Paths /\ Targets \cap Deletable = {}
ASSUME TextsAssumption == \A p \in Paths : Texts[p] \in Seq(Text) /\ Len(Texts[p]) > 0
ASSUME MaxEditsAssumption == MaxEdits \in Nat

Gone == 0        (* version of a file that does not exist; nothing is parsed of it *)

VARIABLES
  disk,        (* version of each file: stands for its mtime and its text    *)
  edits,       (* number of edits and deletions so far                       *)
  parsed,      (* version last parsed: _parse_timestamp, _dependencies_map   *)
               (* and _design_units of a path, which change together         *)
  in_project,  (* _paths                                                     *)
  has_library, (* the keys of _library_map                                   *)
  c_library,   (* paths with an entry in the cache of getLibrary             *)
  c_defining,  (* the cache of getPathsDefining                              *)
  c_sequence,  (* the cache of getBuildSequence                              *)
  tainted,     (* history: keys of the two caches above whose answer was     *)
               (* computed while a source was parsed, or from such an entry  *)
  call         (* the call being made, with its local variables              *)

files  == <<disk, edits>>
db     == <<parsed, in_project, has_library>>
caches == <<c_library, c_defining, c_sequence, tainted>>
vars   == <<files, db, caches, call>>

Idle == [pc |-> "idle", target |-> Miss, own |-> {}, search |-> {}, units |-> {}, todo |-> {},
         paths |-> {}, visit |-> {}, built |-> {}, compiled |-> {}, yielded |-> <<>>,
         taint |-> FALSE]

Ended == {"idle", "returned", "KeyError"}

-----------------------------------------------------------------------------
(* What the version v[p] of a path says. *)
Defines(v, p)  == IF v[p] = Gone THEN {} ELSE Texts[p][v[p]].defines
Requires(v, p) == IF v[p] = Gone THEN {} ELSE Texts[p][v[p]].requires

(* _parseSourceIfNeeded on the paths P: a changed file is parsed again, a  *)
(* file that is gone is removed (removeSource).                            *)
Affected(P) ==
  {p \in P : parsed[p] # disk[p] \/ (disk[p] = Gone /\ p \in has_library)}

(* Slip: the old data of a changed source is removed, and the source is    *)
(* parsed the next time somebody looks.                                    *)
ParsedLazily(P) ==
  [p \in Paths |-> IF p \in Affected(P) /\ parsed[p] # Gone THEN Gone
                   ELSE IF p \in P THEN disk[p] ELSE parsed[p]]

ParsedAfter(P) == [p \in Paths |-> IF p \in P THEN disk[p] ELSE parsed[p]]

GoneFrom(P) == {p \in P : disk[p] = Gone}

(* Whether looking at P clears the caches (database.py:233, 467). *)
Clears(P) == Affected(P) # {}

NoPaths     == [n \in Names |-> Miss]
NoSequences == [t \in Targets |-> Miss]

SequencesKept(P) == c_sequence

DefiningAfter(P)  == IF Clears(P) THEN NoPaths ELSE c_defining
SequencesAfter(P) == IF Clears(P) THEN NoSequences ELSE c_sequence
TaintedAfter(P)   == IF Clears(P) THEN {} ELSE tainted

(* getDesignUnitsByPath(p) or getDependenciesByPath(p), which always look  *)
(* at the file, and getLibrary(p), if asks, from then on in its cache.     *)
LookAt(p, asks) ==
  /\ parsed' = ParsedAfter({p})
  /\ in_project' = in_project \ GoneFrom({p})
  /\ has_library' = has_library \ GoneFrom({p})
  /\ c_library' = (IF Clears({p}) THEN {} ELSE c_library) \cup (IF asks THEN {p} ELSE {})
  /\ c_defining' = DefiningAfter({p})
  /\ c_sequence' = SequencesAfter({p})
  /\ tainted' = TaintedAfter({p})

(* getLibrary of every path of P, in some order: a path without an entry   *)
(* in the cache is looked at, and if that clears the cache so are those    *)
(* that come after it.  Paths that are gone end up in a library named      *)
(* not_in_project.                                                         *)
AskLibraries(P, looked) ==
  /\ P \ c_library \subseteq looked /\ looked \subseteq P
  /\ looked = P \ c_library \/ Affected(P \ c_library) # {}
  /\ parsed' = ParsedAfter(looked)
  /\ in_project' = in_project \ GoneFrom(looked)
  /\ has_library' = has_library \cup GoneFrom(looked)
  /\ \/ Affected(looked) = {} /\ c_library' = c_library \cup P
     \/ \E last \in Affected(looked), later \in SUBSET (looked \ Affected(looked)) :
          c_library' = {last} \cup later
  /\ c_sequence' = SequencesAfter(looked)

-----------------------------------------------------------------------------
Init ==
  /\ disk = [p \in Paths |-> 1] /\ edits = 0
  /\ parsed = disk
  /\ in_project = Paths /\ has_library = Paths
  /\ c_library = {} /\ c_defining = NoPaths /\ c_sequence = NoSequences /\ tainted = {}
  /\ call = Idle

(* The user saves a file or deletes it, whatever the server is doing. *)
Change(p, v) ==
  /\ edits < MaxEdits
  /\ edits' = edits + 1
  /\ disk[p] # Gone
  /\ \/ v = disk[p] + 1 /\ v \in DOMAIN Texts[p]
     \/ v = Gone /\ p \in Deletable
  /\ disk' = [disk EXCEPT ![p] = v]
  /\ UNCHANGED <<db, caches, call>>

(* getBuildSequence(t): an answer in the cache is returned as it is.       *)
LintFromCache(t) ==
  /\ call.pc \in Ended
  /\ c_sequence[t] # Miss
  /\ call' = [Idle EXCEPT !.pc = "returned", !.target = t, !.yielded = c_sequence[t],
                          !.taint = t \in tainted]
  /\ UNCHANGED <<files, db, caches>>

(* Otherwise getDependenciesUnits looks at the target and starts there.    *)
Lint(t) ==
  /\ call.pc \in Ended
  /\ c_sequence[t] = Miss
  /\ LookAt(t, Defines(parsed', t) # {})
  /\ call' = [Idle EXCEPT !.pc = "search", !.target = t, !.search = {t},
                          !.own = Defines(parsed', t)]
  /\ UNCHANGED files

(* One level of the search: read the dependencies of the paths found,     *)
(* then ask for the library that work is in each of them.  A path that was *)
(* removed has no dependencies to read: KeyError, the second time they are *)
(* read if it was removed in between.                                      *)
Search(looked) ==
  /\ call.pc = "search" /\ call.search # {} /\ call.todo = {}
  /\ AskLibraries({p \in call.search : Requires(parsed, p) # {}}, looked)
  /\ c_defining' = DefiningAfter(looked)
  /\ tainted' = TaintedAfter(looked)
  /\ LET new == (UNION {Requires(parsed, p) : p \in call.search}) \ call.units
     IN call' = IF \E p \in call.search : parsed'[p] = Gone
                THEN [call EXCEPT !.pc = "KeyError"]
                ELSE [call EXCEPT !.units = @ \cup new, !.todo = new, !.search = {},
                                  !.taint = @ \/ Clears(looked)]
  /\ UNCHANGED files

(* Slip: the name is looked up again. *)
FoundAgain(n, paths, taint) ==
  [call EXCEPT !.taint = @ \/ taint,
               !.search = IF call.pc = "search" THEN @ \cup paths ELSE @,
               !.paths  = IF call.pc = "plan" THEN @ \cup paths ELSE @]

(* The paths found by getPathsDefining go to the next level of the search, *)
(* or to the paths to build once the search is over.                       *)
Found(n, paths, taint) ==
  [call EXCEPT !.todo = @ \ {n}, !.taint = @ \/ taint,
               !.search = IF call.pc = "search" THEN @ \cup paths ELSE @,
               !.paths  = IF call.pc = "plan" THEN @ \cup paths ELSE @]

ResolveFromCache(n) ==
  /\ n \in call.todo
  /\ c_defining[n] # Miss
  /\ call' = Found(n, c_defining[n], n \in tainted)
  /\ UNCHANGED <<files, db, caches>>

(* getPathsDefining(n): the paths that had the unit when the call began,   *)
(* or those of them still in the library when there are any.  The answer   *)
(* is stored at the end, the caches may have been cleared meanwhile.       *)
Resolve(n, looked) ==
  /\ n \in call.todo
  /\ c_defining[n] = Miss
  /\ LET known   == {p \in Paths : n \in Defines(parsed, p)}
         present == known \cap in_project'
         found   == IF present = {} THEN known ELSE present
     IN /\ AskLibraries(known, looked)
        /\ c_defining' = [DefiningAfter(looked) EXCEPT ![n] = found]
        /\ tainted' = TaintedAfter(looked) \cup (IF Clears(looked) THEN {n} ELSE {})
        /\ call' = Found(n, found, Clears(looked))
  /\ UNCHANGED files

(* The search is over: which paths define the units found?                 *)
Plan ==
  /\ call.pc = "search" /\ call.search = {} /\ call.todo = {}
  /\ call' = [call EXCEPT !.pc = "plan", !.todo = call.units \ call.own]
  /\ UNCHANGED <<files, db, caches>>

StartPasses ==
  /\ call.pc = "plan" /\ call.todo = {}
  /\ call' = [call EXCEPT !.pc = "pass", !.visit = call.paths]
  /\ UNCHANGED <<files, db, caches>>

(* One path of a pass: its units and dependencies are read now. *)
Visit(p) ==
  /\ call.pc = "pass" /\ p \in call.visit
  /\ LookAt(p, Defines(parsed', p) # {} \/ Requires(parsed', p) # {})
  /\ LET own     == Defines(parsed', p)
         needs   == (Requires(parsed', p) \ call.compiled) \ own
         new     == own \ call.compiled
         visited == [call EXCEPT !.visit = @ \ {p}, !.taint = @ \/ Affected({p}) # {}]
     IN call' = IF parsed'[p] = Gone THEN [call EXCEPT !.pc = "KeyError"]
                ELSE IF new = {} THEN [visited EXCEPT !.built = @ \cup {p}]
                ELSE IF needs # {} THEN visited
                ELSE [visited EXCEPT !.built = @ \cup {p}, !.compiled = @ \cup own,
                                     !.yielded = Append(@, p)]
  /\ UNCHANGED files

NextPass ==
  /\ call.pc = "pass" /\ call.visit = {} /\ call.built # {}
  /\ call' = [call EXCEPT !.paths = @ \ call.built, !.visit = call.paths \ call.built, !.built = {}]
  /\ UNCHANGED <<files, db, caches>>

(* The answer is stored in the cache and returned. *)
Return ==
  /\ call.pc = "pass" /\ call.visit = {} /\ call.built = {}
  /\ c_sequence' = [c_sequence EXCEPT ![call.target] = call.yielded]
  /\ tainted' = tainted \cup (IF call.taint THEN {call.target} ELSE {})
  /\ call' = [call EXCEPT !.pc = "returned"]
  /\ UNCHANGED <<files, db, c_library, c_defining>>

(* Between two calls, anything else may ask for a path's units or          *)
(* dependencies: a lint ends with it, go to definition begins with it.     *)
Query(p) ==
  /\ call.pc \in Ended
  /\ LookAt(p, FALSE)
  /\ call' = Idle
  /\ UNCHANGED files

Step ==
  \/ \E looked \in SUBSET Paths : Search(looked)
  \/ \E n \in Names : ResolveFromCache(n) \/ \E looked \in SUBSET Paths : Resolve(n, looked)
  \/ \E p \in Paths : Visit(p)
  \/ Plan \/ StartPasses \/ NextPass \/ Return

Next ==
  \/ \E p \in Paths : (\E v \in {Gone} \cup DOMAIN Texts[p] : Change(p, v)) \/ Query(p)
  \/ \E t \in Targets : LintFromCache(t) \/ Lint(t)
  \/ Step

Spec == Init /\ [][Next]_vars

(* A call that has begun runs on. *)
FairSpec == Spec /\ WF_vars(Step)

(* Moreover, every target is linted and every path queried again and again. *)
BusySpec ==
  /\ FairSpec
  /\ \A t \in Targets : SF_vars(LintFromCache(t) \/ Lint(t))
  /\ \A p \in Paths : SF_vars(Query(p))

-----------------------------------------------------------------------------
Calls ==
  [pc : Ended \cup {"search", "plan", "pass"}, target : Targets \cup {Miss},
   own : SUBSET Names, units : SUBSET Names, todo : SUBSET Names, compiled : SUBSET Names,
   search : SUBSET Paths, paths : SUBSET Paths, visit : SUBSET Paths, built : SUBSET Paths,
   yielded : Seq(Paths), taint : BOOLEAN]

(* Types, and what parsed, _paths and _library_map agree on: a source with *)
(* anything parsed is in the project and has a library.                    *)
TypeOK ==
  /\ disk \in [Paths -> Nat] /\ parsed \in [Paths -> Nat] /\ edits \in 0 .. MaxEdits
  /\ \A p \in Paths : {disk[p], parsed[p]} \subseteq {Gone} \cup DOMAIN Texts[p]
  /\ in_project = {p \in Paths : parsed[p] # Gone}
  /\ in_project \subseteq has_library /\ has_library \subseteq Paths
  /\ c_library \subseteq Paths
  /\ c_defining \in [Names -> {Miss} \cup SUBSET Paths]
  /\ c_sequence \in [Targets -> {Miss} \cup Seq(Paths)]
  /\ tainted \subseteq Names \cup Targets
  /\ call \in Calls
  /\ call.pc \notin Ended => call.target \in Targets

(* Reference: what the sequence of target t is for the versions v.  The    *)
(* names needed are the least set that has what t and the sources of       *)
(* needed names require; the sources to build define one that t does not;  *)
(* and of their names as many are built as can be, each after its needs.   *)
Least(closed(_)) == {n \in Names : \A S \in SUBSET Names : closed(S) => n \in S}

Needed(v, t) ==
  LET closed(S) == /\ Requires(v, t) \subseteq S
                   /\ \A p \in Paths : Defines(v, p) \cap S # {} => Requires(v, p) \subseteq S
  IN Least(closed)

ToBuild(v, t) == {p \in Paths : Defines(v, p) \cap (Needed(v, t) \ Defines(v, t)) # {}}

Buildable(v, t) ==
  LET closed(S) == \A p \in ToBuild(v, t) :
                     Requires(v, p) \subseteq S \cup Defines(v, p) => Defines(v, p) \subseteq S
  IN Least(closed)

RightOrder(v, t, seq) ==
  LET before(k) == UNION {Defines(v, seq[j]) : j \in 1 .. k - 1}
  IN /\ \A k \in DOMAIN seq :
          /\ seq[k] \in ToBuild(v, t)
          /\ Requires(v, seq[k]) \subseteq before(k) \cup Defines(v, seq[k])
     /\ before(Len(seq) + 1) = Buildable(v, t)

(* A cached build sequence, and a cached answer of getPathsDefining, is     *)
(* right for what is parsed, however old it is, unless some source was      *)
(* parsed while it was computed: no other change to what is parsed leaves   *)
(* an old answer behind (database.py:233, 467, 575, 741).                   *)
CachedAnswersAgree ==
  /\ \A t \in Targets \ tainted :
       c_sequence[t] = Miss \/ RightOrder(parsed, t, c_sequence[t])
  /\ \A n \in Names \ tainted :
       c_defining[n] = Miss \/ c_defining[n] = {p \in Paths : n \in Defines(parsed, p)}

(* However the sources are edited while their dependencies are read, the   *)
(* lookups that may raise do so only if a source of the project has been   *)
(* deleted (database.py:698, 716, 802).                                    *)
KeyErrorOnlyAfterDeletion == call.pc = "KeyError" => \E p \in Paths : disk[p] = Gone

(* A call ends, although the files it reads change under it and each       *)
(* change empties the caches it relies on.                                 *)
CallsEnd == (call.pc \notin Ended) ~> (call.pc \in Ended)

(* "Gets the build sequence that satisfies the preconditions to compile    *)
(* the given path" (getBuildSequence, database.py:744-748).  The answer    *)
(* need not be right even in the long run, with every file looked at again *)
(* and again and no more edits: an answer half of which was computed from  *)
(* the old text is stored after the new text has cleared the caches, and   *)
(* nothing clears them again.                                              *)
EventuallyRight ==
  <>[](call.pc = "returned" => RightOrder(disk, call.target, call.yielded))
=============================================================================
