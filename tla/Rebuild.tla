------------------------------ MODULE Rebuild ------------------------------
(***************************************************************************)
(* HdlCheckerCore._getBuilderMessages: the dependencies of the linted path *)
(* are built front to back, then the path itself.  BaseBuilder.build       *)
(* compiles a source if it must, or answers with what the last compile of  *)
(* it said.  When a compiler says that a unit must be compiled again       *)
(* first, the path of that unit goes through _getBuilderMessages too, and  *)
(* the build is tried again, _MAX_REBUILD_ATTEMPTS times at most.          *)
(*                                                                         *)
(* The compiler is external.  It refuses a source whose text is wrong or   *)
(* that uses a unit nobody has compiled.  When one uses a unit compiled    *)
(* before something which that unit uses in turn (an obsolete unit), it    *)
(* names units to rebuild, in an error or, as vcom-1127, in a warning.     *)
(* vcom also has the source itself built again when it had to wait for the *)
(* lock of the library.                                                    *)
(*                                                                         *)
(* The user edits files at any moment.  One lint runs at a time.           *)
(***************************************************************************)
EXTENDS Naturals, Sequences, FiniteSets

CONSTANTS
  Paths,
  Graphs,       (* the projects considered: path -> the paths it needs       *)
  MaxAttempts,  (* _MAX_REBUILD_ATTEMPTS                                     *)
  MaxEdits,     (* bound: edits in one behaviour                             *)
  MaxWaits,     (* bound: compiles that find the library locked              *)
  None          (* no lint so far                                            *)

ASSUME GraphsAssumption == Graphs \subseteq [Paths -> SUBSET Paths]
ASSUME MaxAttemptsAssumption == MaxAttempts \in Nat \ {0}
ASSUME BoundsAssumption == MaxEdits \in Nat /\ MaxWaits \in Nat
ASSUME NoneAssumption == None \notin Paths

VARIABLES
  needs,     (* the graph of the project                                     *)
  disk,      (* version of each file; stands for its mtime                   *)
  edits,     (* number of edits                                              *)
  wrong,     (* paths whose text does not compile                            *)
  edited,    (* history: paths edited since the lint began, or that it takes *)
             (* for compiled though they were edited                         *)
  raced,     (* history: paths edited after their last compile but before    *)
             (* its mtime was stored                                         *)
  compiled,  (* version of a path the libraries hold; 0 is none              *)
  obsolete,  (* compiled paths that need one compiled after them             *)
  waits,     (* number of compiles that found the library locked             *)
  info,      (* _build_info_cache                                            *)
  stack,     (* the calls of _getBuilderMessages, the innermost one first    *)
  target,    (* the path of the lint                                         *)
  errors,    (* dependencies whose errors the lint has yielded               *)
  outcome    (* what the lint's last build of the target came to             *)

files   == <<disk, edits, wrong, edited, raced>>
library == <<compiled, obsolete, waits>>
lint    == <<target, errors, outcome>>
vars    == <<needs, files, library, info, stack, lint>>

Versions == 1 .. MaxEdits + 1

(* What a path needs, directly or not: the least set that has what p needs *)
(* and what its members need.                                              *)
Cone(p) ==
  {q \in Paths : \A S \in SUBSET Paths :
                   (needs[p] \subseteq S /\ \A r \in S : needs[r] \subseteq S) => q \in S}

(* An entry of the cache: compile_time, and of the diagnostics and rebuilds *)
(* what the loop looks at.                                                 *)
NothingYet == [compile_time |-> 0, failed |-> FALSE, rebuilds |-> {}]

(* A call of _getBuilderMessages: the paths still to be built, the one     *)
(* being built, the attempts made, the hints left to handle, whether the   *)
(* records have an error.                                                  *)
CallOf(p) ==
  [path |-> p, todo |-> Cone(p) \cup {p}, cur |-> p, tries |-> 0,
   rebuilds |-> {}, failed |-> FALSE, at |-> "next"]

Top == Head(stack)
SetTop(frame) == stack' = <<frame>> \o Tail(stack)
At(place) == stack # <<>> /\ Top.at = place

Building(place) == At(place) /\ Top.tries < MaxAttempts
Forced == Top.cur = Top.path

-----------------------------------------------------------------------------
Init ==
  /\ needs \in Graphs
  /\ disk = [p \in Paths |-> 1] /\ edits = 0 /\ wrong \in SUBSET Paths
  /\ edited = {} /\ raced = {}
  /\ compiled = [p \in Paths |-> 0] /\ obsolete = {} /\ waits = 0
  /\ info = [p \in Paths |-> NothingYet]
  /\ stack = <<>>
  /\ target = None /\ errors = {} /\ outcome = "none"

(* The user saves a file, right or wrong. *)
Edit(p) ==
  /\ edits < MaxEdits
  /\ edits' = edits + 1
  /\ disk' = [disk EXCEPT ![p] = @ + 1]
  /\ wrong' \in {wrong \cup {p}, wrong \ {p}}
  /\ edited' = edited \cup {p}
  /\ raced' = IF At("store") /\ Top.cur = p THEN raced \cup {p} ELSE raced
  /\ UNCHANGED <<needs, library, info, stack, lint>>

(* getMessagesByPath(p) *)
Lint(p) ==
  /\ stack = <<>>
  /\ stack' = <<CallOf(p)>>
  /\ target' = p /\ errors' = {} /\ outcome' = "none"
  /\ edited' = raced
  /\ UNCHANGED <<needs, disk, edits, wrong, raced, library, info>>

(* The next path of the build sequence; the path itself comes last. *)
Begin(p) ==
  /\ At("next")
  /\ p \in Top.todo /\ needs[p] \cap Top.todo = {}
  /\ SetTop([Top EXCEPT !.cur = p, !.todo = @ \ {p}, !.tries = 0, !.at = "build"])
  /\ UNCHANGED <<needs, files, library, info, lint>>

(* What the compiler may say of p: of the obsolete units it comes across   *)
(* it names some.                                                          *)
Verdicts(p) ==
  LET old == Cone(p) \cap obsolete
  IN IF p \in wrong \/ \E q \in needs[p] : compiled[q] = 0
     THEN {[failed |-> TRUE, rebuilds |-> {}]}
     ELSE IF old # {}
     THEN [failed : BOOLEAN, rebuilds : (SUBSET old) \ {{}}]
     ELSE {[failed |-> FALSE, rebuilds |-> {}]}

(* A new unit makes those that need it obsolete; compiling the same text   *)
(* again may or may not.                                                   *)
Compiles(p) ==
  /\ compiled' = [compiled EXCEPT ![p] = disk[p]]
  /\ \/ obsolete' = (obsolete \ {p}) \cup {q \in Paths : p \in needs[q] /\ compiled[q] # 0}
     \/ compiled[p] = disk[p] /\ obsolete' = obsolete \ {p}

(* Slip: a source compiled once stays so. *)
CompileOnce == Forced \/ info[Top.cur].compile_time = 0

(* Slip: the path being linted is compiled only if it changed. *)
CompileIfNewer == disk[Top.cur] > info[Top.cur].compile_time

(* Slip: a path named in a hint is compiled only if it changed. *)
ForceTargetOnly ==
  (Forced /\ Len(stack) = 1) \/ disk[Top.cur] > info[Top.cur].compile_time

MustCompile == Forced \/ disk[Top.cur] > info[Top.cur].compile_time

(* BaseBuilder.build, under its lock: run the compiler. *)
Compile ==
  /\ Building("build") /\ MustCompile
  /\ raced' = raced \ {Top.cur}
  /\ \E v \in Verdicts(Top.cur), waited \in BOOLEAN :
       /\ waited => waits < MaxWaits
       /\ waits' = IF waited THEN waits + 1 ELSE waits
       /\ SetTop([Top EXCEPT !.at = "store", !.failed = v.failed,
                             !.rebuilds = v.rebuilds \cup (IF waited THEN {Top.cur} ELSE {})])
       /\ IF v.failed THEN UNCHANGED <<compiled, obsolete>>
          ELSE Compiles(Top.cur)
  /\ UNCHANGED <<needs, disk, edits, wrong, edited, info, lint>>

(* _buildAndHandleRebuilds: records without hints are the answer and get   *)
(* yielded, those of a dependency if they are errors; hints are handled.   *)
Answer(frame) ==
  IF frame.rebuilds # {}
  THEN SetTop([frame EXCEPT !.at = "handle"]) /\ UNCHANGED lint
  ELSE /\ SetTop([frame EXCEPT !.at = "next"])
       /\ UNCHANGED target
       /\ errors' = IF Len(stack) = 1 /\ ~ Forced /\ frame.failed
                    THEN errors \cup {frame.cur} ELSE errors
       /\ outcome' = IF Len(stack) = 1 /\ Forced
                     THEN IF frame.failed THEN "errors" ELSE "clean" ELSE outcome

(* Slip: an error is remembered like any other result. *)
StoreErrorsToo ==
  /\ At("store")
  /\ info' = [info EXCEPT ![Top.cur] =
       [compile_time |-> disk[Top.cur], failed |-> Top.failed, rebuilds |-> Top.rebuilds]]
  /\ Answer(Top)
  /\ UNCHANGED <<needs, files, library>>

(* Without the lock: the result goes to the cache, with the mtime the file *)
(* has by now, or 0 if there was an error.                                 *)
Store ==
  /\ At("store")
  /\ info' = [info EXCEPT ![Top.cur] =
       [compile_time |-> IF Top.failed THEN 0 ELSE disk[Top.cur],
        failed |-> Top.failed, rebuilds |-> Top.rebuilds]]
  /\ Answer(Top)
  /\ UNCHANGED <<needs, files, library>>

(* Nothing to do for a source that has not changed. *)
UseCached ==
  /\ Building("build") /\ ~ MustCompile
  /\ Answer([Top EXCEPT !.failed = info[Top.cur].failed,
                        !.rebuilds = info[Top.cur].rebuilds])
  /\ UNCHANGED <<needs, files, library, info>>

(* _handleRebuilds: one hint after the other. *)
Handle(p) ==
  /\ At("handle") /\ p \in Top.rebuilds
  /\ stack' = <<CallOf(p), [Top EXCEPT !.rebuilds = @ \ {p}]>> \o Tail(stack)
  /\ UNCHANGED <<needs, files, library, info, lint>>

(* Slip: the attempts are not counted. *)
TryForever ==
  /\ At("handle") /\ Top.rebuilds = {}
  /\ SetTop([Top EXCEPT !.at = "build"])
  /\ UNCHANGED <<needs, files, library, info, lint>>

TryAgain ==
  /\ At("handle") /\ Top.rebuilds = {}
  /\ SetTop([Top EXCEPT !.at = "build", !.tries = @ + 1])
  /\ UNCHANGED <<needs, files, library, info, lint>>

(* "Unable to build": whatever the records said is dropped. *)
GiveUp ==
  /\ At("build") /\ Top.tries = MaxAttempts
  /\ SetTop([Top EXCEPT !.at = "next"])
  /\ outcome' = IF Len(stack) = 1 /\ Forced THEN "gave up" ELSE outcome
  /\ UNCHANGED <<needs, files, library, info, target, errors>>

(* The sequence is done; the records of a rebuild are dropped. *)
Return ==
  /\ At("next") /\ Top.todo = {}
  /\ stack' = Tail(stack)
  /\ UNCHANGED <<needs, files, library, info, lint>>

Step ==
  \/ \E p \in Paths : Begin(p) \/ Handle(p)
  \/ Compile \/ Store \/ UseCached \/ TryAgain \/ GiveUp \/ Return

Next == Step \/ \E p \in Paths : Edit(p) \/ Lint(p)

Spec == Init /\ [][Next]_vars

(* A lint that has begun runs on; the user need not edit or lint. *)
FairSpec == Spec /\ WF_vars(Step)

-----------------------------------------------------------------------------
Frame ==
  [path : Paths, todo : SUBSET Paths, cur : Paths, tries : 0 .. MaxAttempts,
   rebuilds : SUBSET Paths, failed : BOOLEAN, at : {"next", "build", "store", "handle"}]

(* Types; what is obsolete has been compiled. *)
TypeOK ==
  /\ needs \in Graphs
  /\ disk \in [Paths -> Versions] /\ edits \in 0 .. MaxEdits
  /\ wrong \subseteq Paths /\ edited \subseteq Paths /\ raced \subseteq Paths
  /\ compiled \in [Paths -> 0 .. MaxEdits + 1] /\ \A p \in Paths : compiled[p] <= disk[p]
  /\ obsolete \subseteq {p \in Paths : compiled[p] # 0}
  /\ waits \in 0 .. MaxWaits
  /\ info \in [Paths -> [compile_time : 0 .. MaxEdits + 1, failed : BOOLEAN, rebuilds : SUBSET Paths]]
  /\ stack \in Seq(Frame)
  /\ target \in Paths \cup {None} /\ errors \subseteq Paths
  /\ outcome \in {"none", "clean", "errors", "gave up"}

(* The attempts to build a source run out only because a source it needs   *)
(* is wrong: nobody can then compile what is obsolete. They also do so     *)
(* when a warning named units to rebuild, because the answer to the next   *)
(* attempt is that same warning out of the cache                           *)
(* (base_builder.py:447-449). An edit meanwhile begins afresh. Otherwise   *)
(* hints do not go round in circles, although every unit that is compiled  *)
(* makes others obsolete (core.py:427-450).                                *)
GivesUpForAReason ==
  \A k \in DOMAIN stack :
    LET f == stack[k] IN
    f.tries = MaxAttempts =>
      \/ Cone(f.cur) \cap wrong # {} \/ (Cone(f.cur) \cup {f.cur}) \cap edited # {}
      \/ f.cur # f.path /\ ~ info[f.cur].failed /\ info[f.cur].rebuilds # {}

(* A hint leads to a call which may come across hints of its own: a lint   *)
(* ends all the same (core.py:439, 460-486).                               *)
LintsEnd == (stack # <<>>) ~> (stack = <<>>)

Finished == stack = <<>> /\ target # None

(* A finished lint leaves no dependency of the target behind: the          *)
(* libraries hold its latest text, or an error of it or of something that  *)
(* it needs has been yielded. Not so when one of these was saved while the *)
(* lint ran, or between its last compile and the storing of its mtime:     *)
(* that one is taken for compiled until it is saved again                  *)
(* (base_builder.py:441).                                                  *)
NothingIsLeftBehind ==
  Finished =>
    \A d \in Cone(target) :
      LET its == Cone(d) \cup {d} IN
      compiled[d] = disk[d] \/ its \cap (errors \cup edited \cup raced) # {}

(* The paths whose errors the lint has yielded. *)
Shown == errors \cup (IF outcome = "errors" THEN {target} ELSE {})

(* Unless something was edited meanwhile, an error yielded leads to one of *)
(* the text: the path, or something that it needs, is wrong, and the error *)
(* of that one is yielded too. Nobody gets to see that a unit is obsolete, *)
(* nor a unit that is missing without the reason, nor an error of a text   *)
(* that has been put right since (core.py:440-450,                         *)
(* base_builder.py:443-444).                                               *)
ErrorsAreReal ==
  Finished /\ edited = {} =>
    \A p \in Shown : (Cone(p) \cup {p}) \cap wrong \cap Shown # {}

(* When the target came out clean nothing it was compiled against was      *)
(* obsolete, or is so by the end of the lint (core.py:410-418).            *)
CleanMeansFresh ==
  Finished /\ outcome = "clean" => (Cone(target) \cup {target}) \cap obsolete = {}
=============================================================================
