----------------------------- MODULE Navigation -----------------------------
(***************************************************************************)
(* What the language server answers to an editor that asks what a name     *)
(* means, in the thread that serves requests, while lints go on in others. *)
(*                                                                         *)
(* Definitions come from the core's cache of resolved dependencies, which  *)
(* only the start of a lint clears; references from the dependencies that  *)
(* the database has.                                                       *)
(***************************************************************************)
EXTENDS Workspace

CONSTANT MaxRequests   (* bound: requests of the editor *)

ASSUME NavigationAssumption == MaxRequests \in Nat

VARIABLES
  request,   (* the request that is being served                            *)
  answer,    (* the locations of the one that has just been answered        *)
  requests,  (* requests so far                                             *)
  doubt      (* history: since a lint began, a source that had changed was  *)
             (* parsed while a name was resolved or with the cache in use,  *)
             (* or the cache was used while text was linted                 *)

navigation == <<request, answer, requests, doubt>>
all == <<vars, navigation>>

NoRequest == [pc |-> "none", owner |-> None, dependency |-> None, todo |-> <<>>,
              target |-> None]

NavigationInit ==
  /\ Init
  /\ request = NoRequest /\ requests = 0 /\ doubt = FALSE
  /\ answer = {}

-----------------------------------------------------------------------------
(* The history is kept in every step. *)
LintBegins == \E t \in Threads : thread[t].pc = "idle" /\ thread'[t].pc = "start"

Doubted ==
  doubt' = \/ ~ LintBegins /\ doubt
           \/ /\ db'.parsed # db.parsed /\ ~ LintBegins
              /\ resolved \cup resolved' # {} \/ request.pc # "none"
           \/ request'.pc # "none" /\ (lock # None \/ LintBegins)

(* getElementAtPosition of a dependency, for its definition or to show     *)
(* where it is defined, which differ at the end only.  The positions are   *)
(* those of the text as it is saved.                                       *)
AskAbout(doc, position) ==
  /\ request.pc = "none" /\ lock = None /\ requests < MaxRequests
  /\ requests' = requests + 1
  /\ db' = [db EXCEPT !.parsed[doc] = disk[doc]]
  /\ \E element \in {e \in ElementsAt(TextOf(disk[doc]), position) : "kind" \in DOMAIN e} :
       request' = [NoRequest EXCEPT !.pc = "resolve", !.owner = doc, !.dependency = element]
  /\ answer' = {} /\ ended' = Nothing
  /\ UNCHANGED <<disk, fresh, builder, work, lock, resolved, thread, budget, tried, left>>
  /\ Doubted

Answering ==
  /\ ended' = Nothing
  /\ UNCHANGED <<disk, fresh, builder, work, lock, thread, budget, tried, left, requests>>
  /\ Doubted

Found(target) ==
  /\ request' = [request EXCEPT !.pc = "answer", !.todo = <<>>, !.target = target]
  /\ resolved' = resolved \cup {[owner |-> request.owner, dependency |-> request.dependency,
                                 target |-> target]}

(* resolveDependencyToPath, from its cache: no lock is waited for. *)
Recall ==
  /\ request.pc = "resolve"
  /\ \E r \in resolved : /\ r.owner = request.owner /\ r.dependency = request.dependency
                         /\ Found(r.target)
  /\ answer' = {} /\ UNCHANGED db /\ Answering

(* Slip: the source itself is not looked at. *)
ResolveElsewhere ==
  /\ request.pc = "resolve" /\ lock = None
  /\ ~ \E r \in resolved : r.owner = request.owner /\ r.dependency = request.dependency
  /\ request' = [request EXCEPT !.pc = "sequence"]
  /\ answer' = {} /\ UNCHANGED <<db, resolved>> /\ Answering

(* Otherwise the database is reached through the core's lock, and the      *)
(* source itself is looked at first.                                       *)
Resolve ==
  /\ request.pc = "resolve" /\ lock = None
  /\ ~ \E r \in resolved : r.owner = request.owner /\ r.dependency = request.dependency
  /\ db' = [db EXCEPT !.parsed[request.owner] = disk[request.owner]]
  /\ IF Defines(disk[request.owner], request.dependency.name) THEN Found(request.owner)
     ELSE request' = [request EXCEPT !.pc = "sequence"] /\ UNCHANGED resolved
  /\ answer' = {} /\ Answering

(* The build sequence does not need the lock. *)
TakeSequence ==
  /\ request.pc = "sequence"
  /\ LET owners == Known(disk[request.owner], db.library[request.owner])
         looked == LookedAt(owners)
     IN  /\ db' = [looked EXCEPT !.parsed[request.owner] = disk[request.owner]]
         /\ \E todo \in Sequences(owners, looked.library) :
              request' = [request EXCEPT !.pc = "search", !.todo = todo]
  /\ answer' = {} /\ UNCHANGED resolved /\ Answering

(* Each path of it is looked at once the lock is free. *)
Search ==
  /\ request.pc = "search"
  /\ IF request.todo = <<>> THEN Found(None) /\ UNCHANGED db
     ELSE LET path == Head(request.todo)
          IN  /\ lock = None
              /\ db' = [db EXCEPT !.parsed[path] = disk[path]]
              /\ IF disk[path] # None /\ Defines(disk[path], request.dependency.name)
                 THEN Found(path)
                 ELSE request' = [request EXCEPT !.todo = Tail(@)] /\ UNCHANGED resolved
  /\ answer' = {} /\ Answering

(* Where the target defines the name. *)
DefinedIn(path, name) ==
  IF disk[path] = None THEN {}
  ELSE {[path |-> path, at |-> at] :
          at \in UNION {unit.locations : unit \in {unit \in Units[disk[path]] :
                                                     SameName(unit.name, name)}}}

AnswerDefinition ==
  /\ request.pc = "answer"
  /\ IF request.target = None THEN answer' = {} /\ UNCHANGED db
     ELSE /\ lock = None
          /\ answer' = DefinedIn(request.target, request.dependency.name)
          /\ db' = [db EXCEPT !.parsed[request.target] = disk[request.target]]
  /\ request' = NoRequest /\ UNCHANGED resolved /\ Answering

(* getDependencyInfoForHover: the path, or that there is none. *)
AnswerHover ==
  /\ request.pc = "answer"
  /\ answer' = {[path |-> path, at |-> None] : path \in {request.target} \ {None}}
  /\ request' = NoRequest /\ UNCHANGED <<db, resolved>> /\ Answering

(* The other threads go on, and what they do to the cache is noted. *)
Meanwhile == answer' = {} /\ UNCHANGED <<request, requests>> /\ Doubted

NavigationNext ==
  \/ \E t \in Threads :
       \/ (Start(t) /\ Meanwhile) \/ (FindOwners(t) /\ Meanwhile) \/ (FindSequence(t) /\ Meanwhile)
       \/ (Enter(t) /\ Meanwhile) \/ (BuildDependency(t) /\ Meanwhile) \/ (BuildOwn(t) /\ Meanwhile)
       \/ (DependencyIsGone(t) /\ Meanwhile) \/ (CommandFails(t) /\ Meanwhile)
       \/ (FinishSaved(t) /\ Meanwhile) \/ (FinishText(t) /\ Meanwhile)
  \/ \E t \in Threads : \E doc \in Files :
       \/ (LintSaved(t, doc) /\ Meanwhile)
       \/ \E n \in DOMAIN Texts[doc] : (LintText(t, doc, n) /\ Meanwhile)
  \/ \E doc \in Files : \E n \in DOMAIN Texts[doc] : (Save(doc, n) /\ Meanwhile)
  \/ \E doc \in Files :
       \E d \in DependenciesOf(TextOf(disk[doc])) : \E at \in d.locations : AskAbout(doc, at)
  \/ Recall \/ Resolve \/ TakeSequence \/ Search \/ AnswerDefinition \/ AnswerHover

NavigationSpec == NavigationInit /\ [][NavigationNext]_all

-----------------------------------------------------------------------------
(* getReferencesToDesignUnit of a unit: what the sources depend on by its  *)
(* name, in its library or in no library that is named.                    *)
ReferencesInLibrary(path, unit) ==
  UNION {{[path |-> p, at |-> at] :
            at \in UNION {d.locations : d \in {d \in Needs[db.parsed[p]] :
                            /\ SameName(d.name, unit.name)
                            /\ d.library # None /\ d.library.word = db.library[path]}}}
         : p \in {p \in Paths : db.parsed[p] # None}}

ReferencesTo(path, unit) ==
  UNION {{[path |-> p, at |-> at] :
            at \in UNION {d.locations : d \in {d \in Needs[db.parsed[p]] :
                            /\ SameName(d.name, unit.name)
                            /\ d.library # None => d.library.word = db.library[path]}}}
         : p \in {p \in Paths : db.parsed[p] # None}}

(* A definition is found when a source of the database has it, and not in  *)
(* a temporary file, unless the cache was used at the wrong moment.        *)
DefinitionsAreFound ==
  [][request.pc = "answer" /\ request'.pc = "none" /\ ~ doubt' =>
       /\ answer' = {} =>
             \A f \in Files : ~ Defines(db'.parsed[f], request.dependency.name)
       /\ {location.path : location \in answer'} \subseteq Files \cup left]_all

(* The name of a unit is found when the cursor is on any of its letters,   *)
(* if one blank is before it and it is not on the first line; and each use *)
(* of a unit is among its references.                                      *)
NamesLeadBothWays ==
  \A f \in Files :
    LET text == TextOf(disk[f])
    IN  /\ \A i \in Lines(text, UnitKinds(text)) :
             (i > 1 /\ text.lines[i].gap = 1 /\ ~ Swallowed(text, i)) =>
               \A k \in 1..LengthOf[text.lines[i].names[1].word] :
                 \E e \in ElementsAt(text, [line |-> i - 1, column |-> text.lines[i].at + k]) :
                   SameName(e.name, Identifier(text.lines[i].names[1], text.type))
        /\ \A d \in Needs[disk[f]] : \A target \in Files : \A unit \in Units[disk[target]] :
             (/\ db.parsed[f] = disk[f] /\ db.parsed[target] = disk[target]
              /\ SameName(unit.name, d.name) /\ LibraryFor(d, db.library[f]) = db.library[target]) =>
               {[path |-> f, at |-> at] : at \in d.locations} \subseteq ReferencesTo(target, unit)
=============================================================================
