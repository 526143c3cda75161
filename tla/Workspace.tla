----------------------------- MODULE Workspace -----------------------------
(***************************************************************************)
(* Lints of saved files and lints of text that has not been saved, in      *)
(* several threads of one core.                                            *)
(*                                                                         *)
(* Text is written to a temporary file, which joins the database in the    *)
(* library of its document while it is linted, is compiled into the same   *)
(* library, and is removed at the end.  The core's lock is held for all of *)
(* that, but a lint of a saved file only needs it to reach the database or *)
(* the builder: a call it has begun goes on meanwhile, and what it returns *)
(* is used afterwards.                                                     *)
(*                                                                         *)
(* Every file here is one of the project, with its library and flags.  The *)
(* order of compilation is the subject of BuildSequence, compiling again   *)
(* that of Rebuild and the diagnostics of the database that of Libraries:  *)
(* here what is depended on depends on nothing.                            *)
(***************************************************************************)
EXTENDS StaticCheck, CompilerOutput

CONSTANTS
  Files,        (* the sources of the project                               *)
  Temps,        (* names of temporary files, none of them used twice        *)
  Texts,        (* what each file may say                                   *)
  LibraryOf,    (* library that the configuration gives it                  *)
  FlagsOf,      (* and flags                                                *)
  NotInProject,
  Tool,         (* the builder                                              *)
  Threads,
  MaxSaved,     (* bound: lints of saved files                              *)
  MaxSaves,     (* bound: files saved                                       *)
  MaxFailures   (* bound: lints in which running the compiler fails         *)

Paths    == Files \cup Temps
Versions == UNION {{[file |-> f, n |-> n] : n \in DOMAIN Texts[f]} : f \in Files}

ASSUME WorkspaceAssumption ==
  /\ Files \cap Temps = {} /\ None \notin Paths \cup Threads /\ None \notin Versions
  /\ \A f \in Files : 1 \in DOMAIN Texts[f]
  /\ Tool \in Tools /\ {MaxSaved, MaxSaves, MaxFailures} \subseteq Nat

TextOf(version) == Texts[version.file][version.n]

(* What the parsers and the static checks find in each version. *)
Units     == [v \in Versions |-> UnitsOf(TextOf(v))]
UnitWords == [v \in Versions |-> {unit.name.word : unit \in Units[v]}]
Needs     == [v \in Versions |-> {d \in DependenciesOf(TextOf(v)) : d.kind = "unit"}]
Static    == [v \in Versions |-> StaticMessages(TextOf(v))]

(* Texts and flags; a line that has the place of a unit gives its name. *)
Spelled == [word : Words, caps : BOOLEAN]

Line == [kind : STRING, names : Seq(Spelled), library : Spelled \cup {None}, at : Nat, gap : Nat,
         where : {"code", "comment", "freed"}, closed : BOOLEAN, lower : BOOLEAN]

Flags == [source_specific : Seq(STRING), single : Seq(STRING), dependencies : Seq(STRING)]

ASSUME TextAssumption ==
  \A v \in Versions :
    /\ TextOf(v).type = "vhdl" /\ TextOf(v).lines \in Seq(Line)
    /\ \A i \in Lines(TextOf(v), UnitKinds(TextOf(v))) : TextOf(v).lines[i].names # <<>>

ASSUME FlagsAssumption == None \notin Flags /\ \A f \in Files : FlagsOf[f] \in Flags

ASSUME OneLevelAssumption ==
  \A v, w \in Versions : \A d \in Needs[v] :
    d.name.word \in UnitWords[w] => {e.name.word : e \in Needs[w]} \subseteq UnitWords[w]

VARIABLES
  disk,      (* version each file has, None for one that does not exist     *)
  fresh,     (* temporary names that have not been used                     *)
  db,        (* the Database: paths, parsed, library, flags                 *)
  builder,   (* added: libraries it has created, and built: the version     *)
             (* each path had when it was compiled without errors, or None  *)
  work,      (* the compiled libraries: made, and contents, their units     *)
  lock,      (* owner of the core's lock                                    *)
  resolved,  (* resolveDependencyToPath's cache                             *)
  thread,    (* the lint in each thread                                     *)
  budget,    (* lints of saved files, saves and failures so far             *)
  ended,     (* what the lint that has just ended published or died of      *)
  tried,     (* history: files of which unsaved text was compiled since     *)
             (* they were last compiled themselves                          *)
  left       (* history: temporary files of lints that died                 *)

shared == <<disk, fresh, db, builder, work>>
vars   == <<shared, lock, resolved, thread, budget, ended, tried, left>>

Idle == [pc |-> "idle", doc |-> None, path |-> None, version |-> None, owners |-> {},
         todo |-> <<>>, commands |-> {}, diags |-> {}, overlapped |-> FALSE, alone |-> FALSE]

Nothing == [files |-> {}, named |-> {}, shown |-> {}, death |-> None]

Init ==
  /\ disk = [p \in Paths |-> IF p \in Files THEN [file |-> p, n |-> 1] ELSE None]
  /\ fresh = Temps
  /\ db = [paths   |-> Files,
           parsed  |-> disk,
           library |-> [p \in Paths |-> IF p \in Files THEN LibraryOf[p] ELSE None],
           flags   |-> [p \in Paths |-> IF p \in Files THEN FlagsOf[p] ELSE None]]
  /\ builder = [added |-> {}, built |-> [p \in Paths |-> None]]
  /\ work = [made |-> {}, contents |-> {}]
  /\ lock = None /\ resolved = {}
  /\ thread = [t \in Threads |-> Idle]
  /\ budget = [saved |-> 0, saves |-> 0, failures |-> 0]
  /\ ended = Nothing
  /\ tried = {} /\ left = {}

IsText(local) == local.path # local.doc

-----------------------------------------------------------------------------
(* The compiler: the library must have been made, a unit that is used must *)
(* be in its library, and a name that is called must be declared in the    *)
(* text of a unit that is used.                                            *)
LibraryFor(dependency, library) ==
  IF dependency.library = None THEN library ELSE dependency.library.word

Declares(version) ==
  UNION {{n.word : n \in Range(line.names)} :
           line \in {line \in Range(TextOf(version).lines) : line.kind = "function"}}

Output(path, version, library, made, units) ==
  LET text  == TextOf(version)
      Says(what, about, where, line) ==
        [level |-> "error", what |-> what, about |-> about, path |-> where, names |-> path,
         code |-> what, line |-> line, column |-> IF line = None THEN None ELSE 1,
         gives_up |-> FALSE, hint |-> [kind |-> "none"]]
      Found(d) == {u \in units : u.word = d.name.word /\ u.library = LibraryFor(d, library)}
      missing  == {d \in Needs[version] : Found(d) = {} /\ d.name.word \notin UnitWords[version]}
      declared == UNION {Declares(u.from) : u \in UNION {Found(d) : d \in Needs[version]}}
      calls    == {i \in DOMAIN text.lines : text.lines[i].kind = "call"
                                              /\ text.lines[i].names[1].word \notin declared}
  IN  IF library \notin made THEN {Says("no library", library, None, None)}
      ELSE {Says("not found", d.name.word, path, 1) : d \in missing}
           \cup {Says("not declared", text.lines[i].names[1].word, None, None) : i \in calls}
           \cup {[Says("gave up", None, path, 1) EXCEPT !.gives_up = TRUE]}

-----------------------------------------------------------------------------
(* _createLibraryIfNeeded for the library compiled into and those of the   *)
(* dependencies: a library counts as created before it is.                 *)
LibrariesFor(path, library) ==
  {library} \cup {IF d.library = None THEN Work ELSE d.library.word : d \in Needs[disk[path]]}

(* build, once it has decided to compile the file at a path. *)
Compiled(path, library, scope) ==
  LET version  == disk[path]
      type     == TextOf(version).type
      flags    == IF db.flags[path] = None THEN NoFlags ELSE db.flags[path]
      added    == builder.added \cup LibrariesFor(path, library)
      made     == work.made \cup (added \ builder.added)
      gathered == Gathered(Tool, Output(path, version, library, made, work.contents), path, library,
                           {d.name.word : d \in Needs[version]})
      failed   == \E diag \in gathered.diags : diag.severity = "error"
      new      == {[word |-> w, library |-> library, from |-> version] : w \in UnitWords[version]}
  IN  [diags    |-> gathered.diags,
       commands |-> Commands(Tool, library, CompileFlags(Tool, flags, scope, type), path),
       builder  |-> [added |-> added,
                     built |-> [builder.built EXCEPT ![path] = IF failed THEN None ELSE version]],
       work     |-> [made |-> made,
                     contents |->
                       IF failed THEN work.contents
                       ELSE {u \in work.contents :
                               ~ \E n \in new : n.word = u.word /\ n.library = u.library} \cup new]]

-----------------------------------------------------------------------------
Set(t, local) == thread' = [thread EXCEPT ![t] = local]
Free(t) == lock \in {None, t}

(* What the library has of a file is not what is on the disk, and the file *)
(* will not be compiled because of it.                                     *)
Stale(f) ==
  \E u \in work.contents :
    /\ u.from.file = f /\ u.from # disk[f]
    /\ builder.built[f] = disk[f] \/ u.word \notin UnitWords[disk[f]]

Undisturbed(t) ==
  /\ \A u \in Threads \ {t} : thread[u].pc = "idle"
  /\ left = {} /\ builder.added \subseteq work.made
  /\ \A f \in Files : db.parsed[f] = disk[f] /\ ~ Stale(f)

(* getMessagesByPath: the core's cache is cleared and the text is checked. *)
LintSaved(t, doc) ==
  /\ thread[t].pc = "idle" /\ lock = None /\ budget.saved < MaxSaved
  /\ budget' = [budget EXCEPT !.saved = @ + 1]
  /\ Set(t, [Idle EXCEPT !.pc = "start", !.doc = doc, !.path = doc, !.version = disk[doc],
                         !.diags = {Pointed(diag, doc) : diag \in Static[disk[doc]]}])
  /\ resolved' = {}
  /\ ended' = Nothing /\ UNCHANGED <<shared, lock, tried, left>>

(* Slip: the flags for a single file go where the code puts those for      *)
(* dependencies, and the other way round.                                  *)
GivenSwapped(doc) ==
  [source_specific |-> FlagsFor(db.flags[doc], "dependencies"),
   single          |-> FlagsFor(db.flags[doc], "single"),
   dependencies    |-> <<>>]

(* The flags of a temporary file are those of its document one parameter   *)
(* off.                                                                    *)
Given(doc) ==
  [source_specific |-> FlagsFor(db.flags[doc], "single"),
   single          |-> FlagsFor(db.flags[doc], "dependencies"),
   dependencies    |-> <<>>]

(* getMessagesWithText, and getMessagesByPath for the temporary file. *)
Write(t, doc, n) ==
  LET temp    == CHOOSE temp \in fresh : TRUE
      version == [file |-> doc, n |-> n]
  IN  /\ fresh' = fresh \ {temp}
      /\ disk' = [disk EXCEPT ![temp] = version]
      /\ db' = [db EXCEPT !.paths = @ \cup {temp}, !.parsed[temp] = version,
                          !.library[temp] = db.library[doc], !.flags[temp] = Given(doc)]
      /\ thread' = [u \in Threads |->
           IF u # t THEN [thread[u] EXCEPT !.overlapped = (@ \/ thread[u].pc # "idle")]
           ELSE [Idle EXCEPT !.pc = "start", !.doc = doc, !.path = temp, !.version = version,
                   !.alone = Undisturbed(t),
                   !.diags = {Pointed(diag, temp) : diag \in Static[version]}]]
      /\ resolved' = {}
      /\ ended' = Nothing /\ UNCHANGED <<builder, work, budget, tried, left>>

(* Slip: the core's lock is not taken. *)
LintTextUnlocked(t, doc, n) ==
  /\ thread[t].pc = "idle" /\ lock = None /\ fresh # {} /\ n # disk[doc].n
  /\ Write(t, doc, n) /\ UNCHANGED lock

(* Text that is not what the file has. *)
LintText(t, doc, n) ==
  /\ thread[t].pc = "idle" /\ lock = None /\ fresh # {} /\ n # disk[doc].n
  /\ Write(t, doc, n) /\ lock' = t

(* The core's property database waits for the lock. *)
Start(t) ==
  /\ thread[t].pc = "start" /\ Free(t)
  /\ Set(t, [thread[t] EXCEPT !.pc = "owners"])
  /\ ended' = Nothing /\ UNCHANGED <<shared, lock, resolved, budget, tried, left>>

-----------------------------------------------------------------------------
Defines(version, name) == \E unit \in Units[version] : SameName(unit.name, name)

Owners(name) == {p \in Paths : db.parsed[p] # None /\ Defines(db.parsed[p], name)}

(* getDependenciesUnits: the units a text of a library needs. *)
Wanted(version, library) ==
  {w \in {[library |-> LibraryFor(d, library), name |-> d.name] : d \in Needs[version]} :
     ~ (w.library = library /\ Defines(version, w.name))}

(* getPathsDefining begins with a copy of the units. *)
Known(version, library) ==
  UNION {{[unit |-> w, path |-> p] : p \in Owners(w.name)} : w \in Wanted(version, library)}

(* The owners are then looked at again as their libraries are asked for.   *)
(* The entry of an owner that has been removed since comes back to the map *)
(* of libraries.                                                           *)
LookedAt(owners) ==
  LET seen == {o.path : o \in owners}
  IN  [db EXCEPT !.parsed  = [p \in Paths |-> IF p \in seen THEN disk[p] ELSE @[p]],
                 !.library = [p \in Paths |-> IF p \in seen /\ p \notin db.paths
                                               THEN NotInProject ELSE @[p]]]

(* _getBuildSequence: owners in the right library come before all others,  *)
(* they are taken in any order, and one that adds no unit to those of the  *)
(* ones before it is skipped.                                              *)
Sequences(owners, library) ==
  LET Near(o) == library[o.path] = o.unit.library
      chosen  == {o.path : o \in {o \in owners :
                    Near(o) \/ ~ \E other \in owners : other.unit = o.unit /\ Near(other)}}
      there   == {p \in chosen : disk[p] # None}
      Adds(p) == {[library |-> library[p], word |-> w] : w \in UnitWords[disk[p]]}
      From(P) == UNION {Adds(p) : p \in P}
  IN  {todo \in BoundedSeq(there, Cardinality(there)) :
         /\ \A i \in DOMAIN todo : ~ Adds(todo[i]) \subseteq From({todo[j] : j \in 1 .. i - 1})
         /\ From(there) \subseteq From(Range(todo))}

FindOwners(t) ==
  /\ thread[t].pc = "owners"
  /\ LET path == thread[t].path
     IN  /\ db' = [db EXCEPT !.parsed[path] = disk[path]]
         /\ Set(t, [thread[t] EXCEPT !.pc = "sequence",
                                     !.owners = Known(disk[path], db.library[path])])
  /\ ended' = Nothing /\ UNCHANGED <<disk, fresh, builder, work, lock, resolved, budget, tried, left>>

FindSequence(t) ==
  /\ thread[t].pc = "sequence"
  /\ db' = LookedAt(thread[t].owners)
  /\ \E todo \in Sequences(thread[t].owners, LookedAt(thread[t].owners).library) :
       Set(t, [thread[t] EXCEPT !.pc = "enter", !.owners = {}, !.todo = todo])
  /\ ended' = Nothing /\ UNCHANGED <<disk, fresh, builder, work, lock, resolved, budget, tried, left>>

(* The core's property builder waits for the lock. *)
Enter(t) ==
  /\ thread[t].pc = "enter" /\ Free(t)
  /\ Set(t, [thread[t] EXCEPT !.pc = IF thread[t].todo # <<>> THEN "dependency" ELSE "own"])
  /\ ended' = Nothing /\ UNCHANGED <<shared, lock, resolved, budget, tried, left>>

(* An exception ends a lint.  The lock is given back, but a temporary file *)
(* stays in the database and on the disk.                                  *)
Die(t, failed) ==
  /\ ended' = [Nothing EXCEPT !.death = [text |-> IsText(thread[t]), failed |-> failed,
                                         overlapped |-> thread[t].overlapped]]
  /\ left' = IF IsText(thread[t]) THEN left \cup {thread[t].path} ELSE left
  /\ lock' = IF lock = t THEN None ELSE lock
  /\ Set(t, Idle)
  /\ UNCHANGED <<disk, fresh, db, resolved, tried>>

(* The mtime of a temporary file that is gone cannot be read. *)
DependencyIsGone(t) ==
  /\ thread[t].pc = "dependency" /\ disk[Head(thread[t].todo)] = None
  /\ Die(t, FALSE) /\ UNCHANGED <<budget, builder, work>>

(* Running a command fails: one that creates a library, the one compiled   *)
(* into being the first of them, or one that compiles.                     *)
Creations(new, first) ==
  {c \in [made : SUBSET new, failed : {{}} \cup {{l} : l \in new}] :
     /\ c.failed \cap c.made = {} /\ (c.failed = {} => c.made = new)
     /\ first \in new => first \in c.made \/ (c.made = {} /\ c.failed = {first})}

CommandFails(t) ==
  /\ thread[t].pc \in {"dependency", "own"} /\ budget.failures < MaxFailures
  /\ LET path == IF thread[t].pc = "own" THEN thread[t].path ELSE Head(thread[t].todo)
         library == db.library[path]
     IN  /\ disk[path] # None /\ (thread[t].pc = "own" \/ builder.built[path] # disk[path])
         /\ \E c \in Creations(LibrariesFor(path, library) \ builder.added, library) :
              /\ builder' = [builder EXCEPT !.added = @ \cup c.made \cup c.failed]
              /\ work' = [work EXCEPT !.made = @ \cup c.made]
  /\ budget' = [budget EXCEPT !.failures = @ + 1]
  /\ Die(t, TRUE)

Since(path) == IF path \in Files THEN tried \ {path} ELSE tried \cup {disk[path].file}

BuildDependency(t) ==
  /\ thread[t].pc = "dependency" /\ disk[Head(thread[t].todo)] # None
  /\ LET path   == Head(thread[t].todo)
         result == Compiled(path, db.library[path], "dependencies")
         local  == [thread[t] EXCEPT !.pc = "enter", !.todo = Tail(@)]
     IN  IF builder.built[path] = disk[path]
         THEN Set(t, local) /\ UNCHANGED <<builder, work, tried>>
         ELSE /\ builder' = result.builder /\ work' = result.work
              /\ tried' = Since(path)
              /\ Set(t, [local EXCEPT !.diags = @ \cup {d \in result.diags : d.severity = "error"}])
  /\ ended' = Nothing /\ UNCHANGED <<disk, fresh, db, lock, resolved, budget, left>>

OwnIsBuilt(t, result) ==
  /\ tried' = Since(thread[t].path)
  /\ Set(t, [thread[t] EXCEPT !.pc = "finish", !.diags = @ \cup result.diags,
                              !.commands = result.commands])
  /\ ended' = Nothing /\ UNCHANGED <<disk, fresh, db, lock, resolved, budget, left>>

(* Slip: the linted file is compiled only if it has changed. *)
BuildOwnIfNeeded(t) ==
  /\ thread[t].pc = "own"
  /\ LET path   == thread[t].path
         result == Compiled(path, db.library[path], "single")
     IN  /\ IF builder.built[path] = disk[path] THEN UNCHANGED <<builder, work>>
            ELSE builder' = result.builder /\ work' = result.work
         /\ OwnIsBuilt(t, result)

(* The file itself is compiled in any case. *)
BuildOwn(t) ==
  /\ thread[t].pc = "own"
  /\ LET result == Compiled(thread[t].path, db.library[thread[t].path], "single")
     IN  /\ builder' = result.builder /\ work' = result.work
         /\ OwnIsBuilt(t, result)

-----------------------------------------------------------------------------
(* resolveDependencyToPath: the source itself, or the first in its build   *)
(* sequence that defines the name.                                         *)
Resolved(path, version, dependency, sequence) ==
  LET paths == <<path>> \o sequence
      hits  == {i \in DOMAIN paths :
                  Defines(IF paths[i] = path THEN version ELSE disk[paths[i]], dependency.name)}
  IN  IF hits = {} THEN None ELSE paths[CHOOSE i \in hits : \A other \in hits : i <= other]

(* Those whose target is cached are not looked for. *)
Resolutions(path, version, sequence) ==
  resolved \cup
    {[owner |-> path, dependency |-> d, target |-> Resolved(path, version, d, sequence)] :
       d \in {d \in Needs[version] : ~ \E r \in resolved : r.owner = path /\ r.dependency = d}}

Unresolved(path, resolutions) ==
  {[checker |-> "core", filename |-> path, what |-> "unresolved", about |-> pair[1].dependency.name.word,
    names |-> None, code |-> None, severity |-> "style error",
    line |-> pair[2].line, column |-> pair[2].column] :
     pair \in UNION {{r} \X r.dependency.locations :
       r \in {r \in resolutions : r.owner = path /\ r.target = None}}}

(* Slip: only the file of a diagnostic is put back, not the name in its    *)
(* text.                                                                   *)
RenamedFileOnly(diag, temp, doc) ==
  IF diag.filename \in {temp, None} THEN [diag EXCEPT !.filename = doc] ELSE diag

(* A diagnostic of the temporary file becomes one of the document. *)
Renamed(diag, temp, doc) ==
  IF diag.filename \in {temp, None}
  THEN [diag EXCEPT !.filename = doc, !.names = IF @ = temp THEN doc ELSE @]
  ELSE diag

Publish(doc, diags) ==
  LET published == Published(diags, doc)
  IN  ended' = [files |-> DOMAIN published,
                named |-> {diag.names : diag \in diags} \cap Paths,
                shown |-> published[doc], death |-> None]

(* getMessagesByPath after the builder: the dependencies are resolved with *)
(* what the database has of the source now.                                *)
FinishSaved(t) ==
  /\ thread[t].pc = "finish" /\ ~ IsText(thread[t]) /\ lock = None
  /\ LET doc    == thread[t].doc
         owners == Known(disk[doc], db.library[doc])
         looked == LookedAt(owners)
     IN  /\ db' = [looked EXCEPT !.parsed[doc] = disk[doc]]
         /\ \E sequence \in Sequences(owners, looked.library) :
              LET resolutions == Resolutions(doc, disk[doc], sequence)
              IN  /\ resolved' = resolutions
                  /\ Publish(doc, thread[t].diags \cup
                       Unresolved(doc, {r \in resolutions : r.dependency \in Needs[disk[doc]]}))
  /\ Set(t, Idle)
  /\ UNCHANGED <<disk, fresh, builder, work, lock, budget, tried, left>>

FinishWith(t, looked) ==
  LET temp   == thread[t].path
      doc    == thread[t].doc
      owners == Known(disk[temp], db.library[temp])
  IN  /\ thread[t].pc = "finish" /\ IsText(thread[t])
      /\ \E sequence \in Sequences(owners, looked.library) :
           LET resolutions == Resolutions(temp, disk[temp], sequence)
               diags       == thread[t].diags \cup Unresolved(temp, resolutions)
           IN  Publish(doc, {Renamed(diag, temp, doc) : diag \in diags})
      /\ disk' = [disk EXCEPT ![temp] = None]
      /\ lock' = None /\ Set(t, Idle)
      /\ UNCHANGED <<fresh, builder, work, resolved, budget, tried, left>>

Looked(t) == LookedAt(Known(disk[thread[t].path], db.library[thread[t].path]))

(* Slip: the temporary file is removed from the disk only. *)
FinishTextKeeping(t) ==
  thread[t].pc = "finish" /\ IsText(thread[t]) /\ FinishWith(t, Looked(t)) /\ db' = Looked(t)

RemoveSource(database, path) ==
  [database EXCEPT !.paths = @ \ {path}, !.parsed[path] = None,
                   !.library[path] = None, !.flags[path] = None]

(* The rest of getMessagesWithText. *)
FinishText(t) ==
  /\ thread[t].pc = "finish" /\ IsText(thread[t]) /\ FinishWith(t, Looked(t))
  /\ db' = RemoveSource(Looked(t), thread[t].path)

(* A file is saved, in any thread of the editor. *)
Save(doc, n) ==
  /\ budget.saves < MaxSaves /\ disk[doc].n # n
  /\ budget' = [budget EXCEPT !.saves = @ + 1]
  /\ disk' = [disk EXCEPT ![doc].n = n]
  /\ thread' = [t \in Threads |-> [thread[t] EXCEPT !.alone = FALSE]]
  /\ ended' = Nothing /\ UNCHANGED <<fresh, db, builder, work, lock, resolved, tried, left>>

LintStep(t) ==
  \/ Start(t) \/ FindOwners(t) \/ FindSequence(t) \/ Enter(t)
  \/ BuildDependency(t) \/ DependencyIsGone(t) \/ CommandFails(t) \/ BuildOwn(t)
  \/ FinishSaved(t) \/ FinishText(t)

Next ==
  \/ \E t \in Threads :
       \/ LintStep(t)
       \/ \E doc \in Files : LintSaved(t, doc) \/ \E n \in DOMAIN Texts[doc] : LintText(t, doc, n)
  \/ \E doc \in Files : \E n \in DOMAIN Texts[doc] : Save(doc, n)

Spec == Init /\ [][Next]_vars

-----------------------------------------------------------------------------
TypeOK ==
  /\ disk \in [Paths -> Versions \cup {None}] /\ fresh \subseteq Temps
  /\ db.paths \subseteq Paths /\ db.parsed \in [Paths -> Versions \cup {None}]
  /\ builder.built \in [Paths -> Versions \cup {None}]
  /\ lock \in Threads \cup {None}
  /\ \A t \in Threads : thread[t].path \in Paths \cup {None}
  /\ tried \subseteq Files /\ left \subseteq Temps

(* What a compiler that has just compiled the files that are needed says   *)
(* of a text of doc, with the static checks and what cannot be resolved.   *)
Reference(doc, version) ==
  LET library == LibraryOf[doc]
      units   == UNION {{[word |-> w, library |-> LibraryOf[f], from |-> disk[f]]
                           : w \in UnitWords[disk[f]]} : f \in Files \ {doc}}
      output  == Output(doc, version, library, {library}, units)
      owners  == {o \in Known(version, library) : o.path \in Files}
      missing == {[owner |-> doc, dependency |-> d, target |-> None] :
                    d \in {d \in Needs[version] : ~ Defines(version, d.name)
                             /\ ~ \E o \in owners : Defines(disk[o.path], d.name)
                                                    /\ SameName(o.unit.name, d.name)}}
  IN  Published({Pointed(diag, doc) : diag \in Static[version]}
                \cup Gathered(Tool, output, doc, library, {}).diags
                \cup Unresolved(doc, missing), doc)[doc]

(* Text that is linted while nothing else goes on gets the diagnostics its *)
(* file would get if it were saved, at the same places and with the same   *)
(* words (getMessagesWithText).                                            *)
TextIsLintedLikeAFile ==
  [][\A t \in Threads :
       (thread[t].pc = "finish" /\ thread[t].alone /\ thread'[t].pc = "idle") =>
         ended'.shown = Reference(thread[t].doc, thread[t].version)]_vars

(* No diagnostic is shown for a temporary file or names one in its text,   *)
(* and while no text is being linted the database has no temporary file    *)
(* and none is on the disk, but for those of lints that died.              *)
NothingTemporaryIsLeft ==
  /\ left = {} => (ended.files \cup ended.named) \cap Temps = {}
  /\ lock = None => /\ {p \in Temps : p \in db.paths \/ db.parsed[p] # None} \subseteq left
                    /\ {p \in Temps : disk[p] # None} = left

(* A lint dies when a command cannot be run; a lint of a saved file also   *)
(* when it found a temporary file that was removed before it got to the    *)
(* builder.                                                                *)
LintsDieForAReason ==
  ended.death # None => ended.death.failed \/ (~ ended.death.text /\ ended.death.overlapped)

(* The library has the text that the builder's cache says it has, but for  *)
(* files whose unsaved text was compiled after the file.                   *)
LintingBringsTheFileBack ==
  \A f \in Files \ tried : \A u \in work.contents :
    (u.from.file = f /\ builder.built[f] # None /\ u.word \in UnitWords[builder.built[f]]) =>
      u.from = builder.built[f]

(* The flags unsaved text is compiled with end with those of its file, so  *)
(* that what is in front of them never has the last word.                  *)
FlagsOfTheFileComeLast ==
  \A t \in Threads : (thread[t].pc = "finish" /\ IsText(thread[t])) =>
    \A command \in thread[t].commands :
      IsSuffix(CompileFlags(Tool, FlagsOf[thread[t].doc], "single",
                            TextOf(thread[t].version).type), command.flags)
=============================================================================
