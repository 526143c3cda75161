-------------------------- MODULE WorkspaceProofs --------------------------
(***************************************************************************)
(* Proofs about lints of saved and unsaved text and about the requests     *)
(* that go on beside them, for any set of threads, any project whose files *)
(* depend on one level of others, any texts and any number of lints, saves *)
(* and failures.                                                           *)
(***************************************************************************)
EXTENDS Navigation, WellFoundedInduction, TLAPS

Places == {"idle", "start", "owners", "sequence", "enter", "dependency", "own", "finish"}

(* The shape of a lint. *)
Local(l) ==
  /\ DOMAIN l = DOMAIN Idle /\ l.pc \in Places /\ l.overlapped \in BOOLEAN
  /\ l.todo \in Seq(Paths) /\ \A o \in l.owners : o.path \in Paths
  /\ l.pc = "idle" => l.todo = <<>> /\ l.path = None
  /\ l.pc = "dependency" => l.todo # <<>>
  /\ l.pc # "idle" => /\ l.doc \in Files /\ l.path \in {l.doc} \cup Temps
                      /\ l.version \in Versions /\ l.version.file = l.doc

Database(d) ==
  /\ DOMAIN d = {"paths", "parsed", "library", "flags"}
  /\ d.paths \subseteq Paths /\ d.parsed \in [Paths -> Versions \cup {None}]
  /\ DOMAIN d.library = Paths /\ DOMAIN d.flags = Paths

Compiler(b, w) ==
  /\ DOMAIN b = {"added", "built"} /\ b.built \in [Paths -> Versions \cup {None}]
  /\ DOMAIN w = {"made", "contents"}

Typed ==
  /\ disk \in [Paths -> Versions \cup {None}] /\ fresh \subseteq Temps
  /\ Database(db) /\ Compiler(builder, work)
  /\ lock \in Threads \cup {None}
  /\ DOMAIN thread = Threads /\ \A t \in Threads : Local(thread[t])
  /\ tried \subseteq Files /\ left \subseteq Temps

(* A lint of text holds the lock from its beginning to its end, and whoever *)
(* has not met one sees the lock free.                                     *)
LockOK ==
  /\ \A t \in Threads : lock = t <=> thread[t].pc # "idle" /\ IsText(thread[t])
  /\ \A t \in Threads :
       thread[t].pc # "idle" /\ ~ thread[t].overlapped /\ ~ IsText(thread[t]) => lock = None

(* Files stay, with the library and the flags that they were given. *)
FilesOK ==
  \A f \in Files :
    /\ disk[f] # None /\ disk[f].file = f /\ db.parsed[f] # None
    /\ f \in db.paths /\ db.library[f] = LibraryOf[f] /\ db.flags[f] = FlagsOf[f]

(* Temporary files are those of the text that is being linted and of lints *)
(* that died; what is no more on the disk is no more in the database.      *)
TempsOK ==
  \A p \in Temps :
    /\ disk[p] # None <=> p \in left \/ \E t \in Threads : lock = t /\ thread[t].path = p
    /\ disk[p] # None <=> p \in db.paths
    /\ db.parsed[p] # None => disk[p] # None
    /\ disk[p] # None => db.library[p] = LibraryOf[disk[p].file]
    /\ p \in fresh => disk[p] = None

GivenTo(doc) ==
  [source_specific |-> FlagsFor(FlagsOf[doc], "single"),
   single          |-> FlagsFor(FlagsOf[doc], "dependencies"),
   dependencies    |-> <<>>]

(* The text in hand is the one in the temporary file. *)
TextOK ==
  \A t \in Threads : lock = t =>
    /\ disk[thread[t].path] = thread[t].version /\ thread[t].path \notin left
    /\ db.flags[thread[t].path] = GivenTo(thread[t].doc)

(* Of what a lint has yet to compile, only temporary files disappear, and  *)
(* those of other lints have done so, unless the lints died.               *)
TodoOK(t) ==
  /\ \A o \in thread[t].owners : o.path \notin fresh
  /\ \A k \in DOMAIN thread[t].todo :
       LET p == thread[t].todo[k] IN
       /\ p \notin fresh
       /\ disk[p] = None => thread[t].overlapped /\ ~ IsText(thread[t])
       /\ thread[t].pc = "dependency" /\ p \in Temps =>
            disk[p] = None \/ p \in left \cup {thread[t].path}

(* A diagnostic is about a file, or about the one linted. *)
About(diag, path) ==
  /\ DOMAIN diag = {"checker", "filename", "what", "about", "names", "code", "severity", "line", "column"}
  /\ diag.filename \in Files \cup {path} /\ diag.names \in Files \cup {None, path}
  /\ diag.names \in Temps => diag.filename = diag.names

DiagsOK(t) ==
  left = {} => \A diag \in thread[t].diags : About(diag, thread[t].path)

ThreadsOK == \A t \in Threads : TodoOK(t) /\ DiagsOK(t)

Inv == Typed /\ LockOK /\ FilesOK /\ TempsOK /\ TextOK /\ ThreadsOK

-----------------------------------------------------------------------------
LEMMA TextOrFile ==
  ASSUME Typed, NEW t \in Threads, thread[t].pc # "idle"
  PROVE  /\ IsText(thread[t]) <=> thread[t].path \in Temps
         /\ ~ IsText(thread[t]) <=> thread[t].path \in Files
         /\ thread[t].path \in Paths
BY WorkspaceAssumption DEF Typed, Local, IsText, Paths

(* What looking at files does to the database. *)
Looks(d) ==
  /\ Database(d) /\ d.paths = db.paths /\ d.flags = db.flags
  /\ \A p \in db.paths : d.library[p] = db.library[p]
  /\ \A p \in Paths : d.parsed[p] \in {db.parsed[p], disk[p]}

LEMMA LookingAtOwners == ASSUME Typed, NEW owners PROVE Looks(LookedAt(owners))
BY DEF Typed, Looks, LookedAt, Database

LEMMA LookingAtOne ==
  ASSUME Typed, NEW d, Looks(d), NEW p
  PROVE  Looks([d EXCEPT !.parsed[p] = disk[p]])
BY DEF Typed, Looks, Database

LEMMA LookingAway == ASSUME Typed PROVE Looks(db)
BY DEF Typed, Looks

(* A thread that looks at files disturbs no lint. *)
LEMMA LookStep ==
  ASSUME Inv, Looks(db'), UNCHANGED <<disk, fresh, builder, work, lock, thread, tried, left>>
  PROVE  Inv'
<1>1. Typed'
  BY DEF Inv, Typed, Looks
<1>2. LockOK'
  BY DEF Inv, LockOK
<1>3. FilesOK'
  BY DEF Inv, FilesOK, Looks, Paths
<1>4. TempsOK'
  BY DEF Inv, TempsOK, Looks, Paths
<1>5. TextOK'
  BY DEF Inv, TextOK, Looks
<1>6. ThreadsOK'
  BY DEF Inv, ThreadsOK, TodoOK, DiagsOK
<1>7. QED
  BY <1>1, <1>2, <1>3, <1>4, <1>5, <1>6 DEF Inv

(* A step of a lint that goes on.  What a lint finds, it looks at.         *)
GoesOn(t, local) ==
  /\ Set(t, local) /\ Local(local)
  /\ UNCHANGED <<disk, fresh, lock, left>> /\ Looks(db')
  /\ Compiler(builder', work') /\ tried' \subseteq Files
  /\ thread[t].pc # "idle" /\ local.pc # "idle"
  /\ local.doc = thread[t].doc /\ local.path = thread[t].path
  /\ local.version = thread[t].version /\ local.overlapped = thread[t].overlapped

LEMMA LintStepTyped ==
  ASSUME Inv, NEW t \in Threads, NEW local, GoesOn(t, local)
  PROVE  /\ Typed' /\ thread'[t] = local /\ \A u \in Threads \ {t} : thread'[u] = thread[u]
         /\ LockOK' /\ FilesOK' /\ TempsOK' /\ TextOK'
<1>1. /\ DOMAIN thread' = Threads /\ thread'[t] = local
      /\ \A u \in Threads \ {t} : thread'[u] = thread[u]
  BY DEF GoesOn, Set, Inv, Typed
<1>2. Typed'
  BY <1>1 DEF GoesOn, Looks, Inv, Typed
<1>3. \A u \in Threads : /\ thread'[u].pc # "idle" <=> thread[u].pc # "idle"
                         /\ thread'[u].path = thread[u].path /\ thread'[u].doc = thread[u].doc
                         /\ thread'[u].version = thread[u].version
                         /\ thread'[u].overlapped = thread[u].overlapped
  BY <1>1 DEF GoesOn
<1>4. LockOK'
  BY <1>3 DEF Inv, LockOK, GoesOn, IsText
<1>5. FilesOK'
  BY DEF Inv, FilesOK, GoesOn, Looks, Paths
<1>6. TempsOK'
  BY <1>3 DEF Inv, TempsOK, GoesOn, Looks, Paths
<1>7. TextOK'
  BY <1>3 DEF Inv, TextOK, GoesOn, Looks
<1>8. QED
  BY <1>1, <1>2, <1>4, <1>5, <1>6, <1>7

LEMMA OtherThreads ==
  ASSUME Inv, NEW t \in Threads, UNCHANGED <<disk, fresh, left>>,
         NEW u \in Threads, thread'[u] = thread[u]
  PROVE  TodoOK(u)' /\ DiagsOK(u)'
BY DEF Inv, ThreadsOK, TodoOK, DiagsOK

LEMMA LintStepOK ==
  ASSUME Inv, NEW t \in Threads, NEW local, GoesOn(t, local), TodoOK(t)', DiagsOK(t)'
  PROVE  Inv'
<1>1. UNCHANGED <<disk, fresh, left>>
  BY DEF GoesOn
<1>2. \A u \in Threads \ {t} : TodoOK(u)' /\ DiagsOK(u)'
  BY <1>1, LintStepTyped, OtherThreads
<1>3. QED
  BY <1>2, LintStepTyped DEF Inv, ThreadsOK

-----------------------------------------------------------------------------
(* What a lint has to compile is there when it finds it. *)
LEMMA SequenceType ==
  ASSUME NEW owners, NEW library, NEW todo \in Sequences(owners, library),
         \A o \in owners : o.path \in Paths
  PROVE  /\ todo \in Seq(Paths)
         /\ \A k \in DOMAIN todo : disk[todo[k]] # None /\ \E o \in owners : o.path = todo[k]
<1> DEFINE Near(o) == library[o.path] = o.unit.library
           chosen  == {o.path : o \in {o \in owners :
                         Near(o) \/ ~ \E other \in owners : other.unit = o.unit /\ Near(other)}}
           there   == {p \in chosen : disk[p] # None}
<1>1. todo \in BoundedSeq(there, Cardinality(there))
  BY DEF Sequences
<1>2. \A p \in there : p \in Paths /\ disk[p] # None /\ \E o \in owners : o.path = p
  OBVIOUS
<1> HIDE DEF there
<1>3. PICK m \in 0 .. Cardinality(there) : todo \in [1 .. m -> there]
  BY <1>1 DEF BoundedSeq, SeqOf
<1>4. m \in Nat
  BY <1>3
<1>5. todo \in Seq(there)
  BY <1>3, <1>4
<1>6. QED
  BY <1>2, <1>3, <1>5

LEMMA OwnersType ==
  ASSUME Inv, NEW version, NEW library, NEW o \in Known(version, library)
  PROVE  o.path \in Paths /\ o.path \notin fresh
<1>1. o.path \in Paths /\ db.parsed[o.path] # None
  BY DEF Known, Owners
<1>2. QED
  BY <1>1 DEF Inv, TempsOK, Typed

(* All that the compiler says while it compiles a file is about that file. *)
LEMMA OutputIsAbout ==
  ASSUME NEW path, NEW version, NEW library, NEW made, NEW units,
         NEW line \in Output(path, version, library, made, units)
  PROVE  line.path \in {path, None} /\ line.names = path
<1> DEFINE Says(what, about, where, number) ==
             [level |-> "error", what |-> what, about |-> about, path |-> where, names |-> path,
              code |-> what, line |-> number, column |-> IF number = None THEN None ELSE 1,
              gives_up |-> FALSE, hint |-> [kind |-> "none"]]
<1> DEFINE text     == TextOf(version)
           Used(d)  == {u \in units : u.word = d.name.word /\ u.library = LibraryFor(d, library)}
           missing  == {d \in Needs[version] : Used(d) = {} /\ d.name.word \notin UnitWords[version]}
           declared == UNION {Declares(u.from) : u \in UNION {Used(d) : d \in Needs[version]}}
           calls    == {i \in DOMAIN text.lines : text.lines[i].kind = "call"
                                                   /\ text.lines[i].names[1].word \notin declared}
<1>1. \/ line = Says("no library", library, None, None)
      \/ line \in {Says("not found", d.name.word, path, 1) : d \in missing}
      \/ line \in {Says("not declared", text.lines[i].names[1].word, None, None) : i \in calls}
      \/ line = [Says("gave up", None, path, 1) EXCEPT !.gives_up = TRUE]
  BY Zenon DEF Output
<1> HIDE DEF missing, calls
<1>3. CASE line = Says("no library", library, None, None)
  BY <1>3
<1>4. CASE line \in {Says("not found", d.name.word, path, 1) : d \in missing}
  <2>1. PICK d \in missing : line = Says("not found", d.name.word, path, 1)
    BY <1>4
  <2>2. QED
    BY <2>1
<1>5. CASE line \in {Says("not declared", text.lines[i].names[1].word, None, None) : i \in calls}
  <2>1. PICK i \in calls : line = Says("not declared", text.lines[i].names[1].word, None, None)
    BY <1>5
  <2>2. QED
    BY <2>1
<1>6. CASE line = [Says("gave up", None, path, 1) EXCEPT !.gives_up = TRUE]
  BY <1>6
<1>7. QED
  BY <1>1, <1>3, <1>4, <1>5, <1>6

LEMMA CompilerIsAbout ==
  ASSUME NEW path, path # None, NEW library, NEW scope, NEW diag \in Compiled(path, library, scope).diags
  PROVE  /\ DOMAIN diag = {"checker", "filename", "what", "about", "names", "code", "severity", "line", "column"}
         /\ diag.filename = path /\ diag.names = path
<1> DEFINE version == disk[path]
           made    == work.made \cup ((builder.added \cup LibrariesFor(path, library)) \ builder.added)
           output  == Output(path, version, library, made, work.contents)
<1>1. \E line \in output : \E record \in Records(Tool, line) : diag = Pointed(record, path)
  <2> DEFINE gathered == Gathered(Tool, output, path, library, {d.name.word : d \in Needs[version]})
  <2>1. diag \in gathered.diags
    BY DEF Compiled
  <2> HIDE DEF output
  <2>2. diag \in {Pointed(d, path) : d \in UNION {Records(Tool, line) : line \in {line \in output : ~ Ignored(Tool, line)}}}
    BY <2>1 DEF Gathered
  <2>3. QED
    BY <2>2
<1>2. \A line \in output : line.path \in {path, None} /\ line.names = path
  BY OutputIsAbout
<1> HIDE DEF output
<1>5. PICK line \in output : \E record \in Records(Tool, line) : diag = Pointed(record, path)
  BY <1>1
<1>6. PICK record \in Records(Tool, line) : diag = Pointed(record, path)
  BY <1>5
<1>3. /\ DOMAIN record = {"checker", "filename", "what", "about", "names", "code", "severity", "line", "column"}
      /\ record.filename = line.path /\ record.names = line.names
  BY WorkspaceAssumption DEF Records, Tools
<1>4. QED
  BY <1>2, <1>3, <1>6 DEF Pointed

LEMMA CompiledType ==
  ASSUME Typed, NEW path \in Paths, disk[path] # None, NEW library, NEW scope
  PROVE  LET result == Compiled(path, library, scope)
         IN  Compiler(result.builder, result.work) /\ Since(path) \subseteq Files
<1>1. disk[path] \in Versions /\ disk[path].file \in Files
  BY DEF Typed, Versions
<1>2. QED
  BY <1>1 DEF Typed, Compiler, Compiled, Since

-----------------------------------------------------------------------------
LEMMA StartOK == ASSUME Inv, NEW t \in Threads, Start(t) PROVE Inv'
<1> DEFINE local == [thread[t] EXCEPT !.pc = "owners"]
<1>0. Local(thread[t]) /\ thread[t].pc = "start"
  BY DEF Inv, Typed, Start
<1>1. /\ local.pc = "owners" /\ local.todo = thread[t].todo /\ local.owners = thread[t].owners
      /\ local.diags = thread[t].diags /\ local.path = thread[t].path /\ Local(local)
      /\ local.overlapped = thread[t].overlapped /\ local.doc = thread[t].doc
      /\ local.version = thread[t].version
  BY <1>0 DEF Local, Places, Idle
<1>2. Set(t, local)
  BY DEF Start
<1> HIDE DEF local
<1>3. GoesOn(t, local)
  BY <1>0, <1>1, <1>2, LookingAway DEF Start, GoesOn, shared, Inv, Typed
<1>4. TodoOK(t)' /\ DiagsOK(t)'
  BY <1>1, <1>3, LintStepTyped DEF Inv, ThreadsOK, TodoOK, DiagsOK, GoesOn, IsText
<1>5. QED
  BY <1>3, <1>4, LintStepOK

LEMMA FindOwnersOK == ASSUME Inv, NEW t \in Threads, FindOwners(t) PROVE Inv'
<1> DEFINE path   == thread[t].path
           owners == Known(disk[path], db.library[path])
           local  == [thread[t] EXCEPT !.pc = "sequence", !.owners = owners]
<1>0. Local(thread[t]) /\ thread[t].pc = "owners" /\ Typed
  BY DEF Inv, Typed, FindOwners
<1>1. Set(t, local) /\ db' = [db EXCEPT !.parsed[path] = disk[path]]
  BY DEF FindOwners
<1>2. \A o \in owners : o.path \in Paths /\ o.path \notin fresh
  BY OwnersType
<1> HIDE DEF owners
<1>3. /\ local.pc = "sequence" /\ local.todo = thread[t].todo /\ local.owners = owners
      /\ local.diags = thread[t].diags /\ local.path = thread[t].path /\ Local(local)
      /\ local.overlapped = thread[t].overlapped /\ local.doc = thread[t].doc
      /\ local.version = thread[t].version
  BY <1>0, <1>2 DEF Local, Places, Idle
<1> HIDE DEF local
<1>4. Looks(db')
  BY <1>0, <1>1, LookingAway, LookingAtOne
<1>5. GoesOn(t, local)
  BY <1>0, <1>1, <1>3, <1>4 DEF FindOwners, GoesOn, Typed
<1>6. TodoOK(t)' /\ DiagsOK(t)'
  BY <1>2, <1>3, <1>5, LintStepTyped DEF Inv, ThreadsOK, TodoOK, DiagsOK, GoesOn, IsText
<1>7. QED
  BY <1>5, <1>6, LintStepOK

LEMMA FindSequenceOK == ASSUME Inv, NEW t \in Threads, FindSequence(t) PROVE Inv'
<1>0. Local(thread[t]) /\ thread[t].pc = "sequence" /\ Typed
  BY DEF Inv, Typed, FindSequence
<1>1. PICK todo \in Sequences(thread[t].owners, LookedAt(thread[t].owners).library) :
        Set(t, [thread[t] EXCEPT !.pc = "enter", !.owners = {}, !.todo = todo])
  BY DEF FindSequence
<1> DEFINE local == [thread[t] EXCEPT !.pc = "enter", !.owners = {}, !.todo = todo]
<1>2. /\ todo \in Seq(Paths)
      /\ \A k \in DOMAIN todo : disk[todo[k]] # None /\ \E o \in thread[t].owners : o.path = todo[k]
  <2>1. \A o \in thread[t].owners : o.path \in Paths
    BY <1>0 DEF Local
  <2> DEFINE library == LookedAt(thread[t].owners).library
  <2>2. todo \in Sequences(thread[t].owners, library)
    OBVIOUS
  <2> HIDE DEF library
  <2>3. QED
    <3>1. todo \in Seq(Paths)
      BY <2>1, <2>2, SequenceType
    <3>2. \A k \in DOMAIN todo : disk[todo[k]] # None
      BY <2>1, <2>2, SequenceType
    <3>3. \A k \in DOMAIN todo : \E o \in thread[t].owners : o.path = todo[k]
      BY <2>1, <2>2, SequenceType
    <3>4. QED
      BY <3>1, <3>2, <3>3
<1>3. /\ local.pc = "enter" /\ local.todo = todo /\ local.owners = {}
      /\ local.diags = thread[t].diags /\ local.path = thread[t].path /\ Local(local)
      /\ local.overlapped = thread[t].overlapped /\ local.doc = thread[t].doc
      /\ local.version = thread[t].version
  BY <1>0, <1>2 DEF Local, Places, Idle
<1> HIDE DEF local
<1>4. Looks(db')
  BY <1>0, LookingAtOwners DEF FindSequence
<1>5. GoesOn(t, local)
  BY <1>0, <1>1, <1>3, <1>4 DEF FindSequence, GoesOn, Typed, local
<1>6. TodoOK(t)' /\ DiagsOK(t)'
  BY <1>2, <1>3, <1>5, LintStepTyped DEF Inv, ThreadsOK, TodoOK, DiagsOK, GoesOn, IsText
<1>7. QED
  BY <1>5, <1>6, LintStepOK

(* Once the lock is free, or its own, a lint sees no other's text.         *)
LEMMA EnterOK == ASSUME Inv, NEW t \in Threads, Enter(t) PROVE Inv'
<1> DEFINE local == [thread[t] EXCEPT !.pc = IF thread[t].todo # <<>> THEN "dependency" ELSE "own"]
<1>0. Local(thread[t]) /\ thread[t].pc = "enter" /\ Free(t) /\ Typed
  BY DEF Inv, Typed, Enter
<1>1. /\ local.pc \in {"dependency", "own"} /\ local.todo = thread[t].todo
      /\ local.owners = thread[t].owners
      /\ local.diags = thread[t].diags /\ local.path = thread[t].path /\ Local(local)
      /\ local.overlapped = thread[t].overlapped /\ local.doc = thread[t].doc
      /\ local.version = thread[t].version
  BY <1>0 DEF Local, Places, Idle
<1>2. Set(t, local)
  BY DEF Enter
<1> HIDE DEF local
<1>3. GoesOn(t, local)
  BY <1>0, <1>1, <1>2, LookingAway DEF Enter, GoesOn, shared, Typed
<1>4. \A p \in Temps : disk[p] = None \/ p \in left \cup {thread[t].path}
  BY <1>0, WorkspaceAssumption DEF Inv, TempsOK, Free
<1>5. TodoOK(t)' /\ DiagsOK(t)'
  BY <1>1, <1>3, <1>4, LintStepTyped DEF Inv, ThreadsOK, TodoOK, DiagsOK, GoesOn, IsText
<1>6. QED
  BY <1>3, <1>5, LintStepOK

LEMMA TailType ==
  ASSUME NEW S, NEW s \in Seq(S), s # <<>>
  PROVE  /\ Head(s) = s[1] /\ 1 \in DOMAIN s /\ Head(s) \in S /\ Tail(s) \in Seq(S)
         /\ \A k \in DOMAIN Tail(s) : k + 1 \in DOMAIN s /\ Tail(s)[k] = s[k + 1]
OBVIOUS

LEMMA BuildDependencyOK == ASSUME Inv, NEW t \in Threads, BuildDependency(t) PROVE Inv'
<1> DEFINE path   == Head(thread[t].todo)
           result == Compiled(path, db.library[path], "dependencies")
           step   == [thread[t] EXCEPT !.pc = "enter", !.todo = Tail(@)]
           more   == {d \in result.diags : d.severity = "error"}
           local  == IF builder.built[path] = disk[path] THEN step
                     ELSE [step EXCEPT !.diags = @ \cup more]
<1>0. Local(thread[t]) /\ thread[t].pc = "dependency" /\ Typed /\ disk[path] # None
  BY DEF Inv, Typed, BuildDependency
<1>1. /\ thread[t].todo \in Seq(Paths) /\ thread[t].todo # <<>> /\ path \in Paths
      /\ path = thread[t].todo[1] /\ 1 \in DOMAIN thread[t].todo
      /\ Tail(thread[t].todo) \in Seq(Paths)
      /\ \A k \in DOMAIN Tail(thread[t].todo) :
           k + 1 \in DOMAIN thread[t].todo /\ Tail(thread[t].todo)[k] = thread[t].todo[k + 1]
  BY <1>0, TailType DEF Local
<1>2. \A d \in more : left = {} => About(d, thread[t].path)
  <2> SUFFICES ASSUME NEW d \in more, left = {} PROVE About(d, thread[t].path)
    OBVIOUS
  <2>1. path \in Files \cup {thread[t].path}
    BY <1>0, <1>1 DEF Inv, ThreadsOK, TodoOK, Paths
  <2>2. /\ DOMAIN d = {"checker", "filename", "what", "about", "names", "code", "severity", "line", "column"}
        /\ d.filename = path /\ d.names = path
    BY <1>1, CompilerIsAbout, WorkspaceAssumption
  <2>3. QED
    BY <2>1, <2>2 DEF About
<1>3. Compiler(result.builder, result.work) /\ Since(path) \subseteq Files
  BY <1>0, <1>1, CompiledType
<1>4. Set(t, local) /\ Compiler(builder', work') /\ tried' \subseteq Files
  BY <1>0, <1>3 DEF BuildDependency, Typed
<1> HIDE DEF more, path
<1>5. /\ local.pc = "enter" /\ local.todo = Tail(thread[t].todo) /\ local.owners = thread[t].owners
      /\ local.diags \subseteq thread[t].diags \cup more /\ local.path = thread[t].path /\ Local(local)
      /\ local.overlapped = thread[t].overlapped /\ local.doc = thread[t].doc
      /\ local.version = thread[t].version
  BY <1>0, <1>1 DEF Local, Places, Idle
<1> HIDE DEF local
<1>6. GoesOn(t, local)
  BY <1>0, <1>4, <1>5, LookingAway DEF BuildDependency, GoesOn
<1>7. TodoOK(t)'
  <2>1. TodoOK(t)
    BY DEF Inv, ThreadsOK
  <2>2. thread'[t] = local /\ UNCHANGED <<disk, fresh, left>>
    BY <1>6, LintStepTyped DEF GoesOn
  <2>3. ASSUME NEW k \in DOMAIN local.todo
        PROVE  /\ local.todo[k] \notin fresh
               /\ disk[local.todo[k]] = None => local.overlapped /\ ~ IsText(local)
    BY <1>1, <1>5, <2>1 DEF TodoOK, IsText
  <2>4. QED
    BY <1>5, <2>1, <2>2, <2>3 DEF TodoOK
<1>8. DiagsOK(t)'
  BY <1>2, <1>5, <1>6, LintStepTyped DEF Inv, ThreadsOK, DiagsOK, GoesOn
<1>9. QED
  BY <1>6, <1>7, <1>8, LintStepOK

LEMMA BuildOwnOK == ASSUME Inv, NEW t \in Threads, BuildOwn(t) PROVE Inv'
<1> DEFINE path   == thread[t].path
           result == Compiled(path, db.library[path], "single")
           local  == [thread[t] EXCEPT !.pc = "finish", !.diags = @ \cup result.diags,
                                       !.commands = result.commands]
<1>0. Local(thread[t]) /\ thread[t].pc = "own" /\ Typed
  BY DEF Inv, Typed, BuildOwn
<1>1. path \in Paths /\ disk[path] # None
  BY <1>0, TextOrFile DEF Inv, FilesOK, LockOK, TempsOK
<1>2. \A d \in result.diags : About(d, path)
  <2> SUFFICES ASSUME NEW d \in result.diags PROVE About(d, path)
    OBVIOUS
  <2>1. /\ DOMAIN d = {"checker", "filename", "what", "about", "names", "code", "severity", "line", "column"}
        /\ d.filename = path /\ d.names = path
    BY <1>1, CompilerIsAbout, WorkspaceAssumption
  <2>2. QED
    BY <2>1 DEF About
<1>3. Compiler(result.builder, result.work) /\ Since(path) \subseteq Files
  BY <1>0, <1>1, CompiledType
<1>4. Set(t, local) /\ Compiler(builder', work') /\ tried' \subseteq Files
  BY <1>3 DEF BuildOwn, OwnIsBuilt
<1> HIDE DEF result
<1>5. /\ local.pc = "finish" /\ local.todo = thread[t].todo /\ local.owners = thread[t].owners
      /\ local.diags = thread[t].diags \cup result.diags /\ local.path = thread[t].path /\ Local(local)
      /\ local.overlapped = thread[t].overlapped /\ local.doc = thread[t].doc
      /\ local.version = thread[t].version
  BY <1>0 DEF Local, Places, Idle
<1> HIDE DEF local
<1>6. GoesOn(t, local)
  BY <1>0, <1>4, <1>5, LookingAway DEF BuildOwn, OwnIsBuilt, GoesOn
<1>7. TodoOK(t)'
  BY <1>5, <1>6, LintStepTyped DEF Inv, ThreadsOK, TodoOK, GoesOn, IsText
<1>8. DiagsOK(t)'
  BY <1>2, <1>5, <1>6, LintStepTyped DEF Inv, ThreadsOK, DiagsOK, GoesOn
<1>9. QED
  BY <1>6, <1>7, <1>8, LintStepOK

-----------------------------------------------------------------------------
(* A lint that ends leaves its temporary file, if it has one. *)
Ends(t) ==
  /\ Set(t, Idle) /\ UNCHANGED <<disk, fresh>> /\ Looks(db')
  /\ Compiler(builder', work') /\ tried' = tried
  /\ thread[t].pc # "idle"
  /\ left' = IF IsText(thread[t]) THEN left \cup {thread[t].path} ELSE left
  /\ lock' = IF lock = t THEN None ELSE lock

LEMMA IdleType ==
  /\ Local(Idle) /\ Idle.pc = "idle" /\ Idle.owners = {} /\ Idle.todo = <<>> /\ Idle.diags = {}
  /\ DOMAIN Idle.todo = {}
BY DEF Local, Idle, Places

LEMMA EndsOK == ASSUME Inv, NEW t \in Threads, Ends(t) PROVE Inv'
<1>0. /\ Typed /\ DOMAIN thread' = Threads /\ thread'[t] = Idle
      /\ \A u \in Threads \ {t} : thread'[u] = thread[u]
  BY DEF Ends, Set, Inv, Typed
<1>1. IsText(thread[t]) => thread[t].path \in Temps /\ lock = t
  BY TextOrFile DEF Inv, LockOK, Ends
<1>2. ~ IsText(thread[t]) => lock # t
  BY DEF Inv, LockOK
<1>3. Typed'
  BY <1>0, <1>1, IdleType DEF Typed, Ends, Looks
<1>4. LockOK'
  BY <1>0, <1>1, <1>2, IdleType, WorkspaceAssumption DEF Inv, LockOK, Ends, Paths
<1>5. FilesOK'
  BY DEF Inv, FilesOK, Ends, Looks, Paths
<1>6. TempsOK'
  BY <1>0, <1>1, <1>2, WorkspaceAssumption DEF Inv, TempsOK, Ends, Looks, Paths
<1>7. TextOK'
  BY <1>0, <1>1, <1>2, WorkspaceAssumption DEF Inv, TextOK, Ends, Looks, Paths
<1>8. ASSUME NEW u \in Threads PROVE TodoOK(u)' /\ DiagsOK(u)'
  <2>1. CASE u = t
    BY <1>0, <2>1, IdleType DEF TodoOK, DiagsOK
  <2>2. CASE u # t
    <3>1. thread'[u] = thread[u] /\ TodoOK(u) /\ DiagsOK(u)
      BY <1>0, <2>2 DEF Inv, ThreadsOK
    <3>2. left \subseteq left' /\ UNCHANGED <<disk, fresh>>
      BY DEF Ends
    <3>3. QED
      BY <3>1, <3>2 DEF TodoOK, DiagsOK
  <2>3. QED
    BY <2>1, <2>2
<1>9. QED
  BY <1>3, <1>4, <1>5, <1>6, <1>7, <1>8 DEF Inv, ThreadsOK

LEMMA DieOK == ASSUME Inv, NEW t \in Threads, DependencyIsGone(t) \/ CommandFails(t) PROVE Inv'
<1>1. Compiler(builder', work')
  <2>1. CASE DependencyIsGone(t)
    BY <2>1 DEF DependencyIsGone, Inv, Typed
  <2>2. CASE CommandFails(t)
    BY <2>2 DEF CommandFails, Inv, Typed, Compiler
  <2>3. QED
    BY <2>1, <2>2
<1>2. \E failed \in BOOLEAN : Die(t, failed) /\ thread[t].pc # "idle"
  BY DEF DependencyIsGone, CommandFails
<1>3. Looks(db)
  BY LookingAway DEF Inv
<1>4. Ends(t)
  BY <1>1, <1>2, <1>3 DEF Die, Ends
<1>5. QED
  BY <1>4, EndsOK

LEMMA FinishSavedOK == ASSUME Inv, NEW t \in Threads, FinishSaved(t) PROVE Inv'
<1> DEFINE doc    == thread[t].doc
           looked == LookedAt(Known(disk[doc], db.library[doc]))
<1>1. db' = [looked EXCEPT !.parsed[doc] = disk[doc]]
  BY DEF FinishSaved
<1>2. Looks(looked)
  BY LookingAtOwners DEF Inv
<1> HIDE DEF looked
<1>3. Looks(db')
  BY <1>1, <1>2, LookingAtOne DEF Inv
<1>4. lock # t
  BY DEF FinishSaved, Inv, LockOK
<1>5. Ends(t)
  BY <1>3, <1>4 DEF FinishSaved, Ends, Inv, Typed
<1>6. QED
  BY <1>5, EndsOK

(* The temporary file is removed.  Others that may still have it to        *)
(* compile have met this lint.                                             *)
LEMMA FinishTextOK == ASSUME Inv, NEW t \in Threads, FinishText(t) PROVE Inv'
<1> DEFINE temp == thread[t].path
<1>0. /\ Typed /\ DOMAIN thread' = Threads /\ thread'[t] = Idle
      /\ \A u \in Threads \ {t} : thread'[u] = thread[u]
  BY DEF FinishText, FinishWith, Set, Inv, Typed
<1>1. /\ lock = t /\ temp \in Temps /\ temp \notin Files /\ temp \notin left
      /\ thread[t].pc # "idle" /\ temp \in Paths
  BY TextOrFile, WorkspaceAssumption DEF Inv, LockOK, TextOK, FinishText
<1>2. /\ lock' = None /\ disk' = [disk EXCEPT ![temp] = None]
      /\ UNCHANGED <<fresh, builder, work, tried, left>>
  BY DEF FinishText, FinishWith
<1>3. Looks(Looked(t)) /\ db' = RemoveSource(Looked(t), temp)
  BY LookingAtOwners DEF Inv, FinishText, Looked
<1>4. /\ Database(db') /\ db'.paths = db.paths \ {temp} /\ db'.parsed[temp] = None
      /\ \A p \in Paths : p # temp => db'.parsed[p] \in {db.parsed[p], disk[p]}
      /\ \A p \in db.paths : p # temp => db'.library[p] = db.library[p]
      /\ \A p \in Paths : p # temp => db'.flags[p] = db.flags[p]
  BY <1>1, <1>3 DEF RemoveSource, Looks, Database
<1>5. Typed'
  BY <1>0, <1>2, <1>4, IdleType DEF Typed
<1>6. LockOK'
  BY <1>0, <1>1, <1>2, IdleType, WorkspaceAssumption DEF Inv, LockOK
<1>12. disk'[temp] = None /\ \A p \in Paths \ {temp} : disk'[p] = disk[p]
  BY <1>0, <1>1, <1>2 DEF Typed
<1>13. db.paths \subseteq Paths /\ \A f \in Files : f \in Paths \ {temp}
  BY <1>0, <1>1 DEF Typed, Database, Paths
<1>7. FilesOK'
  <2>1. ASSUME NEW f \in Files
        PROVE  /\ disk[f] # None /\ disk[f].file = f /\ db.parsed[f] # None
               /\ f \in db.paths /\ db.library[f] = LibraryOf[f] /\ db.flags[f] = FlagsOf[f]
    BY DEF Inv, FilesOK
  <2>2. ASSUME NEW f \in Files
        PROVE  /\ disk'[f] = disk[f] /\ f \in db'.paths /\ db'.parsed[f] \in {db.parsed[f], disk[f]}
               /\ db'.library[f] = db.library[f] /\ db'.flags[f] = db.flags[f]
    <3>1. f \in Paths \ {temp} /\ f \in db.paths
      BY <1>13, <2>1
    <3> HIDE DEF temp
    <3>2. QED
      BY <1>4, <1>12, <3>1
  <2>3. QED
    BY <2>1, <2>2 DEF FilesOK
<1>8. TempsOK'
  <2>1. ASSUME NEW p \in Temps, p # temp
        PROVE  /\ disk'[p] = disk[p] /\ (p \in db'.paths <=> p \in db.paths)
               /\ db'.parsed[p] \in {db.parsed[p], disk[p]}
               /\ p \in db.paths => db'.library[p] = db.library[p]
               /\ ~ \E u \in Threads : lock = u /\ thread[u].path = p
    BY <1>1, <1>4, <1>12, <2>1 DEF Paths
  <2>2. \A u \in Threads : lock' # u
    BY <1>2, WorkspaceAssumption
  <2>3. ASSUME NEW p \in Temps, p = temp
        PROVE  disk'[p] = None /\ p \notin db'.paths /\ db'.parsed[p] = None /\ p \notin left'
    BY <1>1, <1>2, <1>4, <1>12, <2>3
  <2>4. QED
    BY <1>2, <2>1, <2>2, <2>3 DEF Inv, TempsOK
<1>9. TextOK'
  BY <1>2, WorkspaceAssumption DEF TextOK
<1>10. ASSUME NEW u \in Threads PROVE TodoOK(u)' /\ DiagsOK(u)'
  <2>1. CASE u = t
    BY <1>0, <2>1, IdleType DEF TodoOK, DiagsOK
  <2>2. CASE u # t
    <3>1. thread'[u] = thread[u] /\ TodoOK(u) /\ DiagsOK(u) /\ Local(thread[u])
      BY <1>0, <2>2 DEF Inv, ThreadsOK, Typed
    <3>2. thread[u].pc # "idle" => thread[u].overlapped /\ ~ IsText(thread[u])
      BY <1>1, <2>2, WorkspaceAssumption DEF Inv, LockOK
    <3>3. thread[u].pc = "idle" => DOMAIN thread[u].todo = {}
      BY <3>1 DEF Local
    <3>4. \A p \in Paths : disk'[p] \in {disk[p], None}
      BY <1>0, <1>2 DEF Typed
    <3>5. \A k \in DOMAIN thread[u].todo : thread[u].todo[k] \in Paths
      BY <3>1 DEF Local
    <3>6. TodoOK(u)'
      BY <1>2, <3>1, <3>2, <3>3, <3>4, <3>5 DEF TodoOK
    <3>7. QED
      BY <1>2, <3>1, <3>6 DEF DiagsOK
  <2>3. QED
    BY <2>1, <2>2
<1>11. QED
  BY <1>5, <1>6, <1>7, <1>8, <1>9, <1>10 DEF Inv, ThreadsOK

-----------------------------------------------------------------------------
(* Static messages name no file. *)
LEMMA StaticIsAbout ==
  ASSUME NEW version \in Versions, NEW path \in Paths, NEW diag \in Static[version]
  PROVE  /\ DOMAIN Pointed(diag, path) = {"checker", "filename", "what", "about", "names", "code", "severity", "line", "column"}
         /\ Pointed(diag, path).filename = path /\ Pointed(diag, path).names = None
<1>1. diag \in StaticMessages(TextOf(version))
  BY DEF Static
<1>2. \E what, about, severity, line, column : diag = StaticDiag(what, about, severity, line, column)
  BY <1>1 DEF StaticMessages, UnusedObjects, CommentTags, MiscChecks
<1>3. QED
  BY <1>2 DEF StaticDiag, Pointed

LEMMA LintSavedOK == ASSUME Inv, NEW t \in Threads, NEW doc \in Files, LintSaved(t, doc) PROVE Inv'
<1> DEFINE diags == {Pointed(diag, doc) : diag \in Static[disk[doc]]}
           local == [Idle EXCEPT !.pc = "start", !.doc = doc, !.path = doc, !.version = disk[doc],
                                 !.diags = diags]
<1>0. /\ Typed /\ thread[t].pc = "idle" /\ lock = None /\ doc \in Paths /\ doc \notin Temps
      /\ disk[doc] \in Versions /\ disk[doc].file = doc
  BY WorkspaceAssumption DEF Inv, Typed, FilesOK, LintSaved, Paths
<1>1. \A d \in diags : About(d, doc)
  <2> SUFFICES ASSUME NEW d \in Static[disk[doc]] PROVE About(Pointed(d, doc), doc)
    OBVIOUS
  <2>1. None \notin Temps
    BY WorkspaceAssumption DEF Paths
  <2>2. QED
    BY <1>0, <2>1, StaticIsAbout DEF About
<1>2. Set(t, local) /\ UNCHANGED <<shared, lock, tried, left>>
  BY DEF LintSaved
<1> HIDE DEF diags
<1>3. /\ local.pc = "start" /\ local.doc = doc /\ local.path = doc /\ local.version = disk[doc]
      /\ local.diags = diags /\ local.todo = <<>> /\ local.owners = {} /\ local.overlapped = FALSE
      /\ Local(local) /\ DOMAIN local.todo = {}
  BY <1>0 DEF Idle, Local, Places
<1> HIDE DEF local
<1>4. /\ DOMAIN thread' = Threads /\ thread'[t] = local
      /\ \A u \in Threads \ {t} : thread'[u] = thread[u]
  BY <1>0, <1>2 DEF Set, Typed
<1>5. Typed'
  BY <1>0, <1>2, <1>3, <1>4 DEF Typed, shared
<1>6. LockOK'
  BY <1>0, <1>2, <1>3, <1>4, WorkspaceAssumption DEF Inv, LockOK, IsText
<1>7. FilesOK'
  BY <1>2 DEF Inv, FilesOK, shared
<1>8. lock' = None /\ \A u \in Threads : u # None
  BY <1>0, <1>2, WorkspaceAssumption
<1>9. TempsOK'
  BY <1>0, <1>2, <1>8 DEF Inv, TempsOK, shared
<1>10. TextOK'
  BY <1>8 DEF TextOK
<1>11. ASSUME NEW u \in Threads PROVE TodoOK(u)' /\ DiagsOK(u)'
  <2>1. CASE u = t
    BY <1>1, <1>3, <1>4, <2>1 DEF TodoOK, DiagsOK
  <2>2. CASE u # t
    BY <1>2, <1>4, <2>2, OtherThreads DEF shared
  <2>3. QED
    BY <2>1, <2>2
<1>12. QED
  BY <1>5, <1>6, <1>7, <1>9, <1>10, <1>11 DEF Inv, ThreadsOK

(* Text takes a name that nobody has seen, and whoever is under way has    *)
(* met it.                                                                 *)
LEMMA LintTextOK ==
  ASSUME Inv, NEW t \in Threads, NEW doc \in Files, NEW n \in DOMAIN Texts[doc], LintText(t, doc, n)
  PROVE  Inv'
<1> DEFINE temp    == CHOOSE temp \in fresh : TRUE
           version == [file |-> doc, n |-> n]
           diags   == {Pointed(diag, temp) : diag \in Static[version]}
           local   == [Idle EXCEPT !.pc = "start", !.doc = doc, !.path = temp, !.version = version,
                                   !.alone = Undisturbed(t), !.diags = diags]
<1>0. /\ Typed /\ thread[t].pc = "idle" /\ lock = None /\ lock' = t
      /\ UNCHANGED <<builder, work, tried, left>>
  BY DEF Inv, LintText, Write
<1>1. /\ temp \in fresh /\ temp \in Temps /\ temp \in Paths /\ temp \notin Files
      /\ disk[temp] = None /\ temp \notin left
  <2>1. temp \in fresh
    BY DEF LintText
  <2> HIDE DEF temp
  <2>2. QED
    BY <1>0, <2>1, WorkspaceAssumption DEF Inv, TempsOK, Typed, Paths
<1>2. version \in Versions /\ version.file = doc /\ version # None
  BY WorkspaceAssumption DEF Versions
<1>3. \A d \in diags : About(d, temp)
  <2> SUFFICES ASSUME NEW d \in Static[version] PROVE About(Pointed(d, temp), temp)
    OBVIOUS
  <2>1. None \notin Temps
    BY WorkspaceAssumption DEF Paths
  <2>2. QED
    BY <1>1, <1>2, <2>1, StaticIsAbout DEF About
<1>4. /\ fresh' = fresh \ {temp} /\ disk' = [disk EXCEPT ![temp] = version]
      /\ db' = [db EXCEPT !.paths = @ \cup {temp}, !.parsed[temp] = version,
                          !.library[temp] = db.library[doc], !.flags[temp] = Given(doc)]
      /\ thread' = [u \in Threads |->
           IF u # t THEN [thread[u] EXCEPT !.overlapped = (@ \/ thread[u].pc # "idle")] ELSE local]
  BY DEF LintText, Write
<1> HIDE DEF temp, version, diags
<1>5. /\ local.pc = "start" /\ local.doc = doc /\ local.path = temp /\ local.version = version
      /\ local.diags = diags /\ local.todo = <<>> /\ local.owners = {} /\ local.overlapped = FALSE
      /\ Local(local) /\ DOMAIN local.todo = {}
  BY <1>1, <1>2 DEF Idle, Local, Places
<1> HIDE DEF local
<1>6. /\ DOMAIN thread' = Threads /\ thread'[t] = local
      /\ \A u \in Threads \ {t} :
           thread'[u] = [thread[u] EXCEPT !.overlapped = (@ \/ thread[u].pc # "idle")]
  BY <1>4
<1>7. ASSUME NEW u \in Threads, u # t
      PROVE  /\ Local(thread'[u]) /\ thread'[u].pc = thread[u].pc /\ thread'[u].path = thread[u].path
             /\ thread'[u].doc = thread[u].doc /\ thread'[u].version = thread[u].version
             /\ thread'[u].owners = thread[u].owners /\ thread'[u].todo = thread[u].todo
             /\ thread'[u].diags = thread[u].diags
             /\ thread[u].pc # "idle" \/ thread[u].overlapped => thread'[u].overlapped
  <2>1. Local(thread[u])
    BY <1>0 DEF Typed
  <2>2. thread'[u] = [thread[u] EXCEPT !.overlapped = (@ \/ thread[u].pc # "idle")]
    BY <1>6, <1>7
  <2>3. QED
    BY <2>1, <2>2 DEF Local, Idle
<1>8. /\ Database(db') /\ db'.paths = db.paths \cup {temp} /\ db'.parsed[temp] = version
      /\ db'.library[temp] = db.library[doc] /\ db'.flags[temp] = Given(doc)
      /\ \A p \in Paths : p # temp => db'.parsed[p] = db.parsed[p]
      /\ \A p \in Paths : p # temp => db'.library[p] = db.library[p]
      /\ \A p \in Paths : p # temp => db'.flags[p] = db.flags[p]
  <2>1. Database(db)
    BY <1>0 DEF Typed
  <2>2. QED
    BY <1>1, <1>2, <1>4, <2>1 DEF Database
<1>9. disk'[temp] = version /\ \A p \in Paths : p # temp => disk'[p] = disk[p]
  BY <1>0, <1>1, <1>4 DEF Typed
<1>10. Typed'
  <2>1. \A u \in Threads : Local(thread'[u])
    BY <1>5, <1>6, <1>7
  <2>2. disk' \in [Paths -> Versions \cup {None}]
    BY <1>0, <1>2, <1>4 DEF Typed
  <2>3. QED
    BY <1>0, <1>4, <1>6, <1>8, <2>1, <2>2 DEF Typed
<1>11. LockOK'
  <2>1. ASSUME NEW u \in Threads, u # t
        PROVE  thread[u].pc # "idle" => ~ IsText(thread[u])
    BY <1>0, WorkspaceAssumption DEF Inv, LockOK
  <2>2. IsText(local)
    BY <1>1, <1>5 DEF IsText
  <2>3. QED
    BY <1>0, <1>5, <1>6, <1>7, <2>1, <2>2 DEF LockOK, IsText
<1>12. FilesOK'
  <2>1. ASSUME NEW f \in Files
        PROVE  /\ disk'[f] = disk[f] /\ db'.parsed[f] = db.parsed[f]
               /\ db'.library[f] = db.library[f] /\ db'.flags[f] = db.flags[f]
    BY <1>1, <1>8, <1>9 DEF Paths
  <2>2. QED
    BY <1>8, <2>1 DEF Inv, FilesOK
<1>13. \A u \in Threads : lock # u
  BY <1>0, WorkspaceAssumption
<1>14. TempsOK'
  <2>1. ASSUME NEW p \in Temps, p # temp
        PROVE  /\ disk'[p] = disk[p] /\ (p \in db'.paths <=> p \in db.paths)
               /\ db'.parsed[p] = db.parsed[p] /\ db'.library[p] = db.library[p]
               /\ ~ \E u \in Threads : lock' = u /\ thread'[u].path = p
    BY <1>0, <1>5, <1>6, <1>8, <1>9, <2>1 DEF Paths
  <2>2. db.library[doc] = LibraryOf[doc]
    BY DEF Inv, FilesOK
  <2>3. ASSUME NEW p \in Temps, p = temp
        PROVE  /\ disk'[p] = version /\ p \in db'.paths /\ p \notin fresh'
               /\ db'.library[p] = LibraryOf[doc]
               /\ \E u \in Threads : lock' = u /\ thread'[u].path = p
    BY <1>0, <1>4, <1>5, <1>6, <1>8, <1>9, <2>2, <2>3
  <2>4. QED
    BY <1>0, <1>2, <1>4, <1>13, <2>1, <2>3 DEF Inv, TempsOK
<1>15. TextOK'
  <2>1. Given(doc) = GivenTo(doc)
    BY DEF Given, GivenTo, Inv, FilesOK
  <2>2. QED
    BY <1>0, <1>1, <1>5, <1>6, <1>8, <1>9, <2>1 DEF TextOK
<1>16. ASSUME NEW u \in Threads PROVE TodoOK(u)' /\ DiagsOK(u)'
  <2>1. CASE u = t
    BY <1>3, <1>5, <1>6, <2>1 DEF TodoOK, DiagsOK
  <2>2. CASE u # t
    <3>1. TodoOK(u) /\ DiagsOK(u) /\ Local(thread[u])
      BY <1>0 DEF Inv, ThreadsOK, Typed
    <3>2. ASSUME NEW k \in DOMAIN thread[u].todo
          PROVE  disk'[thread[u].todo[k]] = disk[thread[u].todo[k]]
      BY <1>1, <1>9, <3>1 DEF Local, TodoOK
    <3>3. TodoOK(u)'
      BY <1>0, <1>4, <1>7, <2>2, <3>1, <3>2 DEF TodoOK, IsText
    <3>4. QED
      BY <1>0, <1>7, <2>2, <3>1, <3>3 DEF DiagsOK
  <2>3. QED
    BY <2>1, <2>2
<1>17. QED
  BY <1>10, <1>11, <1>12, <1>14, <1>15, <1>16 DEF Inv, ThreadsOK

LEMMA SaveOK ==
  ASSUME Inv, NEW doc \in Files, NEW n \in DOMAIN Texts[doc], Save(doc, n)
  PROVE  Inv'
<1>0. /\ Typed /\ UNCHANGED <<fresh, db, builder, work, lock, tried, left>>
      /\ disk' = [disk EXCEPT ![doc].n = n]
      /\ thread' = [t \in Threads |-> [thread[t] EXCEPT !.alone = FALSE]]
  BY DEF Inv, Save
<1>1. disk[doc] \in Versions /\ disk[doc].file = doc /\ doc \in Paths /\ doc \notin Temps
  BY <1>0, WorkspaceAssumption DEF Inv, Typed, FilesOK, Paths
<1>2. [disk[doc] EXCEPT !.n = n] = [file |-> doc, n |-> n]
  BY <1>1 DEF Versions
<1>3. [file |-> doc, n |-> n] \in Versions /\ [file |-> doc, n |-> n] # None
  BY WorkspaceAssumption DEF Versions
<1>4. /\ disk'[doc] = [file |-> doc, n |-> n]
      /\ \A p \in Paths : p # doc => disk'[p] = disk[p]
      /\ disk' \in [Paths -> Versions \cup {None}]
  BY <1>0, <1>1, <1>2, <1>3 DEF Typed
<1>5. ASSUME NEW t \in Threads
      PROVE  /\ Local(thread'[t]) /\ thread'[t].pc = thread[t].pc /\ thread'[t].path = thread[t].path
             /\ thread'[t].doc = thread[t].doc /\ thread'[t].version = thread[t].version
             /\ thread'[t].owners = thread[t].owners /\ thread'[t].todo = thread[t].todo
             /\ thread'[t].diags = thread[t].diags /\ thread'[t].overlapped = thread[t].overlapped
  <2>1. Local(thread[t])
    BY <1>0 DEF Typed
  <2>2. thread'[t] = [thread[t] EXCEPT !.alone = FALSE]
    BY <1>0
  <2>3. QED
    BY <2>1, <2>2 DEF Local, Idle
<1>6. DOMAIN thread' = Threads
  BY <1>0
<1>7. Typed'
  BY <1>0, <1>4, <1>5, <1>6 DEF Typed
<1>8. LockOK'
  BY <1>0, <1>5 DEF Inv, LockOK, IsText
<1>9. FilesOK'
  BY <1>0, <1>3, <1>4 DEF Inv, FilesOK, Paths
<1>10. TempsOK'
  <2>1. \A p \in Temps : disk'[p] = disk[p]
    BY <1>1, <1>4 DEF Paths
  <2>2. \A t \in Threads : thread'[t].path = thread[t].path
    BY <1>5
  <2>3. TempsOK /\ UNCHANGED <<db, lock, left, fresh>>
    BY <1>0 DEF Inv
  <2>4. QED
    BY <2>1, <2>2, <2>3 DEF TempsOK
<1>11. TextOK'
  <2>1. ASSUME NEW t \in Threads, lock = t PROVE disk'[thread[t].path] = disk[thread[t].path]
    BY <1>0, <1>1, <1>4, <2>1, TextOrFile DEF Inv, LockOK
  <2>2. QED
    BY <1>0, <1>5, <2>1 DEF Inv, TextOK
<1>12. ASSUME NEW t \in Threads PROVE TodoOK(t)' /\ DiagsOK(t)'
  <2>1. TodoOK(t) /\ DiagsOK(t) /\ Local(thread[t])
    BY <1>0 DEF Inv, ThreadsOK, Typed
  <2>2. ASSUME NEW k \in DOMAIN thread[t].todo
        PROVE  disk'[thread[t].todo[k]] = None => disk[thread[t].todo[k]] = None
    BY <1>3, <1>4, <2>1 DEF Local
  <2>3. \A k \in DOMAIN thread[t].todo : thread[t].todo[k] \in Temps =>
          disk'[thread[t].todo[k]] = disk[thread[t].todo[k]]
    BY <1>1, <1>4 DEF Paths
  <2>4. TodoOK(t)'
    BY <1>0, <1>5, <2>1, <2>2, <2>3 DEF TodoOK, IsText
  <2>5. QED
    BY <1>0, <1>5, <2>1, <2>4 DEF DiagsOK
<1>13. QED
  BY <1>7, <1>8, <1>9, <1>10, <1>11, <1>12 DEF Inv, ThreadsOK

(* What the editor asks about, and the steps to the answer. *)
Request ==
  \/ \E doc \in Files :
       \E d \in DependenciesOf(TextOf(disk[doc])) : \E at \in d.locations : AskAbout(doc, at)
  \/ Recall \/ Resolve \/ TakeSequence \/ Search \/ AnswerDefinition \/ AnswerHover

(* Requests only look at files. *)
LEMMA RequestLooks ==
  ASSUME Inv, Request
  PROVE  /\ Looks(db') /\ UNCHANGED <<disk, fresh, builder, work, lock, thread, tried, left>>
         /\ ended' = Nothing
<1>0. Typed /\ Looks(db)
  BY LookingAway DEF Inv
<1>1. ASSUME NEW p PROVE Looks([db EXCEPT !.parsed[p] = disk[p]])
  BY <1>0, LookingAtOne
<1>2. CASE \E doc \in Files : \E d \in DependenciesOf(TextOf(disk[doc])) : \E at \in d.locations : AskAbout(doc, at)
  <2>1. PICK doc \in Files : \E at : AskAbout(doc, at)
    BY <1>2
  <2>2. /\ db' = [db EXCEPT !.parsed[doc] = disk[doc]] /\ ended' = Nothing
        /\ UNCHANGED <<disk, fresh, builder, work, lock, resolved, thread, budget, tried, left>>
    BY <2>1 DEF AskAbout
  <2>3. QED
    BY <1>1, <2>2
<1>3. CASE Recall
  BY <1>0, <1>3 DEF Recall, Answering
<1>4. CASE Resolve
  BY <1>1, <1>4 DEF Resolve, Answering
<1>5. CASE TakeSequence
  <2> DEFINE looked == LookedAt(Known(disk[request.owner], db.library[request.owner]))
  <2>1. Looks(looked)
    BY <1>0, LookingAtOwners
  <2>2. db' = [looked EXCEPT !.parsed[request.owner] = disk[request.owner]]
    BY <1>5 DEF TakeSequence
  <2> HIDE DEF looked
  <2>3. QED
    BY <1>0, <1>5, <2>1, <2>2, LookingAtOne DEF TakeSequence, Answering
<1>6. CASE Search
  BY <1>0, <1>1, <1>6 DEF Search, Answering
<1>7. CASE AnswerDefinition \/ AnswerHover
  BY <1>0, <1>1, <1>7 DEF AnswerDefinition, AnswerHover, Answering
<1>8. QED
  BY <1>2, <1>3, <1>4, <1>5, <1>6, <1>7 DEF Request

-----------------------------------------------------------------------------
LEMMA InitInv == NavigationInit => Inv
<1> SUFFICES ASSUME NavigationInit PROVE Inv
  OBVIOUS
<1>0. Init
  BY DEF NavigationInit
<1>1. \A f \in Files : [file |-> f, n |-> 1] \in Versions /\ [file |-> f, n |-> 1] # None
  BY WorkspaceAssumption DEF Versions
<1>2. /\ disk \in [Paths -> Versions \cup {None}]
      /\ \A f \in Files : disk[f] = [file |-> f, n |-> 1]
      /\ \A p \in Temps : disk[p] = None
  BY <1>0, <1>1, WorkspaceAssumption DEF Init, Paths
<1>3. /\ thread = [t \in Threads |-> Idle] /\ lock = None /\ left = {} /\ tried = {}
      /\ fresh = Temps /\ \A t \in Threads : t # None
  BY <1>0, WorkspaceAssumption DEF Init
<1>4. /\ Database(db) /\ db.paths = Files /\ db.parsed = disk
      /\ \A f \in Files : db.library[f] = LibraryOf[f] /\ db.flags[f] = FlagsOf[f]
  BY <1>0, <1>2 DEF Init, Database, Paths
<1>5. Compiler(builder, work)
  BY <1>0 DEF Init, Compiler
<1>6. Typed
  BY <1>2, <1>3, <1>4, <1>5, IdleType DEF Typed
<1>7. LockOK
  BY <1>3, IdleType DEF LockOK
<1>8. FilesOK
  <2>1. ASSUME NEW f \in Files PROVE disk[f] # None /\ disk[f].file = f
    <3>1. disk[f] = [file |-> f, n |-> 1] /\ [file |-> f, n |-> 1] # None
      BY <1>1, <1>2
    <3>2. [file |-> f, n |-> 1].file = f
      OBVIOUS
    <3>3. QED
      BY <3>1, <3>2
  <2>2. QED
    BY <1>4, <2>1 DEF FilesOK
<1>9. TempsOK
  BY <1>2, <1>3, <1>4, WorkspaceAssumption DEF TempsOK
<1>10. TextOK
  BY <1>3 DEF TextOK
<1>11. ThreadsOK
  BY <1>3, IdleType DEF ThreadsOK, TodoOK, DiagsOK
<1>12. QED
  BY <1>6, <1>7, <1>8, <1>9, <1>10, <1>11 DEF Inv

(* What a lint or the editor may do. *)
LEMMA Steps ==
  ASSUME NavigationNext
  PROVE  \/ Request
         \/ \E t \in Threads : LintStep(t)
         \/ \E t \in Threads, doc \in Files : LintSaved(t, doc)
         \/ \E t \in Threads : \E doc \in Files : \E n \in DOMAIN Texts[doc] : LintText(t, doc, n)
         \/ \E doc \in Files : \E n \in DOMAIN Texts[doc] : Save(doc, n)
BY DEF NavigationNext, Request, LintStep

LEMMA NextInv == Inv /\ [NavigationNext]_all => Inv'
<1> SUFFICES ASSUME Inv, [NavigationNext]_all PROVE Inv'
  OBVIOUS
<1>1. CASE Request
  BY <1>1, RequestLooks, LookStep
<1>2. ASSUME NEW t \in Threads, LintStep(t) PROVE Inv'
  BY <1>2, StartOK, FindOwnersOK, FindSequenceOK, EnterOK, BuildDependencyOK, BuildOwnOK, DieOK,
     FinishSavedOK, FinishTextOK DEF LintStep
<1>3. ASSUME NEW t \in Threads, NEW doc \in Files, LintSaved(t, doc) PROVE Inv'
  BY <1>3, LintSavedOK
<1>4. ASSUME NEW t \in Threads, NEW doc \in Files, NEW n \in DOMAIN Texts[doc], LintText(t, doc, n)
      PROVE  Inv'
  BY <1>4, LintTextOK
<1>5. ASSUME NEW doc \in Files, NEW n \in DOMAIN Texts[doc], Save(doc, n) PROVE Inv'
  BY <1>5, SaveOK
<1>6. CASE UNCHANGED all
  <2>1. UNCHANGED <<disk, fresh, db, builder, work, lock, thread, tried, left>>
    BY <1>6 DEF all, vars, shared
  <2>2. Looks(db')
    BY <2>1, LookingAway DEF Inv
  <2>3. QED
    BY <2>1, <2>2, LookStep
<1>7. QED
  BY <1>1, <1>2, <1>3, <1>4, <1>5, <1>6, Steps

LEMMA Invariant == NavigationSpec => []Inv
BY InitInv, NextInv, PTL DEF NavigationSpec

(* Types, in every reachable state. *)
THEOREM TypeCorrect == NavigationSpec => []TypeOK
<1>1. Inv => TypeOK
  BY DEF Inv, Typed, TypeOK, Local, Database, Compiler, Paths
<1>2. QED
  BY <1>1, Invariant, PTL

-----------------------------------------------------------------------------
(* What a lint has published is about files. *)
ShownOK == left = {} => (ended.files \cup ended.named) \cap Temps = {}

LEMMA UnresolvedIsAbout ==
  ASSUME NEW path, NEW resolutions, NEW diag \in Unresolved(path, resolutions)
  PROVE  /\ DOMAIN diag = {"checker", "filename", "what", "about", "names", "code", "severity", "line", "column"}
         /\ diag.filename = path /\ diag.names = None
<1> DEFINE Diag(pair) ==
             [checker |-> "core", filename |-> path, what |-> "unresolved",
              about |-> pair[1].dependency.name.word, names |-> None, code |-> None,
              severity |-> "style error", line |-> pair[2].line, column |-> pair[2].column]
<1>1. PICK pair : diag = Diag(pair)
  BY DEF Unresolved
<1>2. DOMAIN diag = {"checker", "filename", "what", "about", "names", "code", "severity", "line", "column"}
  BY <1>1
<1>3. QED
  BY <1>1, <1>2

LEMMA PublishedIsAbout ==
  ASSUME NEW doc \in Files, NEW diags, Publish(doc, diags),
         \A diag \in diags : diag.filename \notin Temps /\ diag.names \notin Temps
  PROVE  (ended'.files \cup ended'.named) \cap Temps = {}
<1>1. /\ ended'.files = DOMAIN Published(diags, doc)
      /\ ended'.named = {diag.names : diag \in diags} \cap Paths
  BY DEF Publish
<1>2. DOMAIN Published(diags, doc) = {diag.filename : diag \in diags} \cup {doc}
  BY DEF Published
<1>3. doc \notin Temps
  BY WorkspaceAssumption
<1>4. QED
  BY <1>1, <1>2, <1>3

LEMMA RenamedIsAbout ==
  ASSUME NEW doc \in Files, NEW temp \in Temps, NEW diag, About(diag, temp)
  PROVE  Renamed(diag, temp, doc).filename \notin Temps /\ Renamed(diag, temp, doc).names \notin Temps
<1>0. /\ doc \notin Temps /\ None \notin Temps /\ Files \cap Temps = {}
  BY WorkspaceAssumption DEF Paths
<1>1. CASE diag.filename = temp
  <2> DEFINE renamed == [diag EXCEPT !.filename = doc, !.names = IF @ = temp THEN doc ELSE @]
  <2>1. renamed.filename = doc /\ renamed.names = IF diag.names = temp THEN doc ELSE diag.names
    BY DEF About
  <2>2. Renamed(diag, temp, doc) = renamed
    BY <1>1 DEF Renamed
  <2>3. QED
    BY <1>0, <2>1, <2>2 DEF About
<1>2. CASE diag.filename # temp
  BY <1>0, <1>2 DEF Renamed, About
<1>3. QED
  BY <1>1, <1>2

LEMMA ShownStep == Inv /\ ShownOK /\ [NavigationNext]_all => ShownOK'
<1> SUFFICES ASSUME Inv, ShownOK, [NavigationNext]_all PROVE ShownOK'
  OBVIOUS
<1>1. ASSUME ended' = Nothing PROVE ShownOK'
  BY <1>1 DEF ShownOK, Nothing
<1>2. ASSUME NEW t \in Threads, DependencyIsGone(t) \/ CommandFails(t) PROVE ShownOK'
  <2>1. ended'.files = {} /\ ended'.named = {}
    BY <1>2 DEF DependencyIsGone, CommandFails, Die, Nothing
  <2>2. QED
    BY <2>1 DEF ShownOK
<1>3. ASSUME NEW t \in Threads, FinishSaved(t) PROVE ShownOK'
  <2> DEFINE doc == thread[t].doc
  <2>1. doc \in Files /\ thread[t].path = doc
    BY <1>3 DEF FinishSaved, Inv, Typed, Local, IsText
  <2>2. PICK resolutions : Publish(doc, thread[t].diags \cup Unresolved(doc, resolutions))
    BY <1>3 DEF FinishSaved
  <2> DEFINE diags == thread[t].diags \cup Unresolved(doc, resolutions)
  <2>3. ASSUME left = {}, NEW diag \in diags PROVE diag.filename \notin Temps /\ diag.names \notin Temps
    <3>1. About(diag, doc) \/ (diag.filename = doc /\ diag.names = None)
      BY <2>1, <2>3, UnresolvedIsAbout DEF Inv, ThreadsOK, DiagsOK
    <3>2. QED
      BY <2>1, <3>1, WorkspaceAssumption DEF About, Paths
  <2>4. left' = left
    BY <1>3 DEF FinishSaved
  <2> HIDE DEF diags
  <2>5. QED
    BY <2>1, <2>2, <2>3, <2>4, PublishedIsAbout DEF ShownOK, diags
<1>4. ASSUME NEW t \in Threads, FinishText(t) PROVE ShownOK'
  <2> DEFINE temp == thread[t].path
             doc  == thread[t].doc
  <2>1. doc \in Files /\ temp \in Temps /\ IsText(thread[t])
    BY <1>4, TextOrFile DEF FinishText, Inv, Typed, Local
  <2>2. PICK resolutions :
          Publish(doc, {Renamed(diag, temp, doc) : diag \in thread[t].diags \cup Unresolved(temp, resolutions)})
    BY <1>4 DEF FinishText, FinishWith
  <2> DEFINE diags == thread[t].diags \cup Unresolved(temp, resolutions)
  <2>3. ASSUME left = {}, NEW diag \in diags PROVE About(diag, temp)
    <3>1. CASE diag \in thread[t].diags
      BY <2>3, <3>1 DEF Inv, ThreadsOK, DiagsOK
    <3>2. CASE diag \in Unresolved(temp, resolutions)
      BY <3>2, UnresolvedIsAbout, WorkspaceAssumption DEF About, Paths
    <3>3. QED
      BY <3>1, <3>2
  <2>4. left' = left
    BY <1>4 DEF FinishText, FinishWith
  <2> HIDE DEF diags
  <2> DEFINE shown == {Renamed(diag, temp, doc) : diag \in diags}
  <2>5. left = {} => \A diag \in shown : diag.filename \notin Temps /\ diag.names \notin Temps
    BY <2>1, <2>3, RenamedIsAbout
  <2>6. Publish(doc, shown)
    BY <2>2 DEF diags
  <2> HIDE DEF shown
  <2>7. QED
    BY <2>1, <2>4, <2>5, <2>6, PublishedIsAbout DEF ShownOK
<1>5. CASE Request
  BY <1>1, <1>5, RequestLooks
<1>6. ASSUME NEW t \in Threads, LintStep(t) PROVE ShownOK'
  BY <1>1, <1>2, <1>3, <1>4, <1>6
     DEF LintStep, Start, FindOwners, FindSequence, Enter, BuildDependency, BuildOwn, OwnIsBuilt
<1>7. CASE UNCHANGED all
  BY <1>7 DEF all, vars, ShownOK
<1>8. QED
  BY <1>1, <1>5, <1>6, <1>7, Steps DEF LintSaved, LintText, Write, Save

(* Unsaved text leaves nothing behind: no diagnostic is shown for its      *)
(* temporary file or names it, and while no text is linted the database    *)
(* and the disk have no temporary file but those of lints that died,       *)
(* whatever lints of saved files still hold (core.py:543-587).             *)
THEOREM NothingIsLeft == NavigationSpec => []NothingTemporaryIsLeft
<1>1. NavigationInit => ShownOK
  BY DEF NavigationInit, Init, Nothing, ShownOK
<1>2. Inv /\ ShownOK => NothingTemporaryIsLeft
  <2> SUFFICES ASSUME Inv, ShownOK, lock = None
               PROVE  /\ {p \in Temps : p \in db.paths \/ db.parsed[p] # None} \subseteq left
                      /\ {p \in Temps : disk[p] # None} = left
    BY DEF NothingTemporaryIsLeft, ShownOK
  <2>1. \A t \in Threads : lock # t
    BY WorkspaceAssumption
  <2>2. left \subseteq Temps
    BY DEF Inv, Typed
  <2>3. QED
    BY <2>1, <2>2 DEF Inv, TempsOK
<1>3. QED
  BY <1>1, <1>2, ShownStep, Invariant, PTL DEF NavigationSpec
-----------------------------------------------------------------------------
(* A lint that has not met one of text finds everything it has to compile. *)
LEMMA DeathsStep == Inv /\ LintsDieForAReason /\ [NavigationNext]_all => LintsDieForAReason'
<1> SUFFICES ASSUME Inv, LintsDieForAReason, [NavigationNext]_all PROVE LintsDieForAReason'
  OBVIOUS
<1>1. ASSUME ended'.death = None PROVE LintsDieForAReason'
  BY <1>1 DEF LintsDieForAReason
<1>2. ASSUME ended' = Nothing PROVE LintsDieForAReason'
  BY <1>1, <1>2 DEF Nothing
<1>3. ASSUME NEW t \in Threads, NEW failed, Die(t, failed)
      PROVE  /\ ended'.death.failed = failed /\ ended'.death.text = IsText(thread[t])
             /\ ended'.death.overlapped = thread[t].overlapped
  BY <1>3 DEF Die, Nothing
<1>4. ASSUME NEW t \in Threads, CommandFails(t) PROVE LintsDieForAReason'
  <2>1. ended'.death.failed = TRUE
    BY <1>3, <1>4 DEF CommandFails
  <2>2. QED
    BY <2>1 DEF LintsDieForAReason
<1>5. ASSUME NEW t \in Threads, DependencyIsGone(t) PROVE LintsDieForAReason'
  <2>1. Local(thread[t]) /\ thread[t].pc = "dependency" /\ disk[Head(thread[t].todo)] = None
    BY <1>5 DEF Inv, Typed, DependencyIsGone
  <2>2. 1 \in DOMAIN thread[t].todo /\ Head(thread[t].todo) = thread[t].todo[1]
    BY <2>1, TailType DEF Local
  <2>3. thread[t].overlapped /\ ~ IsText(thread[t])
    BY <2>1, <2>2 DEF Inv, ThreadsOK, TodoOK
  <2>4. ~ ended'.death.text /\ ended'.death.overlapped
    BY <1>3, <1>5, <2>3 DEF DependencyIsGone
  <2>5. QED
    BY <2>4 DEF LintsDieForAReason
<1>6. ASSUME NEW t \in Threads, FinishSaved(t) \/ FinishText(t) PROVE LintsDieForAReason'
  <2>1. \E doc, diags : Publish(doc, diags)
    BY <1>6 DEF FinishSaved, FinishText, FinishWith
  <2>2. ended'.death = None
    BY <2>1 DEF Publish
  <2>3. QED
    BY <1>1, <2>2
<1>7. CASE Request
  BY <1>2, <1>7, RequestLooks
<1>8. ASSUME NEW t \in Threads, LintStep(t) PROVE LintsDieForAReason'
  BY <1>2, <1>4, <1>5, <1>6, <1>8
     DEF LintStep, Start, FindOwners, FindSequence, Enter, BuildDependency, BuildOwn, OwnIsBuilt
<1>9. CASE UNCHANGED all
  BY <1>9 DEF all, vars, LintsDieForAReason
<1>10. QED
  BY <1>2, <1>7, <1>8, <1>9, Steps DEF LintSaved, LintText, Write, Save

(* Lints die when the compiler cannot be run, and otherwise only those of  *)
(* saved files that have met a lint of text: in no order of the threads    *)
(* does a temporary file that is gone reach a lint that has not, or one of *)
(* text (core.py:401-430, base_builder.py:429-449).                        *)
THEOREM LintsDieOnlyForAReason == NavigationSpec => []LintsDieForAReason
<1>1. NavigationInit => LintsDieForAReason
  BY DEF NavigationInit, Init, Nothing, LintsDieForAReason
<1>2. QED
  BY <1>1, DeathsStep, Invariant, PTL DEF NavigationSpec

-----------------------------------------------------------------------------
(* Whichever path a file's text is compiled from, it goes to the library   *)
(* of the file, where it replaces what had its names.                      *)
BooksOK ==
  \A u \in work.contents : u.from \in Versions /\ u.library = LibraryOf[u.from.file]

Accounts == BooksOK /\ LintingBringsTheFileBack

LEMMA CompilingKeepsAccounts ==
  ASSUME Inv, Accounts, NEW path \in Paths, disk[path] # None, NEW scope,
         builder' = Compiled(path, db.library[path], scope).builder,
         work' = Compiled(path, db.library[path], scope).work,
         tried' = Since(path)
  PROVE  Accounts'
<1> DEFINE version == disk[path]
           library == db.library[path]
           new     == {[word |-> w, library |-> library, from |-> version] : w \in UnitWords[version]}
<1>1. /\ version \in Versions /\ library = LibraryOf[version.file] /\ version.file \in Files
      /\ path \in Files => version.file = path
      /\ builder.built \in [Paths -> Versions \cup {None}]
  BY DEF Inv, Typed, FilesOK, TempsOK, Paths, Versions, Compiler
<1>2. PICK failed \in BOOLEAN :
        /\ builder'.built = [builder.built EXCEPT ![path] = IF failed THEN None ELSE version]
        /\ work'.contents = IF failed THEN work.contents
                            ELSE {u \in work.contents :
                                    ~ \E n \in new : n.word = u.word /\ n.library = u.library} \cup new
  BY DEF Compiled
<1>3. \A f \in Files \ tried' : f # path => f \notin tried /\ f # version.file
  BY <1>1 DEF Since, Paths
<1>4. \A u \in new : u.from = version /\ u.library = library
  OBVIOUS
<1>5. \A w \in UnitWords[version] : \E n \in new : n.word = w /\ n.library = library
  <2>1. ASSUME NEW w \in UnitWords[version] PROVE \E n \in new : n.word = w /\ n.library = library
    <3>1. [word |-> w, library |-> library, from |-> version] \in new
      OBVIOUS
    <3> HIDE DEF new
    <3>2. QED
      BY <3>1
  <2>2. QED
    BY <2>1
<1> HIDE DEF new, version, library
<1>6. BooksOK'
  BY <1>1, <1>2, <1>4 DEF Accounts, BooksOK
<1>7. ASSUME NEW f \in Files \ tried', NEW u \in work'.contents, u.from.file = f,
             builder'.built[f] # None, u.word \in UnitWords[builder'.built[f]]
      PROVE  u.from = builder'.built[f]
  <2>1. CASE f = path
    <3>1. ~ failed /\ builder'.built[f] = version
      BY <1>1, <1>2, <1>7, <2>1
    <3>2. CASE u \in new
      BY <1>4, <3>1, <3>2
    <3>3. CASE u \in work.contents /\ ~ \E n \in new : n.word = u.word /\ n.library = u.library
      <4>1. u.library = library
        BY <1>1, <1>7, <2>1, <3>3 DEF Accounts, BooksOK
      <4>2. QED
        BY <1>5, <1>7, <3>1, <3>3, <4>1
    <3>4. QED
      BY <1>2, <3>1, <3>2, <3>3
  <2>2. CASE f # path
    <3>1. f \in Files \ tried /\ f # version.file /\ builder'.built[f] = builder.built[f]
      BY <1>1, <1>2, <1>3, <2>2 DEF Paths
    <3>2. u \in work.contents
      BY <1>2, <1>4, <1>7, <3>1
    <3>3. QED
      BY <1>7, <3>1, <3>2 DEF Accounts, LintingBringsTheFileBack
  <2>3. QED
    BY <2>1, <2>2
<1>8. LintingBringsTheFileBack'
  BY <1>7 DEF LintingBringsTheFileBack
<1>9. QED
  BY <1>6, <1>8 DEF Accounts

LEMMA AccountsStep == Inv /\ Accounts /\ [NavigationNext]_all => Accounts'
<1> SUFFICES ASSUME Inv, Accounts, [NavigationNext]_all PROVE Accounts'
  OBVIOUS
<1>1. ASSUME work'.contents = work.contents, builder'.built = builder.built, tried' = tried
      PROVE  Accounts'
  BY <1>1 DEF Accounts, BooksOK, LintingBringsTheFileBack
<1>2. ASSUME NEW t \in Threads, BuildDependency(t) PROVE Accounts'
  <2> DEFINE path == Head(thread[t].todo)
  <2>1. Local(thread[t]) /\ thread[t].pc = "dependency" /\ disk[path] # None
    BY <1>2 DEF Inv, Typed, BuildDependency
  <2>2. path \in Paths
    BY <2>1, TailType DEF Local
  <2>3. CASE builder.built[path] = disk[path]
    BY <1>1, <1>2, <2>3 DEF BuildDependency
  <2>4. CASE builder.built[path] # disk[path]
    BY <1>2, <2>1, <2>2, <2>4, CompilingKeepsAccounts DEF BuildDependency
  <2>5. QED
    BY <2>3, <2>4
<1>3. ASSUME NEW t \in Threads, BuildOwn(t) PROVE Accounts'
  <2>1. Typed /\ thread[t].pc = "own"
    BY <1>3 DEF Inv, BuildOwn
  <2>2. thread[t].path \in Paths /\ disk[thread[t].path] # None
    BY <2>1, TextOrFile DEF Inv, FilesOK, LockOK, TempsOK
  <2>3. QED
    BY <1>3, <2>2, CompilingKeepsAccounts DEF BuildOwn, OwnIsBuilt
<1>4. ASSUME NEW t \in Threads, CommandFails(t) PROVE Accounts'
  <2>1. Compiler(builder, work)
    BY DEF Inv, Typed
  <2>2. work'.contents = work.contents /\ builder'.built = builder.built /\ tried' = tried
    BY <1>4, <2>1 DEF CommandFails, Die, Compiler
  <2>3. QED
    BY <1>1, <2>2
<1>5. CASE Request
  BY <1>1, <1>5, RequestLooks
<1>6. ASSUME NEW t \in Threads, LintStep(t) PROVE Accounts'
  BY <1>1, <1>2, <1>3, <1>4, <1>6
     DEF LintStep, Start, FindOwners, FindSequence, Enter, DependencyIsGone, Die, FinishSaved,
         FinishText, FinishWith, shared
<1>7. CASE UNCHANGED all
  BY <1>1, <1>7 DEF all, vars, shared
<1>8. QED
  BY <1>1, <1>5, <1>6, <1>7, Steps DEF LintSaved, LintText, Write, Save, shared

(* Text and file share a library: compiling the one takes the place of the *)
(* other, and unless that has happened since, the library has the text the *)
(* builder's cache says it has, whatever failed in between and however     *)
(* often the file was saved (base_builder.py:429-449).                     *)
THEOREM FileIsBroughtBack == NavigationSpec => []LintingBringsTheFileBack
<1>1. NavigationInit => Accounts
  BY DEF NavigationInit, Init, Accounts, BooksOK, LintingBringsTheFileBack
<1>2. Accounts => LintingBringsTheFileBack
  BY DEF Accounts
<1>3. QED
  BY <1>1, <1>2, AccountsStep, Invariant, PTL DEF NavigationSpec
-----------------------------------------------------------------------------
(* What follows another sequence is a suffix of both. *)
LEMMA Suffix ==
  ASSUME NEW S, NEW s \in Seq(S), NEW t \in Seq(S)
  PROVE  IsSuffix(t, s \o t)
<1> DEFINE whole == s \o t
           short == Reverse(t)
           long  == Reverse(whole)
<1>1. /\ whole \in Seq(S) /\ Len(whole) = Len(s) + Len(t) /\ Len(s) \in Nat /\ Len(t) \in Nat
      /\ \A i \in 1 .. Len(t) : whole[Len(s) + i] = t[i]
  OBVIOUS
<1> HIDE DEF whole
<1>2. short \in Seq(S) /\ Len(short) = Len(t) /\ long \in Seq(S) /\ Len(long) = Len(whole)
  BY <1>1 DEF Reverse
<1>3. \A i \in 1 .. Len(t) : short[i] = long[i]
  <2>1. ASSUME NEW i \in 1 .. Len(t) PROVE short[i] = long[i]
    <3>1. short[i] = t[Len(t) - i + 1]
      BY DEF Reverse
    <3>2. long[i] = whole[Len(whole) - i + 1]
      BY <1>1 DEF Reverse
    <3>3. Len(t) - i + 1 \in 1 .. Len(t) /\ Len(whole) - i + 1 = Len(s) + (Len(t) - i + 1)
      BY <1>1
    <3>4. QED
      BY <1>1, <3>1, <3>2, <3>3
  <2>2. QED
    BY <2>1
<1> HIDE DEF short, long
<1>4. SubSeq(short, 1, Len(short)) = SubSeq(long, 1, Len(short))
  BY <1>1, <1>2, <1>3
<1>5. IsPrefix(short, long)
  BY <1>1, <1>2, <1>4 DEF IsPrefix
<1>6. QED
  BY <1>5 DEF IsSuffix, short, long, whole

(* The flags given to the text of a file are flags. *)
LEMMA GivenType ==
  ASSUME NEW doc \in Files
  PROVE  /\ FlagsFor(FlagsOf[doc], "single") \in Seq(STRING)
         /\ FlagsFor(FlagsOf[doc], "dependencies") \in Seq(STRING)
         /\ GivenTo(doc) \in Flags /\ GivenTo(doc) # None
<1>1. /\ FlagsFor(FlagsOf[doc], "single") \in Seq(STRING)
      /\ FlagsFor(FlagsOf[doc], "dependencies") \in Seq(STRING)
  BY FlagsAssumption DEF Flags, FlagsFor
<1>2. <<>> \in Seq(STRING)
  OBVIOUS
<1>3. GivenTo(doc) \in Flags
  BY <1>1, <1>2 DEF GivenTo, Flags
<1>4. QED
  BY <1>1, <1>3, FlagsAssumption

LEMMA OwnFlagsLast ==
  ASSUME NEW doc \in Files, NEW type
  PROVE  IsSuffix(CompileFlags(Tool, FlagsOf[doc], "single", type),
                  CompileFlags(Tool, GivenTo(doc), "single", type))
<1> DEFINE first == FlagsFor(FlagsOf[doc], "dependencies")
           own   == FlagsFor(FlagsOf[doc], "single")
           lint  == DefaultFlags(Tool, "single", type)
           every == DefaultFlags(Tool, "all", type)
           flags == STRING \cup {"lint", "permissive", "explicit", "warn"}
<1>1. first \in Seq(flags) /\ own \in Seq(flags)
  BY GivenType
<1>2. lint \in Seq(flags) /\ every \in Seq(flags)
  <2>1. \A scope : DefaultFlags(Tool, scope, type)
                    \in {<<"lint">>, <<"permissive">>, <<"explicit">>, <<"warn">>, <<>>}
    BY DEF DefaultFlags
  <2>2. <<>> \in Seq(flags) /\ \A flag \in flags : <<flag>> \in Seq(flags)
    OBVIOUS
  <2>3. QED
    BY <2>1, <2>2
<1>3. FlagsFor(GivenTo(doc), "single") = first \o own
  BY DEF GivenTo, FlagsFor
<1>4. /\ CompileFlags(Tool, FlagsOf[doc], "single", type) = own \o lint \o every
      /\ CompileFlags(Tool, GivenTo(doc), "single", type) = (first \o own) \o lint \o every
  BY <1>3 DEF CompileFlags
<1> HIDE DEF first, own, lint, every, flags
<1>5. (first \o own) \o lint \o every = first \o (own \o lint \o every)
  BY <1>1, <1>2
<1>6. own \o lint \o every \in Seq(flags)
  BY <1>1, <1>2
<1>7. QED
  BY <1>1, <1>4, <1>5, <1>6, Suffix

(* Where the steps of a lint lead. *)
LEMMA Moves ==
  ASSUME Inv, NEW t \in Threads, LintStep(t)
  PROVE  \E local : Set(t, local) /\ local.pc # "start" /\ (local.pc = "finish" => BuildOwn(t))
<1>0. Local(thread[t])
  BY DEF Inv, Typed
<1>1. CASE Start(t)
  <2>1. [thread[t] EXCEPT !.pc = "owners"].pc \notin {"start", "finish"}
    BY <1>0 DEF Local, Idle
  <2>2. QED
    BY <1>1, <2>1 DEF Start
<1>2. CASE FindOwners(t)
  <2> DEFINE local == [thread[t] EXCEPT !.pc = "sequence",
                         !.owners = Known(disk[thread[t].path], db.library[thread[t].path])]
  <2>1. local.pc \notin {"start", "finish"}
    BY <1>0 DEF Local, Idle
  <2>2. QED
    BY <1>2, <2>1 DEF FindOwners
<1>3. CASE FindSequence(t)
  <2>1. PICK todo : Set(t, [thread[t] EXCEPT !.pc = "enter", !.owners = {}, !.todo = todo])
    BY <1>3 DEF FindSequence
  <2>2. [thread[t] EXCEPT !.pc = "enter", !.owners = {}, !.todo = todo].pc \notin {"start", "finish"}
    BY <1>0 DEF Local, Idle
  <2>3. QED
    BY <2>1, <2>2
<1>4. CASE Enter(t)
  <2>1. [thread[t] EXCEPT !.pc = IF thread[t].todo # <<>> THEN "dependency" ELSE "own"].pc \notin {"start", "finish"}
    BY <1>0 DEF Local, Idle
  <2>2. QED
    BY <1>4, <2>1 DEF Enter
<1>5. CASE BuildDependency(t)
  <2> DEFINE step == [thread[t] EXCEPT !.pc = "enter", !.todo = Tail(@)]
  <2>1. PICK local : /\ Set(t, local)
                     /\ local = step \/ \E diags : local = [step EXCEPT !.diags = diags]
    BY <1>5 DEF BuildDependency
  <2>2. local.pc = "enter"
    BY <1>0, <2>1 DEF Local, Idle
  <2>3. QED
    BY <2>1, <2>2
<1>6. CASE BuildOwn(t)
  <2> DEFINE result == Compiled(thread[t].path, db.library[thread[t].path], "single")
             local  == [thread[t] EXCEPT !.pc = "finish", !.diags = @ \cup result.diags,
                                         !.commands = result.commands]
  <2>1. Set(t, local)
    BY <1>6 DEF BuildOwn, OwnIsBuilt
  <2> HIDE DEF result
  <2>2. local.pc = "finish"
    BY <1>0 DEF Local, Idle
  <2> HIDE DEF local
  <2>3. QED
    BY <1>6, <2>1, <2>2
<1>7. CASE DependencyIsGone(t) \/ CommandFails(t) \/ FinishSaved(t) \/ FinishText(t)
  <2>1. Set(t, Idle)
    BY <1>7 DEF DependencyIsGone, CommandFails, Die, FinishSaved, FinishText, FinishWith
  <2>2. QED
    BY <2>1, IdleType
<1>8. QED
  BY <1>1, <1>2, <1>3, <1>4, <1>5, <1>6, <1>7 DEF LintStep

(* Text is compiled with the flags that it was given. *)
CommandsOK(t) ==
  thread[t].pc = "finish" /\ IsText(thread[t]) =>
    \A command \in thread[t].commands :
      command.flags = CompileFlags(Tool, GivenTo(thread[t].doc), "single",
                                   TextOf(thread[t].version).type)

Commanded == \A t \in Threads : CommandsOK(t)

LEMMA CommandsStep == Inv /\ Commanded /\ [NavigationNext]_all => Commanded'
<1> SUFFICES ASSUME Inv, Commanded, [NavigationNext]_all PROVE Commanded'
  OBVIOUS
<1>0. DOMAIN thread = Threads /\ \A t \in Threads : Local(thread[t])
  BY DEF Inv, Typed
<1>1. ASSUME NEW t \in Threads, NEW local, Set(t, local),
             local.pc = "finish" /\ IsText(local) =>
               \A command \in local.commands :
                 command.flags = CompileFlags(Tool, GivenTo(local.doc), "single",
                                              TextOf(local.version).type)
      PROVE  Commanded'
  <2>1. thread'[t] = local /\ \A u \in Threads \ {t} : thread'[u] = thread[u]
    BY <1>0, <1>1 DEF Set
  <2>2. QED
    BY <1>1, <2>1 DEF Commanded, CommandsOK
<1>2. ASSUME NEW t \in Threads, NEW local, Set(t, local), local.pc # "finish" PROVE Commanded'
  BY <1>1, <1>2
<1>3. ASSUME \A u \in Threads : thread[u].pc = "finish" /\ thread'[u].pc = "finish" =>
                                  /\ thread'[u].path = thread[u].path /\ thread'[u].doc = thread[u].doc
                                  /\ thread'[u].version = thread[u].version
                                  /\ thread'[u].commands = thread[u].commands,
             \A u \in Threads : thread'[u].pc = "finish" => thread[u].pc = "finish"
      PROVE  Commanded'
  BY <1>3 DEF Commanded, CommandsOK, IsText
<1>4. ASSUME NEW t \in Threads, LintStep(t) PROVE Commanded'
  <2>1. CASE BuildOwn(t)
    <3> DEFINE path   == thread[t].path
               result == Compiled(path, db.library[path], "single")
               local  == [thread[t] EXCEPT !.pc = "finish", !.diags = @ \cup result.diags,
                                           !.commands = result.commands]
    <3>1. Set(t, local)
      BY <2>1 DEF BuildOwn, OwnIsBuilt
    <3>2. Local(thread[t]) /\ thread[t].pc = "own"
      BY <1>0, <2>1 DEF BuildOwn
    <3>3. IsText(thread[t]) =>
            /\ disk[path] = thread[t].version /\ db.flags[path] = GivenTo(thread[t].doc)
            /\ db.flags[path] # None
      BY <3>2, GivenType DEF Inv, LockOK, TextOK, Local
    <3>4. IsText(thread[t]) =>
            \A command \in result.commands :
              command.flags = CompileFlags(Tool, GivenTo(thread[t].doc), "single",
                                           TextOf(thread[t].version).type)
      BY <3>3 DEF Compiled, Commands
    <3> HIDE DEF result
    <3>5. /\ local.path = thread[t].path /\ local.doc = thread[t].doc
          /\ local.version = thread[t].version /\ local.commands = result.commands
      BY <3>2 DEF Local, Idle
    <3> HIDE DEF local
    <3>6. QED
      BY <1>1, <3>1, <3>4, <3>5 DEF IsText
  <2>2. CASE ~ BuildOwn(t)
    BY <1>2, <1>4, <2>2, Moves
  <2>3. QED
    BY <2>1, <2>2
<1>5. ASSUME NEW t \in Threads, NEW doc \in Files, LintSaved(t, doc) PROVE Commanded'
  <2> DEFINE diags == {Pointed(diag, doc) : diag \in Static[disk[doc]]}
             local == [Idle EXCEPT !.pc = "start", !.doc = doc, !.path = doc, !.version = disk[doc],
                                   !.diags = diags]
  <2>1. Set(t, local)
    BY <1>5 DEF LintSaved
  <2> HIDE DEF diags
  <2>2. local.pc # "finish"
    BY DEF Idle
  <2> HIDE DEF local
  <2>3. QED
    BY <1>2, <2>1, <2>2
<1>6. ASSUME NEW t \in Threads, NEW doc \in Files, NEW n \in DOMAIN Texts[doc], LintText(t, doc, n)
      PROVE  Commanded'
  <2>1. thread'[t].pc = "start"
    BY <1>6 DEF LintText, Write, Idle
  <2>2. ASSUME NEW u \in Threads, u # t
        PROVE  /\ thread'[u].pc = thread[u].pc /\ thread'[u].path = thread[u].path
               /\ thread'[u].doc = thread[u].doc /\ thread'[u].version = thread[u].version
               /\ thread'[u].commands = thread[u].commands
    <3>1. thread'[u] = [thread[u] EXCEPT !.overlapped = (@ \/ thread[u].pc # "idle")]
      BY <1>6, <2>2 DEF LintText, Write
    <3>2. QED
      BY <1>0, <3>1 DEF Local, Idle
  <2>3. QED
    BY <1>3, <2>1, <2>2
<1>7. ASSUME NEW doc \in Files, NEW n \in DOMAIN Texts[doc], Save(doc, n) PROVE Commanded'
  <2>1. ASSUME NEW u \in Threads
        PROVE  /\ thread'[u].pc = thread[u].pc /\ thread'[u].path = thread[u].path
               /\ thread'[u].doc = thread[u].doc /\ thread'[u].version = thread[u].version
               /\ thread'[u].commands = thread[u].commands
    <3>1. thread'[u] = [thread[u] EXCEPT !.alone = FALSE]
      BY <1>7 DEF Save
    <3>2. QED
      BY <1>0, <3>1 DEF Local, Idle
  <2>2. QED
    BY <1>3, <2>1
<1>8. CASE Request \/ UNCHANGED all
  <2>1. thread' = thread
    BY <1>8, RequestLooks DEF all, vars
  <2>2. QED
    BY <1>3, <2>1
<1>9. QED
  BY <1>4, <1>5, <1>6, <1>7, <1>8, Steps

(* The command line of unsaved text ends with all that the command line of *)
(* its file has, whatever flags the file has and whichever the builder, so *)
(* that the flags which end up in front by mistake have no last word       *)
(* (core.py:557-563, database.py:146-173, base_builder.py:299-311).        *)
THEOREM FlagsEndWithTheFiles == NavigationSpec => []FlagsOfTheFileComeLast
<1>1. NavigationInit => Commanded
  <2> SUFFICES ASSUME NavigationInit PROVE Commanded
    OBVIOUS
  <2>1. thread = [t \in Threads |-> Idle]
    BY DEF NavigationInit, Init
  <2>2. QED
    BY <2>1, IdleType DEF Commanded, CommandsOK
<1>2. Inv /\ Commanded => FlagsOfTheFileComeLast
  <2> SUFFICES ASSUME Inv, Commanded, NEW t \in Threads, thread[t].pc = "finish", IsText(thread[t]),
                      NEW command \in thread[t].commands
               PROVE  IsSuffix(CompileFlags(Tool, FlagsOf[thread[t].doc], "single",
                                            TextOf(thread[t].version).type), command.flags)
    BY DEF FlagsOfTheFileComeLast
  <2>1. thread[t].doc \in Files
    BY DEF Inv, Typed, Local
  <2>2. QED
    BY <2>1, OwnFlagsLast DEF Commanded, CommandsOK
<1>3. QED
  BY <1>1, <1>2, CommandsStep, Invariant, PTL DEF NavigationSpec

-----------------------------------------------------------------------------
(* The cursor is on a unit when it is on a letter of its name. *)
LEMMA NameIsFound ==
  ASSUME NEW v \in Versions, NEW i \in Lines(TextOf(v), UnitKinds(TextOf(v))),
         i > 1, TextOf(v).lines[i].gap = 1, ~ Swallowed(TextOf(v), i),
         NEW k \in 1 .. LengthOf[TextOf(v).lines[i].names[1].word]
  PROVE  \E e \in ElementsAt(TextOf(v), [line |-> i - 1, column |-> TextOf(v).lines[i].at + k]) :
           SameName(e.name, Identifier(TextOf(v).lines[i].names[1], TextOf(v).type))
<1> DEFINE text     == TextOf(v)
           name     == Identifier(text.lines[i].names[1], text.type)
           position == [line |-> i - 1, column |-> text.lines[i].at + k]
           unit     == [type |-> TypeOfUnit(text.lines[i].kind), name |-> name,
                        locations |-> {UnitLocation(text, i)}]
<1>1. /\ text.type = "vhdl" /\ text.lines \in Seq(Line) /\ i \in DOMAIN text.lines
      /\ text.lines[i].names # <<>>
  BY TextAssumption DEF Lines
<1>2. text.lines[i].at \in Nat /\ text.lines[i].names[1].word \in Words /\ i \in Nat
  <2>1. text.lines[i] \in Line /\ i \in Nat
    BY <1>1
  <2>2. text.lines[i].names[1] \in Spelled
    BY <1>1, <2>1 DEF Line
  <2>3. QED
    BY <2>1, <2>2 DEF Line, Spelled
<1>3. LengthOf[text.lines[i].names[1].word] \in Nat
  BY <1>2, SourceTextAssumption
<1>4. unit \in UnitsOf(text)
  BY <1>1 DEF UnitsOf, Readable
<1>5. UnitLocation(text, i) = [line |-> i - 1, column |-> text.lines[i].at + 1]
  BY DEF UnitLocation
<1>6. /\ unit.name = name /\ unit.locations = {UnitLocation(text, i)}
      /\ UnitLength(unit) = LengthOf[text.lines[i].names[1].word]
  BY DEF UnitLength, Identifier
<1> HIDE DEF unit, text
<1>7. Includes(unit.locations, UnitLength(unit), position)
  <2>1. /\ text.lines[i].at + 1 <= text.lines[i].at + k
        /\ text.lines[i].at + k < text.lines[i].at + 1 + UnitLength(unit)
    BY <1>2, <1>3, <1>6 DEF text
  <2>2. QED
    BY <1>5, <1>6, <2>1 DEF Includes
<1>8. unit \in ElementsAt(text, position)
  BY <1>4, <1>7 DEF ElementsAt
<1>9. SameName(unit.name, name)
  BY <1>6 DEF SameName
<1>10. QED
  BY <1>8, <1>9 DEF text

(* Whatever the sources say and whatever is going on, the editor finds a   *)
(* unit at each letter of its name, and among its references each place    *)
(* where it is used (parsed_element.py:63-73, database.py:858-877).        *)
THEOREM NamesAreFound == NavigationSpec => []NamesLeadBothWays
<1>1. Inv => NamesLeadBothWays
  <2> SUFFICES ASSUME Inv, NEW f \in Files
               PROVE  LET text == TextOf(disk[f]) IN
                 /\ \A i \in Lines(text, UnitKinds(text)) :
                      (i > 1 /\ text.lines[i].gap = 1 /\ ~ Swallowed(text, i)) =>
                        \A k \in 1..LengthOf[text.lines[i].names[1].word] :
                          \E e \in ElementsAt(text, [line |-> i - 1, column |-> text.lines[i].at + k]) :
                            SameName(e.name, Identifier(text.lines[i].names[1], text.type))
                 /\ \A d \in Needs[disk[f]] : \A target \in Files : \A unit \in Units[disk[target]] :
                      (/\ db.parsed[f] = disk[f] /\ db.parsed[target] = disk[target]
                       /\ SameName(unit.name, d.name) /\ LibraryFor(d, db.library[f]) = db.library[target]) =>
                        {[path |-> f, at |-> at] : at \in d.locations} \subseteq ReferencesTo(target, unit)
    BY DEF NamesLeadBothWays
  <2>1. disk[f] \in Versions /\ f \in Paths /\ disk[f] # None
    BY DEF Inv, Typed, FilesOK, Paths
  <2>2. ASSUME NEW d \in Needs[disk[f]], NEW target \in Files, NEW unit \in Units[disk[target]],
               db.parsed[f] = disk[f], SameName(unit.name, d.name),
               LibraryFor(d, db.library[f]) = db.library[target], NEW at \in d.locations
        PROVE  [path |-> f, at |-> at] \in ReferencesTo(target, unit)
    <3>1. SameName(d.name, unit.name)
      BY <2>2 DEF SameName
    <3>2. d.library # None => d.library.word = db.library[target]
      BY <2>2 DEF LibraryFor
    <3> DEFINE there == UNION {e.locations : e \in {e \in Needs[db.parsed[f]] :
                           /\ SameName(e.name, unit.name)
                           /\ e.library # None => e.library.word = db.library[target]}}
    <3>3. at \in there
      BY <2>2, <3>1, <3>2
    <3> HIDE DEF there
    <3>4. [path |-> f, at |-> at] \in {[path |-> f, at |-> place] : place \in there}
      BY <3>3
    <3>5. {[path |-> f, at |-> place] : place \in there} \subseteq ReferencesTo(target, unit)
      BY <2>1, <2>2 DEF ReferencesTo, there
    <3>6. QED
      BY <3>4, <3>5
  <2>3. QED
    BY <2>1, <2>2, NameIsFound
<1>2. QED
  BY <1>1, Invariant, PTL
-----------------------------------------------------------------------------
(* A text defines a name if it has a unit of that word: case does not      *)
(* matter in VHDL.                                                         *)
LEMMA DefinesWord ==
  ASSUME NEW v \in Versions, NEW name
  PROVE  Defines(v, name) <=> name.word \in UnitWords[v]
<1>1. \A unit \in Units[v] : ~ unit.name.case_sensitive
  <2>1. Units[v] = UnitsOf(TextOf(v)) /\ TextOf(v).type = "vhdl"
    BY TextAssumption DEF Units
  <2>2. ASSUME NEW unit \in UnitsOf(TextOf(v)) PROVE ~ unit.name.case_sensitive
    <3>1. PICK i : unit.name = Identifier(TextOf(v).lines[i].names[1], TextOf(v).type)
      BY <2>2 DEF UnitsOf
    <3>2. \A x : ~ Identifier(x, "vhdl").case_sensitive
      BY DEF Identifier
    <3>3. QED
      BY <2>1, <3>1, <3>2
  <2>3. QED
    BY <2>1, <2>2
<1>2. UnitWords[v] = {unit.name.word : unit \in Units[v]}
  BY DEF UnitWords
<1>3. QED
  BY <1>1, <1>2 DEF Defines, SameName

(* What is found once it is looked for leads to a source that is seen by   *)
(* all: one of the project, or one that a dead lint left.                  *)
Leads(target, name) ==
  IF target = None THEN \A f \in Files : ~ Defines(db.parsed[f], name)
  ELSE /\ target \in Files \cup left /\ db.parsed[target] # None
       /\ Defines(db.parsed[target], name)

(* The database is up to date about what a sequence was made from. *)
LookedUp(owners) == \A o \in owners : disk[o.path] = db.parsed[o.path]

LEMMA SequenceFinds ==
  ASSUME Inv, lock = None, NEW version \in Versions, NEW library, LookedUp(Known(version, library)),
         NEW libraries, NEW sequence \in Sequences(Known(version, library), libraries),
         NEW d \in Needs[version], ~ Defines(version, d.name)
  PROVE  /\ sequence \in Seq(Files \cup left)
         /\ \A k \in DOMAIN sequence :
              disk[sequence[k]] = db.parsed[sequence[k]] /\ db.parsed[sequence[k]] \in Versions
         /\ (\E f \in Files : Defines(db.parsed[f], d.name)) =>
              \E k \in DOMAIN sequence : Defines(db.parsed[sequence[k]], d.name)
<1> DEFINE owners  == Known(version, library)
           Near(o) == libraries[o.path] = o.unit.library
           chosen  == {o.path : o \in {o \in owners :
                         Near(o) \/ ~ \E other \in owners : other.unit = o.unit /\ Near(other)}}
           there   == {p \in chosen : disk[p] # None}
           Adds(p) == {[library |-> libraries[p], word |-> w] : w \in UnitWords[disk[p]]}
           From(P) == UNION {Adds(p) : p \in P}
           wanted  == [library |-> LibraryFor(d, library), name |-> d.name]
<1>1. /\ sequence \in BoundedSeq(there, Cardinality(there))
      /\ From(there) \subseteq From(Range(sequence))
  BY DEF Sequences
<1>2. \A o \in owners : o.path \in Paths /\ db.parsed[o.path] # None /\ Defines(db.parsed[o.path], o.unit.name)
  BY DEF Known, Owners
<1>3. \A p \in Paths : db.parsed[p] # None => p \in Files \cup left /\ db.parsed[p] \in Versions
  BY WorkspaceAssumption DEF Inv, Typed, Database, TempsOK, Paths
<1>4. \A p \in there : /\ p \in Files \cup left /\ disk[p] = db.parsed[p]
                       /\ db.parsed[p] \in Versions
  BY <1>2, <1>3 DEF LookedUp
<1>5. \A f \in Files : Defines(db.parsed[f], d.name) => [unit |-> wanted, path |-> f] \in owners
  <2>1. ASSUME NEW f \in Files, Defines(db.parsed[f], d.name)
        PROVE  [unit |-> wanted, path |-> f] \in owners
    <3>1. wanted \in Wanted(version, library)
      BY DEF Wanted
    <3>2. f \in Owners(wanted.name)
      BY <2>1 DEF Owners, Inv, FilesOK, Paths
    <3> HIDE DEF wanted
    <3>3. QED
      BY <3>1, <3>2 DEF Known
  <2>2. QED
    BY <2>1
<1>6. ASSUME NEW f \in Files, Defines(db.parsed[f], d.name)
      PROVE  \E p \in there : Defines(db.parsed[p], d.name)
  <2> DEFINE own == [unit |-> wanted, path |-> f]
  <2>1. own \in owners /\ own.unit = wanted /\ own.path = f
    BY <1>5, <1>6
  <2> HIDE DEF own, owners
  <2>2. \E o \in owners : o.unit = wanted /\ o.path \in chosen
    <3>1. CASE \E other \in owners : other.unit = own.unit /\ Near(other)
      BY <2>1, <3>1
    <3>2. CASE ~ \E other \in owners : other.unit = own.unit /\ Near(other)
      BY <2>1, <3>2
    <3>3. QED
      BY <3>1, <3>2
  <2>3. PICK o \in owners : o.unit = wanted /\ o.path \in chosen
    BY <2>2
  <2>4. disk[o.path] # None
    BY <1>2, <2>3 DEF LookedUp, owners
  <2>5. Defines(db.parsed[o.path], d.name)
    BY <1>2, <2>3
  <2>6. QED
    BY <2>3, <2>4, <2>5
<1> HIDE DEF there, owners
<1>7. PICK m \in 0 .. Cardinality(there) : sequence \in [1 .. m -> there]
  BY <1>1 DEF BoundedSeq, SeqOf
<1>8. \A k \in DOMAIN sequence : sequence[k] \in there
  BY <1>7
<1>9. sequence \in Seq(Files \cup left)
  <2>1. m \in Nat
    BY <1>7
  <2>2. sequence \in Seq(there)
    BY <1>7, <2>1
  <2>3. QED
    BY <1>4, <2>2
<1>10. ASSUME NEW f \in Files, Defines(db.parsed[f], d.name)
       PROVE  \E k \in DOMAIN sequence : Defines(db.parsed[sequence[k]], d.name)
  <2>1. PICK p \in there : Defines(db.parsed[p], d.name)
    BY <1>6, <1>10
  <2>2. d.name.word \in UnitWords[disk[p]]
    BY <1>4, <2>1, DefinesWord
  <2>3. [library |-> libraries[p], word |-> d.name.word] \in From(there)
    BY <2>2
  <2>4. [library |-> libraries[p], word |-> d.name.word] \in From(Range(sequence))
    BY <1>1, <2>3
  <2>5. PICK q \in Range(sequence) : [library |-> libraries[p], word |-> d.name.word] \in Adds(q)
    BY <2>4
  <2>6. PICK k \in DOMAIN sequence : q = sequence[k]
    BY <2>5 DEF Range
  <2>7. d.name.word \in UnitWords[disk[q]]
    BY <2>5
  <2>8. QED
    BY <1>4, <1>8, <2>6, <2>7, DefinesWord
<1>11. QED
  BY <1>4, <1>8, <1>9, <1>10

LEMMA Smallest == ASSUME NEW T \in SUBSET Nat, T # {} PROVE \E x \in T : \A y \in T : x <= y
<1> DEFINE R == {pair \in Nat \X Nat : pair[1] < pair[2]}
<1>1. IsWellFoundedOn(R, Nat)
  BY NatLessThanWellFounded DEF OpToRel
<1>2. \A x, y \in Nat : <<y, x>> \in R <=> y < x
  OBVIOUS
<1> HIDE DEF R
<1>3. \E x \in T : \A y \in T : ~ (<<y, x>> \in R)
  BY <1>1, WFMin
<1>4. PICK x \in T : \A y \in T : ~ (<<y, x>> \in R)
  BY <1>3
<1>5. ASSUME NEW y \in T PROVE x <= y
  <2>1. x \in Nat /\ y \in Nat
    OBVIOUS
  <2>2. ~ (y < x)
    BY <1>2, <1>4, <2>1
  <2>3. QED
    BY <2>1, <2>2
<1>6. QED
  BY <1>5

(* A name leads to the first source of the sequence that defines it. *)
LEMMA ResolvedLeads ==
  ASSUME Inv, lock = None, NEW path \in Files, disk[path] = db.parsed[path], NEW library,
         LookedUp(Known(disk[path], library)), NEW libraries,
         NEW sequence \in Sequences(Known(disk[path], library), libraries),
         NEW d \in Needs[disk[path]]
  PROVE  Leads(Resolved(path, disk[path], d, sequence), d.name)
<1> DEFINE paths == <<path>> \o sequence
           hits  == {i \in DOMAIN paths :
                       Defines(IF paths[i] = path THEN disk[path] ELSE disk[paths[i]], d.name)}
           first == CHOOSE i \in hits : \A other \in hits : i <= other
<1>1. disk[path] \in Versions /\ disk[path] # None
  BY DEF Inv, Typed, FilesOK, Paths
<1>2. Resolved(path, disk[path], d, sequence) = IF hits = {} THEN None ELSE paths[first]
  BY DEF Resolved
<1>3. None \notin Files
  BY WorkspaceAssumption DEF Paths
<1>4. sequence \in Seq(Paths)
  <2>1. \A o \in Known(disk[path], library) : o.path \in Paths
    BY OwnersType
  <2>2. QED
    BY <2>1, SequenceType
<1>5. /\ paths[1] = path /\ 1 \in DOMAIN paths /\ DOMAIN paths \subseteq Nat \ {0}
      /\ \A k \in DOMAIN sequence : k + 1 \in DOMAIN paths /\ paths[k + 1] = sequence[k]
      /\ \A i \in DOMAIN paths : i # 1 => i - 1 \in DOMAIN sequence /\ paths[i] = sequence[i - 1]
  BY <1>4
<1> HIDE DEF paths
<1>6. \A i \in hits : i \in DOMAIN paths /\ Defines(disk[paths[i]], d.name)
  OBVIOUS
<1>7. \A i \in DOMAIN paths : Defines(disk[paths[i]], d.name) => i \in hits
  OBVIOUS
<1> HIDE DEF hits, first
<1>8. CASE hits = {}
  <2>1. ~ Defines(disk[path], d.name)
    BY <1>5, <1>7, <1>8
  <2>2. \A k \in DOMAIN sequence : ~ Defines(disk[sequence[k]], d.name)
    BY <1>5, <1>7, <1>8
  <2>3. \A f \in Files : ~ Defines(db.parsed[f], d.name)
    BY <1>1, <2>1, <2>2, SequenceFinds
  <2>4. QED
    BY <1>2, <1>8, <2>3 DEF Leads
<1>9. CASE hits # {}
  <2>1. \E i \in hits : \A other \in hits : i <= other
    BY <1>5, <1>6, <1>9, Smallest
  <2>2. first \in hits /\ \A other \in hits : first <= other
    BY <2>1 DEF first
  <2>3. CASE first = 1
    <3>1. Defines(db.parsed[path], d.name)
      BY <1>5, <1>6, <2>2, <2>3
    <3>2. QED
      BY <1>1, <1>2, <1>3, <1>5, <1>9, <2>3, <3>1 DEF Leads
  <2>4. CASE first # 1
    <3>1. ~ Defines(disk[path], d.name)
      BY <1>5, <1>6, <1>7, <2>2, <2>4
    <3>2. first - 1 \in DOMAIN sequence /\ paths[first] = sequence[first - 1]
      BY <1>5, <1>6, <2>2, <2>4
    <3>3. sequence \in Seq(Files \cup left)
      BY <1>1, <3>1, SequenceFinds
    <3>4. disk[paths[first]] = db.parsed[paths[first]] /\ db.parsed[paths[first]] \in Versions
      BY <1>1, <3>1, <3>2, SequenceFinds
    <3>5. paths[first] \in Files \cup left
      BY <3>2, <3>3
    <3>6. None \notin Files \cup left /\ None \notin Versions
      BY WorkspaceAssumption DEF Inv, Typed, Paths
    <3>7. Defines(db.parsed[paths[first]], d.name)
      BY <1>6, <2>2, <3>4
    <3>8. QED
      BY <1>2, <1>9, <3>4, <3>5, <3>6, <3>7 DEF Leads
  <2>5. QED
    BY <2>3, <2>4
<1>10. QED
  BY <1>8, <1>9
-----------------------------------------------------------------------------
(* What an editor has been told rests on what the database has: the cache  *)
(* leads where names are defined, and a search still has before it a       *)
(* source that defines the name if there is one.                           *)
CacheOK == \A r \in resolved : Leads(r.target, r.dependency.name)

InDatabase(path, name) == db.parsed[path] # None /\ Defines(db.parsed[path], name)

Ahead(todo, name) ==
  /\ todo \in Seq(Files \cup left)
  /\ (\E f \in Files : Defines(db.parsed[f], name)) =>
       \E k \in DOMAIN todo : InDatabase(todo[k], name)

RequestTyped ==
  /\ DOMAIN request = DOMAIN NoRequest
  /\ request.pc \in {"none", "resolve", "sequence", "search", "answer"}
  /\ request.pc # "none" => request.owner \in Files

RequestOK ==
  /\ request.pc # "none" => request.dependency \in Needs[db.parsed[request.owner]]
  /\ request.pc = "sequence" => ~ Defines(db.parsed[request.owner], request.dependency.name)
  /\ request.pc = "search" => Ahead(request.todo, request.dependency.name)
  /\ request.pc = "answer" => Leads(request.target, request.dependency.name)

Answers == RequestTyped /\ (~ doubt => CacheOK /\ RequestOK)

(* A step that leaves no doubt leaves the database as it was, or had       *)
(* nothing to spoil.                                                       *)
LEMMA NoDoubt ==
  ASSUME Doubted, ~ doubt'
  PROVE  /\ LintBegins \/ ~ doubt
         /\ LintBegins \/ db'.parsed = db.parsed
              \/ (resolved = {} /\ resolved' = {} /\ request.pc = "none")
         /\ request'.pc = "none" \/ (lock = None /\ ~ LintBegins)
<1> DEFINE before == ~ LintBegins /\ doubt
           moved  == /\ db'.parsed # db.parsed /\ ~ LintBegins
                     /\ resolved \cup resolved' # {} \/ request.pc # "none"
           during == request'.pc # "none" /\ (lock # None \/ LintBegins)
<1>1. doubt' = (before \/ moved \/ during)
  BY DEF Doubted
<1>2. ~ before /\ ~ moved /\ ~ during
  <2> HIDE DEF before, moved, during
  <2>1. QED
    BY <1>1
<1>3. resolved \cup resolved' = {} => resolved = {} /\ resolved' = {}
  OBVIOUS
<1>4. QED
  BY <1>2, <1>3

(* What is known stays known while the database stays the same. *)
LEMMA LeadsStays ==
  ASSUME db'.parsed = db.parsed, left \subseteq left', NEW target, NEW name, Leads(target, name)
  PROVE  Leads(target, name)'
<1>1. CASE target = None
  BY <1>1 DEF Leads
<1>2. CASE target # None
  BY <1>2 DEF Leads
<1>3. QED
  BY <1>1, <1>2

LEMMA AheadStays ==
  ASSUME db'.parsed = db.parsed, left \subseteq left', NEW todo, NEW name, Ahead(todo, name)
  PROVE  Ahead(todo, name)'
<1>1. Files \cup left \subseteq Files \cup left'
  OBVIOUS
<1>2. todo \in Seq(Files \cup left')
  BY <1>1 DEF Ahead
<1>3. QED
  BY <1>2 DEF Ahead, InDatabase

LEMMA Beside ==
  ASSUME NavigationNext PROVE Request \/ Meanwhile
BY Zenon DEF NavigationNext, Request

LEMMA NoLintBegins ==
  ASSUME Inv, NEW t \in Threads, LintStep(t) PROVE ~ LintBegins
<1>1. PICK local : Set(t, local) /\ local.pc # "start"
  BY Moves
<1>2. DOMAIN thread = Threads
  BY DEF Inv, Typed
<1>3. \A u \in Threads : thread'[u] = IF u = t THEN local ELSE thread[u]
  BY <1>1, <1>2 DEF Set
<1>4. QED
  BY <1>1, <1>3 DEF LintBegins

(* Steps that do not touch the request or the cache. *)
LEMMA QuietOK ==
  ASSUME Answers, Doubted, ~ LintBegins, left \subseteq left', UNCHANGED <<request, resolved>>
  PROVE  Answers'
<1>1. RequestTyped'
  BY DEF Answers, RequestTyped
<1>2. ASSUME ~ doubt' PROVE CacheOK' /\ RequestOK'
  <2>1. CacheOK /\ RequestOK
    BY <1>2, NoDoubt DEF Answers
  <2>2. CASE db'.parsed = db.parsed
    <3>1. CacheOK'
      BY <2>1, <2>2, LeadsStays DEF CacheOK
    <3>2. request.pc = "search" => Ahead(request.todo, request.dependency.name)'
      BY <2>1, <2>2, AheadStays DEF RequestOK
    <3>3. request.pc = "answer" => Leads(request.target, request.dependency.name)'
      BY <2>1, <2>2, LeadsStays DEF RequestOK
    <3>4. RequestOK'
      BY <2>1, <2>2, <3>2, <3>3 DEF RequestOK, Ahead, Leads, InDatabase
    <3>5. QED
      BY <3>1, <3>4
  <2>3. CASE resolved = {} /\ resolved' = {} /\ request.pc = "none"
    BY <2>3 DEF CacheOK, RequestOK
  <2>4. QED
    BY <1>2, <2>2, <2>3, NoDoubt
<1>3. QED
  BY <1>1, <1>2 DEF Answers

(* The start of a lint empties the cache. *)
LEMMA BeginsOK ==
  ASSUME Answers, Doubted, LintBegins, resolved' = {}, UNCHANGED request
  PROVE  Answers'
<1>1. RequestTyped'
  BY DEF Answers, RequestTyped
<1>2. ASSUME ~ doubt' PROVE CacheOK' /\ RequestOK'
  <2>1. request'.pc = "none"
    BY <1>2, NoDoubt
  <2>2. QED
    BY <2>1 DEF CacheOK, RequestOK
<1>3. QED
  BY <1>1, <1>2 DEF Answers

LEMMA BeginningIs ==
  ASSUME Inv, NEW t \in Threads, NEW doc \in Files,
         LintSaved(t, doc) \/ \E n \in DOMAIN Texts[doc] : LintText(t, doc, n)
  PROVE  LintBegins /\ resolved' = {}
<1>1. thread[t].pc = "idle" /\ DOMAIN thread = Threads
  BY DEF Inv, Typed, LintSaved, LintText
<1>2. CASE LintSaved(t, doc)
  <2>1. [Idle EXCEPT !.pc = "start", !.doc = doc, !.path = doc, !.version = disk[doc],
                     !.diags = {Pointed(diag, doc) : diag \in Static[disk[doc]]}].pc = "start"
    BY DEF Idle
  <2>2. QED
    BY <1>1, <1>2, <2>1 DEF LintSaved, Set, LintBegins
<1>3. ASSUME NEW n, LintText(t, doc, n) PROVE LintBegins /\ resolved' = {}
  <2>1. PICK temp, version, alone, diags :
          /\ resolved' = {}
          /\ thread'[t] = [Idle EXCEPT !.pc = "start", !.doc = doc, !.path = temp,
                             !.version = version, !.alone = alone, !.diags = diags]
    BY <1>3 DEF LintText, Write
  <2>2. thread'[t].pc = "start"
    BY <2>1 DEF Idle
  <2>3. QED
    BY <1>1, <2>1, <2>2 DEF LintBegins
<1>4. QED
  BY <1>2, <1>3

(* A request leaves the threads alone, and with them the moment at which a *)
(* lint begins.                                                            *)
LEMMA RequestKeeps ==
  ASSUME Inv, Request
  PROVE  /\ Doubted /\ ~ LintBegins /\ UNCHANGED <<disk, left, thread>>
<1>1. Doubted
  BY DEF Request, AskAbout, Recall, Resolve, TakeSequence, Search, AnswerDefinition, AnswerHover, Answering
<1>2. UNCHANGED <<disk, left, thread>>
  BY RequestLooks
<1>3. QED
  BY <1>1, <1>2 DEF LintBegins

(* While an answer is looked for and no doubt arises, the database says    *)
(* all along what it said when the question was asked.                     *)
LEMMA Undoubted ==
  ASSUME Inv, Answers, Request, request.pc # "none", ~ doubt'
  PROVE  /\ db'.parsed = db.parsed /\ CacheOK /\ RequestOK
         /\ request'.pc # "none" => lock = None
BY RequestKeeps, NoDoubt DEF Answers

LEMMA AskedVersion ==
  ASSUME Inv, RequestTyped, RequestOK, request.pc # "none"
  PROVE  /\ request.owner \in Files /\ db.parsed[request.owner] \in Versions
         /\ db.parsed[request.owner] # None
         /\ request.dependency \in Needs[db.parsed[request.owner]]
BY DEF Inv, Typed, Database, FilesOK, Paths, RequestTyped, RequestOK

(* What finds a target remembers it. *)
LEMMA FoundOK ==
  ASSUME Inv, Answers, Request, request.pc # "none", NEW target, Found(target),
         ~ doubt' => Leads(target, request.dependency.name)
  PROVE  Answers'
<1>1. /\ DOMAIN request' = DOMAIN NoRequest /\ request'.pc = "answer" /\ request'.target = target
      /\ request'.owner = request.owner /\ request'.dependency = request.dependency
  BY DEF Answers, RequestTyped, Found, NoRequest
<1>2. RequestTyped'
  BY <1>1 DEF Answers, RequestTyped
<1>3. ASSUME ~ doubt' PROVE CacheOK' /\ RequestOK'
  <2>1. /\ db'.parsed = db.parsed /\ left \subseteq left' /\ CacheOK /\ RequestOK
    BY <1>3, Undoubted, RequestKeeps
  <2>2. Leads(target, request.dependency.name)'
    BY <1>1, <1>3, <2>1, LeadsStays DEF Leads
  <2>3. RequestOK'
    BY <1>1, <2>1, <2>2 DEF RequestOK
  <2>4. ASSUME NEW r \in resolved' PROVE Leads(r.target, r.dependency.name)'
    <3>1. CASE r \in resolved
      BY <2>1, <3>1, LeadsStays DEF CacheOK, Leads
    <3>2. CASE r = [owner |-> request.owner, dependency |-> request.dependency, target |-> target]
      BY <1>1, <2>2, <3>2
    <3>3. QED
      BY <3>1, <3>2 DEF Found
  <2>5. QED
    BY <2>3, <2>4 DEF CacheOK
<1>4. QED
  BY <1>2, <1>3 DEF Answers

LEMMA AskOK ==
  ASSUME Inv, Answers, NEW doc \in Files, NEW at, AskAbout(doc, at), Request
  PROVE  Answers'
<1>1. PICK element \in DependenciesOf(TextOf(disk[doc])) :
        /\ "kind" \in DOMAIN element
        /\ request' = [NoRequest EXCEPT !.pc = "resolve", !.owner = doc, !.dependency = element]
  <2>1. \A e \in UnitsOf(TextOf(disk[doc])) : "kind" \notin DOMAIN e
    BY DEF UnitsOf
  <2>2. PICK e \in ElementsAt(TextOf(disk[doc]), at) :
          /\ "kind" \in DOMAIN e
          /\ request' = [NoRequest EXCEPT !.pc = "resolve", !.owner = doc, !.dependency = e]
    BY DEF AskAbout
  <2>3. e \in DependenciesOf(TextOf(disk[doc]))
    BY <2>1, <2>2 DEF ElementsAt
  <2>4. QED
    BY <2>2, <2>3
<1>2. /\ DOMAIN request' = DOMAIN NoRequest /\ request'.pc = "resolve" /\ request'.owner = doc
      /\ request'.dependency = element
  BY <1>1 DEF NoRequest
<1>3. disk[doc] \in Versions /\ db'.parsed[doc] = disk[doc] /\ UNCHANGED <<resolved, left>>
  BY DEF AskAbout, Inv, Typed, Database, FilesOK, Paths
<1>4. element \in Needs[disk[doc]]
  <2>1. element \in VhdlDependencies(TextOf(disk[doc]))
    BY <1>1, <1>3, TextAssumption DEF DependenciesOf
  <2>2. \E library, name, locations : element = Required(library, name, locations)
    BY <2>1, Zenon DEF VhdlDependencies, VhdlUses
  <2>3. element.kind = "unit"
    BY <2>2 DEF Required
  <2>4. QED
    BY <1>1, <1>3, <2>3 DEF Needs
<1>5. RequestTyped'
  BY <1>2 DEF RequestTyped
<1>6. ASSUME ~ doubt' PROVE CacheOK' /\ RequestOK'
  <2>1. RequestOK'
    BY <1>2, <1>3, <1>4 DEF RequestOK
  <2>2. /\ CacheOK
        /\ db'.parsed = db.parsed \/ resolved = {}
    BY <1>6, RequestKeeps, NoDoubt DEF Answers
  <2>3. CacheOK'
    BY <1>3, <2>2, LeadsStays DEF CacheOK
  <2>4. QED
    BY <2>1, <2>3
<1>7. QED
  BY <1>5, <1>6 DEF Answers

LEMMA RecallOK == ASSUME Inv, Answers, Recall PROVE Answers'
<1>1. Request /\ request.pc # "none"
  BY DEF Request, Recall
<1>2. PICK r \in resolved : r.dependency = request.dependency /\ Found(r.target)
  BY DEF Recall
<1>3. ~ doubt' => Leads(r.target, request.dependency.name)
  BY <1>1, <1>2, Undoubted DEF CacheOK
<1>4. QED
  BY <1>1, <1>2, <1>3, FoundOK

(* Steps that go on without a target. *)
LEMMA LooksFurther ==
  ASSUME Inv, Answers, Request, request.pc # "none", UNCHANGED resolved,
         DOMAIN request' = DOMAIN NoRequest, request'.pc \in {"sequence", "search"},
         request'.owner = request.owner, request'.dependency = request.dependency,
         ~ doubt' => /\ request'.pc = "sequence" =>
                          ~ Defines(db.parsed[request.owner], request.dependency.name)
                     /\ request'.pc = "search" => Ahead(request'.todo, request.dependency.name)
  PROVE  Answers'
<1>1. RequestTyped'
  BY DEF Answers, RequestTyped
<1>2. ASSUME ~ doubt' PROVE CacheOK' /\ RequestOK'
  <2>1. /\ db'.parsed = db.parsed /\ left \subseteq left' /\ CacheOK /\ RequestOK
    BY <1>2, Undoubted, RequestKeeps
  <2>2. CacheOK'
    BY <2>1, LeadsStays DEF CacheOK, Leads
  <2>3. request'.pc = "search" => Ahead(request.todo, request.dependency.name)'
    BY <1>2, <2>1, RequestKeeps DEF Ahead, InDatabase
  <2>4. RequestOK'
    BY <1>2, <2>1, <2>3 DEF RequestOK
  <2>5. QED
    BY <2>2, <2>4
<1>3. QED
  BY <1>1, <1>2 DEF Answers

LEMMA ResolveOK == ASSUME Inv, Answers, Resolve PROVE Answers'
<1>1. Request /\ request.pc # "none"
  BY DEF Request, Resolve
<1>2. db' = [db EXCEPT !.parsed[request.owner] = disk[request.owner]]
  BY DEF Resolve
<1>3. ASSUME ~ doubt'
      PROVE  /\ disk[request.owner] = db.parsed[request.owner] /\ request.owner \in Files
             /\ db.parsed[request.owner] # None /\ None \notin Files
  <2>1. /\ request.owner \in Files /\ db.parsed[request.owner] # None
        /\ db'.parsed = db.parsed
    BY <1>1, <1>3, Undoubted, AskedVersion DEF Answers
  <2>2. db'.parsed[request.owner] = disk[request.owner]
    BY <1>2, <2>1 DEF Inv, Typed, Database, Paths
  <2>3. QED
    BY <2>1, <2>2, WorkspaceAssumption DEF Paths
<1>4. CASE Defines(disk[request.owner], request.dependency.name)
  <2>1. Found(request.owner)
    BY <1>4 DEF Resolve
  <2>2. ~ doubt' => Leads(request.owner, request.dependency.name)
    BY <1>3, <1>4 DEF Leads
  <2>3. QED
    BY <1>1, <2>1, <2>2, FoundOK
<1>5. CASE ~ Defines(disk[request.owner], request.dependency.name)
  <2>1. request' = [request EXCEPT !.pc = "sequence"] /\ UNCHANGED resolved
    BY <1>5 DEF Resolve
  <2>2. /\ DOMAIN request' = DOMAIN NoRequest /\ request'.pc = "sequence"
        /\ request'.owner = request.owner /\ request'.dependency = request.dependency
    BY <2>1 DEF Answers, RequestTyped, NoRequest
  <2>3. ~ doubt' => ~ Defines(db.parsed[request.owner], request.dependency.name)
    BY <1>3, <1>5
  <2>4. QED
    BY <1>1, <2>1, <2>2, <2>3, LooksFurther
<1>6. QED
  BY <1>4, <1>5

LEMMA TakeSequenceOK == ASSUME Inv, Answers, TakeSequence PROVE Answers'
<1> DEFINE owners == Known(disk[request.owner], db.library[request.owner])
           looked == LookedAt(owners)
<1>1. Request /\ request.pc = "sequence"
  BY DEF Request, TakeSequence
<1>2. PICK todo \in Sequences(owners, looked.library) :
        request' = [request EXCEPT !.pc = "search", !.todo = todo]
  BY DEF TakeSequence
<1>3. /\ DOMAIN request' = DOMAIN NoRequest /\ request'.pc = "search" /\ request'.todo = todo
      /\ request'.owner = request.owner /\ request'.dependency = request.dependency
  BY <1>2 DEF Answers, RequestTyped, NoRequest
<1>4. UNCHANGED resolved
  BY DEF TakeSequence
<1>5. ASSUME ~ doubt' PROVE Ahead(todo, request.dependency.name)
  <2>1. /\ db'.parsed = db.parsed /\ RequestOK /\ lock = None
    BY <1>1, <1>3, <1>5, Undoubted
  <2>2. /\ request.owner \in Files /\ db.parsed[request.owner] \in Versions
        /\ request.dependency \in Needs[db.parsed[request.owner]]
        /\ ~ Defines(db.parsed[request.owner], request.dependency.name)
    BY <1>1, <2>1, AskedVersion DEF Answers, RequestOK
  <2>3. db' = [looked EXCEPT !.parsed[request.owner] = disk[request.owner]]
    BY DEF TakeSequence
  <2>4. Database(looked)
    BY LookingAtOwners DEF Inv, Looks
  <2>5. disk[request.owner] = db.parsed[request.owner]
    BY <2>1, <2>2, <2>3, <2>4 DEF Database, Paths
  <2>6. LookedUp(owners)
    <3>1. ASSUME NEW o \in owners PROVE disk[o.path] = db.parsed[o.path]
      <4>1. o.path \in Paths
        BY OwnersType
      <4>2. looked.parsed[o.path] = disk[o.path]
        BY <4>1 DEF LookedAt, Inv, Typed, Database
      <4>3. db'.parsed[o.path] = looked.parsed[o.path] \/ o.path = request.owner
        BY <2>3, <2>4 DEF Database
      <4>4. QED
        BY <2>1, <2>5, <4>2, <4>3
    <3>2. QED
      BY <3>1 DEF LookedUp
  <2>7. disk[request.owner] \in Versions /\ request.dependency \in Needs[disk[request.owner]]
        /\ ~ Defines(disk[request.owner], request.dependency.name)
    BY <2>2, <2>5
  <2> HIDE DEF looked
  <2>8. /\ todo \in Seq(Files \cup left)
        /\ \A k \in DOMAIN todo : db.parsed[todo[k]] \in Versions
        /\ (\E f \in Files : Defines(db.parsed[f], request.dependency.name)) =>
             \E k \in DOMAIN todo : Defines(db.parsed[todo[k]], request.dependency.name)
    BY <1>2, <2>1, <2>6, <2>7, SequenceFinds
  <2>9. None \notin Versions
    BY WorkspaceAssumption
  <2>10. QED
    BY <2>8, <2>9 DEF Ahead, InDatabase
<1>6. QED
  BY <1>1, <1>3, <1>4, <1>5, LooksFurther

LEMMA SearchOK == ASSUME Inv, Answers, Search PROVE Answers'
<1> DEFINE todo == request.todo
           path == Head(todo)
           name == request.dependency.name
<1>1. Request /\ request.pc = "search"
  BY DEF Request, Search
<1>2. CASE todo = <<>>
  <2>1. Found(None)
    BY <1>2 DEF Search
  <2>2. ASSUME ~ doubt' PROVE Leads(None, name)
    <3>1. Ahead(todo, name)
      BY <1>1, <2>2, Undoubted DEF RequestOK
    <3>2. QED
      BY <1>2, <3>1 DEF Ahead, Leads
  <2>3. QED
    BY <1>1, <2>1, <2>2, FoundOK
<1>3. CASE todo # <<>>
  <2>1. db' = [db EXCEPT !.parsed[path] = disk[path]]
    BY <1>3 DEF Search
  <2>2. ASSUME ~ doubt'
        PROVE  /\ Ahead(todo, name) /\ path \in Files \cup left
               /\ disk[path] = db.parsed[path]
    <3>1. db'.parsed = db.parsed /\ Ahead(todo, name)
      BY <1>1, <2>2, Undoubted DEF RequestOK
    <3>2. path \in Files \cup left
      BY <1>3, <3>1 DEF Ahead
    <3>3. path \in Paths
      BY <3>2 DEF Inv, Typed, Paths
    <3>4. db'.parsed[path] = disk[path]
      BY <2>1, <3>3 DEF Inv, Typed, Database
    <3>5. QED
      BY <3>1, <3>2, <3>4
  <2>3. CASE disk[path] # None /\ Defines(disk[path], name)
    <3>1. Found(path)
      BY <1>3, <2>3 DEF Search
    <3>2. None \notin Files \cup left
      BY WorkspaceAssumption DEF Inv, Typed, Paths
    <3>3. ~ doubt' => Leads(path, name)
      BY <2>2, <2>3, <3>2 DEF Leads
    <3>4. QED
      BY <1>1, <3>1, <3>3, FoundOK
  <2>4. CASE ~ (disk[path] # None /\ Defines(disk[path], name))
    <3>1. request' = [request EXCEPT !.todo = Tail(@)] /\ UNCHANGED resolved
      BY <1>3, <2>4 DEF Search
    <3>2. /\ DOMAIN request' = DOMAIN NoRequest /\ request'.pc = "search" /\ request'.todo = Tail(todo)
          /\ request'.owner = request.owner /\ request'.dependency = request.dependency
      BY <1>1, <3>1 DEF Answers, RequestTyped, NoRequest
    <3>3. ASSUME ~ doubt' PROVE Ahead(Tail(todo), name)
      <4>1. Ahead(todo, name) /\ ~ InDatabase(path, name)
        BY <2>2, <2>4, <3>3 DEF InDatabase
      <4>2. /\ todo \in Seq(Files \cup left) /\ path = todo[1]
            /\ (\E f \in Files : Defines(db.parsed[f], name)) =>
                 \E k \in DOMAIN todo : InDatabase(todo[k], name)
        BY <4>1 DEF Ahead
      <4>3. Tail(todo) \in Seq(Files \cup left)
        BY <1>3, <4>2
      <4>4. ASSUME NEW k \in DOMAIN todo, InDatabase(todo[k], name)
            PROVE  \E j \in DOMAIN Tail(todo) : InDatabase(Tail(todo)[j], name)
        <5>1. k # 1
          BY <4>1, <4>2, <4>4
        <5>2. k - 1 \in DOMAIN Tail(todo) /\ Tail(todo)[k - 1] = todo[k]
          BY <1>3, <4>2, <5>1
        <5>3. QED
          BY <4>4, <5>2
      <4>5. QED
        BY <4>2, <4>3, <4>4 DEF Ahead
    <3>4. QED
      BY <1>1, <3>1, <3>2, <3>3, LooksFurther
  <2>5. QED
    BY <2>3, <2>4
<1>4. QED
  BY <1>2, <1>3

LEMMA AnsweredOK == ASSUME Inv, Answers, AnswerDefinition \/ AnswerHover PROVE Answers'
<1>1. Request /\ request.pc # "none" /\ request' = NoRequest /\ UNCHANGED resolved
  BY DEF Request, AnswerDefinition, AnswerHover
<1>2. RequestTyped' /\ request'.pc = "none"
  BY <1>1 DEF RequestTyped, NoRequest
<1>3. ASSUME ~ doubt' PROVE CacheOK' /\ RequestOK'
  <2>1. db'.parsed = db.parsed /\ left \subseteq left' /\ CacheOK
    BY <1>1, <1>3, Undoubted, RequestKeeps
  <2>2. CacheOK'
    BY <1>1, <2>1, LeadsStays DEF CacheOK, Leads
  <2>3. QED
    BY <1>2, <2>2 DEF RequestOK
<1>4. QED
  BY <1>2, <1>3 DEF Answers

(* The end of a lint of a saved file looks up what the cache does not have. *)
LEMMA ResolvesOK ==
  ASSUME Inv, Answers, NEW t \in Threads, FinishSaved(t), Meanwhile PROVE Answers'
<1> DEFINE doc    == thread[t].doc
           owners == Known(disk[doc], db.library[doc])
           looked == LookedAt(owners)
<1>1. /\ lock = None /\ db' = [looked EXCEPT !.parsed[doc] = disk[doc]]
      /\ UNCHANGED <<left, request>> /\ Doubted
  BY DEF FinishSaved, Meanwhile
<1>2. PICK sequence \in Sequences(owners, looked.library) :
        resolved' = Resolutions(doc, disk[doc], sequence)
  BY DEF FinishSaved
<1>3. ~ LintBegins
  BY NoLintBegins DEF LintStep
<1>4. doc \in Files
  BY DEF FinishSaved, Inv, Typed, Local
<1>5. RequestTyped'
  BY <1>1 DEF Answers, RequestTyped
<1>6. ASSUME ~ doubt' PROVE CacheOK' /\ RequestOK'
  <2>1. CacheOK /\ RequestOK
    BY <1>1, <1>3, <1>6, NoDoubt DEF Answers
  <2>2. CASE resolved = {} /\ resolved' = {} /\ request.pc = "none"
    BY <1>1, <2>2 DEF CacheOK, RequestOK
  <2>3. CASE db'.parsed = db.parsed
    <3>1. Database(looked)
      BY LookingAtOwners DEF Inv, Looks
    <3>2. disk[doc] = db.parsed[doc]
      BY <1>1, <1>4, <2>3, <3>1 DEF Database, Paths
    <3>3. LookedUp(owners)
      <4>1. ASSUME NEW o \in owners PROVE disk[o.path] = db.parsed[o.path]
        <5>1. o.path \in Paths
          BY OwnersType
        <5>2. looked.parsed[o.path] = disk[o.path]
          BY <5>1 DEF LookedAt, Inv, Typed, Database
        <5>3. db'.parsed[o.path] = looked.parsed[o.path] \/ o.path = doc
          BY <1>1, <3>1 DEF Database
        <5>4. QED
          BY <2>3, <3>2, <5>2, <5>3
      <4>2. QED
        BY <4>1 DEF LookedUp
    <3> HIDE DEF looked, doc
    <3>4. \A d \in Needs[disk[doc]] : Leads(Resolved(doc, disk[doc], d, sequence), d.name)
      BY <1>1, <1>2, <1>4, <3>2, <3>3, ResolvedLeads
    <3>5. ASSUME NEW r \in resolved' PROVE Leads(r.target, r.dependency.name)
      <4>1. CASE r \in resolved
        BY <2>1, <4>1 DEF CacheOK
      <4>2. ASSUME NEW d \in Needs[disk[doc]],
                   r = [owner |-> doc, dependency |-> d, target |-> Resolved(doc, disk[doc], d, sequence)]
            PROVE  Leads(r.target, r.dependency.name)
        BY <3>4, <4>2
      <4>3. QED
        BY <1>2, <4>1, <4>2 DEF Resolutions
    <3>6. CacheOK'
      BY <1>1, <2>3, <3>5, LeadsStays DEF CacheOK, Leads
    <3>7. RequestOK'
      BY <1>1, <2>1, <2>3 DEF RequestOK, Ahead, Leads, InDatabase
    <3>8. QED
      BY <3>6, <3>7
  <2>4. QED
    BY <1>1, <1>3, <1>6, <2>2, <2>3, NoDoubt
<1>7. QED
  BY <1>5, <1>6 DEF Answers

LEMMA OtherLintSteps ==
  ASSUME NEW t \in Threads, LintStep(t)
  PROVE  left \subseteq left' /\ (FinishSaved(t) \/ UNCHANGED resolved)
<1>1. CASE \/ Start(t) \/ FindOwners(t) \/ FindSequence(t) \/ Enter(t)
           \/ BuildDependency(t) \/ BuildOwn(t)
  BY <1>1 DEF Start, FindOwners, FindSequence, Enter, BuildDependency, BuildOwn, OwnIsBuilt
<1>2. CASE DependencyIsGone(t) \/ CommandFails(t)
  BY <1>2 DEF DependencyIsGone, CommandFails, Die
<1>3. CASE FinishSaved(t)
  BY <1>3 DEF FinishSaved
<1>4. CASE FinishText(t)
  BY <1>4 DEF FinishText, FinishWith
<1>5. QED
  BY <1>1, <1>2, <1>3, <1>4 DEF LintStep

LEMMA AnswersStep == Inv /\ Answers /\ [NavigationNext]_all => Answers'
<1> SUFFICES ASSUME Inv, Answers, [NavigationNext]_all PROVE Answers'
  OBVIOUS
<1>1. CASE Request
  <2>1. ASSUME NEW doc \in Files, NEW at, AskAbout(doc, at) PROVE Answers'
    BY <1>1, <2>1, AskOK
  <2>2. QED
    BY <1>1, <2>1, RecallOK, ResolveOK, TakeSequenceOK, SearchOK, AnsweredOK DEF Request
<1>2. CASE Meanwhile
  <2>1. Doubted /\ UNCHANGED request
    BY <1>2 DEF Meanwhile
  <2>2. ASSUME NEW t \in Threads, LintStep(t) PROVE Answers'
    <3>1. CASE FinishSaved(t)
      BY <1>2, <3>1, ResolvesOK
    <3>2. CASE UNCHANGED resolved
      BY <2>1, <2>2, <3>2, OtherLintSteps, NoLintBegins, QuietOK
    <3>3. QED
      BY <2>2, <3>1, <3>2, OtherLintSteps
  <2>3. ASSUME NEW t \in Threads, NEW doc \in Files,
               LintSaved(t, doc) \/ \E n \in DOMAIN Texts[doc] : LintText(t, doc, n)
        PROVE  Answers'
    BY <2>1, <2>3, BeginningIs, BeginsOK
  <2>4. ASSUME NEW doc \in Files, NEW n \in DOMAIN Texts[doc], Save(doc, n) PROVE Answers'
    <3>1. DOMAIN thread = Threads /\ \A u \in Threads : DOMAIN thread[u] = DOMAIN Idle
      BY DEF Inv, Typed, Local
    <3>2. \A u \in Threads : thread'[u].pc = thread[u].pc
      BY <2>4, <3>1 DEF Save, Idle
    <3>3. ~ LintBegins
      BY <3>2 DEF LintBegins
    <3>4. UNCHANGED <<resolved, left>>
      BY <2>4 DEF Save
    <3>5. QED
      BY <2>1, <3>3, <3>4, QuietOK
  <2>5. CASE Request
    BY <1>1, <2>5
  <2>6. CASE UNCHANGED all
    BY <2>6 DEF all, vars, shared, navigation, Answers, RequestTyped, CacheOK, RequestOK, Ahead, Leads,
            InDatabase
  <2>7. QED
    BY <2>2, <2>3, <2>4, <2>5, <2>6, Steps
<1>3. CASE UNCHANGED all
  BY <1>3 DEF all, vars, shared, navigation, Answers, RequestTyped, CacheOK, RequestOK, Ahead, Leads,
          InDatabase
<1>4. QED
  BY <1>1, <1>2, <1>3, Beside

LEMMA InitAnswers == NavigationInit => Answers
BY DEF NavigationInit, Init, Answers, RequestTyped, CacheOK, RequestOK, NoRequest

(* Each unit has a place. *)
LEMMA UnitsAreSomewhere ==
  ASSUME NEW v \in Versions, NEW unit \in Units[v] PROVE unit.locations # {}
BY DEF Units, UnitsOf

LEMMA AnswerIsRight ==
  ASSUME Inv, Answers, [NavigationNext]_all, request.pc = "answer", request'.pc = "none", ~ doubt'
  PROVE  /\ answer' = {} => \A f \in Files : ~ Defines(db'.parsed[f], request.dependency.name)
         /\ {location.path : location \in answer'} \subseteq Files \cup left
<1> DEFINE target == request.target
           name   == request.dependency.name
<1>1. AnswerDefinition \/ AnswerHover
  <2>1. request' # request
    OBVIOUS
  <2>2. Request
    BY <2>1, Beside DEF Meanwhile, all, navigation
  <2>3. ~ \E doc, at : AskAbout(doc, at)
    BY DEF AskAbout
  <2>4. QED
    BY <2>2, <2>3 DEF Request, Recall, Resolve, TakeSequence, Search
<1>2. Request
  BY <1>1 DEF Request
<1>3. db'.parsed = db.parsed /\ Leads(target, name)
  BY <1>2, Undoubted DEF RequestOK
<1>4. CASE target = None
  <2>1. answer' = {}
    BY <1>1, <1>4 DEF AnswerDefinition, AnswerHover
  <2>2. QED
    BY <1>3, <1>4, <2>1 DEF Leads
<1>5. CASE target # None
  <2>1. /\ target \in Files \cup left /\ db.parsed[target] \in Versions
        /\ db.parsed[target] # None /\ Defines(db.parsed[target], name)
    BY <1>3, <1>5 DEF Leads, Inv, Typed, Database, Paths
  <2>2. CASE AnswerDefinition
    <3>1. answer' = DefinedIn(target, name) /\ db' = [db EXCEPT !.parsed[target] = disk[target]]
      BY <1>5, <2>2 DEF AnswerDefinition
    <3>2. disk[target] = db.parsed[target]
      BY <1>3, <2>1, <3>1 DEF Inv, Typed, Database, Paths
    <3> DEFINE here   == {unit \in Units[disk[target]] : SameName(unit.name, name)}
               places == UNION {unit.locations : unit \in here}
    <3>3. answer' = {[path |-> target, at |-> at] : at \in places}
      BY <2>1, <3>1, <3>2 DEF DefinedIn
    <3>4. PICK unit \in here : TRUE
      BY <2>1, <3>2 DEF Defines
    <3>5. unit.locations # {}
      BY <2>1, <3>2, <3>4, UnitsAreSomewhere
    <3>6. PICK at \in places : TRUE
      BY <3>4, <3>5
    <3> HIDE DEF places, target
    <3>7. [path |-> target, at |-> at] \in answer'
      BY <3>3, <3>6
    <3>8. \A location \in answer' : location.path = target
      BY <3>3
    <3>9. QED
      BY <2>1, <3>7, <3>8
  <2>3. CASE AnswerHover
    <3>1. answer' = {[path |-> path, at |-> None] : path \in {target} \ {None}}
      BY <2>3 DEF AnswerHover
    <3>2. [path |-> target, at |-> None] \in answer'
      BY <1>5, <3>1
    <3>3. \A location \in answer' : location.path = target
      BY <3>1
    <3>4. QED
      BY <2>1, <3>2, <3>3
  <2>4. QED
    BY <1>1, <2>2, <2>3
<1>6. QED
  BY <1>4, <1>5

(* An editor that asks where a name is defined is told of a file of the    *)
(* project, or of one that a dead lint left, and is told of none only when *)
(* the database has no file that defines it: while no lint began or        *)
(* changed text was parsed in between (core.py:589-613, lsp.py:476-525).   *)
THEOREM DefinitionsFound == NavigationSpec => DefinitionsAreFound
<1>1. Inv /\ Answers /\ [NavigationNext]_all =>
        [request.pc = "answer" /\ request'.pc = "none" /\ ~ doubt' =>
           /\ answer' = {} =>
                 \A f \in Files : ~ Defines(db'.parsed[f], request.dependency.name)
           /\ {location.path : location \in answer'} \subseteq Files \cup left]_all
  BY AnswerIsRight
<1>2. QED
  BY <1>1, AnswersStep, InitAnswers, Invariant, PTL DEF NavigationSpec, DefinitionsAreFound
=============================================================================
