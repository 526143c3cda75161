------------------------- MODULE CheckerCoreProofs -------------------------
(***************************************************************************)
(* Proofs about CheckerCore, for any number of threads, configuration      *)
(* files, writes, removals of the folder and crashes.                      *)
(***************************************************************************)
EXTENDS CheckerCore, TLAPS

LEMMA StartTypes ==
  /\ NoState \in States /\ AtRest \in Locals
  /\ NoCache \in [kind : {"none", "torn", "saved"}, state : States]
  /\ Torn \in [kind : {"none", "torn", "saved"}, state : States]
<1>1. 0 \in 0 .. MaxWrites + 1 /\ None \in Configs \cup {None}
  BY BoundsAssumption
<1>2. NoState \in States
  BY <1>1 DEF NoState, States, NoConfig, WatchedFile, Fallback
<1>3. AtRest.config \in Contents \cup {AtRest.config}
  OBVIOUS
<1>4. AtRest \in Locals
  <2>1. AtRest.pc = "idle" /\ AtRest.after = "idle" /\ AtRest.text = FALSE /\ AtRest.seen = 0
        /\ AtRest.state = NoState
    BY DEF AtRest
  <2>2. QED
    BY <1>1, <1>2 DEF AtRest, Locals, Places, Rest
<1>5. QED
  BY <1>2, <1>4 DEF NoCache, Torn

(* A step of t that leaves an update under its lock. *)
LEMMA ThreadTyped ==
  ASSUME TypeOK, NEW t \in Threads, NEW local \in Locals, Set(t, local),
         owner' \in Threads \cup {None},
         local.pc \in Updating => owner' = t,
         owner' = owner \/ owner \in {t, None}
  PROVE  /\ thread' \in [Threads -> Locals] /\ thread'[t] = local
         /\ \A u \in Threads \ {t} : thread'[u] = thread[u]
         /\ \A u \in Threads : thread'[u].pc \in Updating => owner' = u
<1>1. thread \in [Threads -> Locals] /\ \A u \in Threads : thread[u].pc \in Updating => owner = u
  BY DEF TypeOK
<1>2. thread' \in [Threads -> Locals] /\ thread'[t] = local
      /\ \A u \in Threads \ {t} : thread'[u] = thread[u]
  BY <1>1 DEF Set
<1>3. \A u \in Threads : thread'[u].pc \in Updating => owner' = u
  BY <1>1, <1>2, NoneAssumption
<1>4. QED
  BY <1>2, <1>3

LEMMA Ends ==
  ASSUME TypeOK, NEW t \in Threads, End(t)
  PROVE  /\ thread' \in [Threads -> Locals] /\ thread'[t] = AtRest
         /\ \A u \in Threads \ {t} : thread'[u] = thread[u]
         /\ \A u \in Threads : thread'[u].pc \in Updating => owner' = u
         /\ owner' \in Threads \cup {None}
<1>1. AtRest.pc \notin Updating
  BY DEF AtRest, Updating
<1>2. owner \in Threads \cup {None}
  BY DEF TypeOK
<1>3. owner' \in Threads \cup {None} /\ (owner' = owner \/ owner \in {t, None})
  BY <1>2 DEF End
<1>4. QED
  BY <1>1, <1>3, StartTypes, ThreadTyped DEF End

LEMMA Returns ==
  ASSUME TypeOK, NEW t \in Threads, Return(t), owner \in {None, t}
  PROVE  /\ thread' \in [Threads -> Locals]
         /\ thread'[t].pc = thread[t].after
         /\ thread'[t].after = "idle"
         /\ thread'[t] = AtRest \/ thread'[t].state = thread[t].state
         /\ \A u \in Threads \ {t} : thread'[u] = thread[u]
         /\ \A u \in Threads : thread'[u].pc \in Updating => owner' = u
         /\ owner' \in Threads \cup {None}
<1>0. thread[t] \in Locals
  BY DEF TypeOK
<1>1. CASE thread[t].after = "idle"
  <2>1. End(t) /\ AtRest.pc = "idle" /\ AtRest.after = "idle"
    BY <1>1 DEF Return, AtRest
  <2>2. QED
    BY <1>1, <2>1, Ends
<1>2. CASE thread[t].after # "idle"
  <2> DEFINE local == [AtRest EXCEPT !.pc = thread[t].after, !.text = thread[t].text,
                                     !.state = thread[t].state]
  <2>1. local \in Locals /\ local.pc = thread[t].after /\ local.after = "idle"
        /\ local.state = thread[t].state /\ local.pc \notin Updating
    <3>1. AtRest \in Locals /\ AtRest.after = "idle"
      BY StartTypes DEF AtRest
    <3>2. QED
      BY <1>0, <3>1 DEF Locals, Rest, Places, Updating
  <2>2. Set(t, local) /\ owner' \in Threads \cup {None}
    BY <1>2 DEF Return
  <2> HIDE DEF local
  <2>3. QED
    BY <2>1, <2>2, ThreadTyped
<1>3. QED
  BY <1>1, <1>2

LEMMA TypedIf ==
  ASSUME TypeOK, UNCHANGED <<disk, process, removals, unnoticed>>,
         {folder', libs'} \subseteq BOOLEAN,
         cache' \in [kind : {"none", "torn", "saved"}, state : States],
         [config_file |-> config_file, database |-> database, builder |-> builder]' \in States,
         owner' \in Threads \cup {None}, thread' \in [Threads -> Locals],
         \A t \in Threads : thread'[t].pc \in Updating => owner' = t
  PROVE  TypeOK'
BY DEF TypeOK, disk, process

(* The parts of a core. *)
LEMMA CoreTypes ==
  ASSUME TypeOK
  PROVE  /\ config_file \in [path : Configs \cup {None}, last_read : 0 .. MaxWrites + 1]
         /\ database \subseteq Sources /\ builder \in [real : BOOLEAN, added : BOOLEAN]
         /\ last_read \in 0 .. MaxWrites + 1
<1>1. 0 \in 0 .. MaxWrites + 1
  BY BoundsAssumption
<1>2. [config_file |-> config_file, database |-> database, builder |-> builder] \in States
  BY DEF TypeOK
<1>3. QED
  BY <1>1, <1>2 DEF States, last_read

(* No request runs while the process is down, and an update reads the      *)
(* file that is watched.                                                   *)
Watches ==
  \A t \in Threads :
    /\ ~ up => thread[t].pc = "idle"
    /\ thread[t].pc \in Updating => config_file.path # None

Typed == TypeOK /\ Watches

LEMMA TypedRequest ==
  ASSUME Typed, NEW t \in Threads, Request(t)
  PROVE  TypeOK'
<1> DEFINE local == thread[t]
<1> DEFINE State == [config_file |-> config_file, database |-> database, builder |-> builder]
<1>0. /\ State \in States /\ owner \in Threads \cup {None} /\ thread[t] \in Locals
      /\ config_file \in [path : Configs \cup {None}, last_read : 0 .. MaxWrites + 1]
      /\ database \subseteq Sources /\ builder \in [real : BOOLEAN, added : BOOLEAN]
      /\ last_read \in 0 .. MaxWrites + 1
      /\ thread[t].pc \in Updating => owner = t
      /\ mtime \in [Configs -> 0 .. MaxWrites + 1] /\ content \in [Configs -> Contents]
      /\ cache \in [kind : {"none", "torn", "saved"}, state : States]
      /\ {folder, libs} \subseteq BOOLEAN /\ TypeOK
      /\ thread[t].pc \in Updating => config_file.path # None
  BY CoreTypes DEF TypeOK, Typed, Watches
<1>a. ASSUME NEW place \in Places, Go(t, place), place \in Updating => thread[t].pc \in Updating
      PROVE  /\ thread' \in [Threads -> Locals] /\ owner' \in Threads \cup {None}
             /\ \A u \in Threads : thread'[u].pc \in Updating => owner' = u
  <2> DEFINE new == [thread[t] EXCEPT !.pc = place]
  <2>1. new \in Locals /\ new.pc = place
    BY <1>0 DEF Locals
  <2>2. Set(t, new) /\ UNCHANGED owner
    BY <1>a DEF Go
  <2> HIDE DEF new
  <2>3. QED
    BY <1>0, <1>a, <2>1, <2>2, ThreadTyped
<1>b. ASSUME NEW new \in Locals, Set(t, new), UNCHANGED owner, new.pc \in Updating => thread[t].pc \in Updating
      PROVE  /\ thread' \in [Threads -> Locals] /\ owner' \in Threads \cup {None}
             /\ \A u \in Threads : thread'[u].pc \in Updating => owner' = u
  BY <1>0, <1>b, ThreadTyped
<1>1. CASE Check(t)
  <2>1. /\ owner \in {None, t} /\ UNCHANGED <<disk, process, libs, cache, removals, unnoticed>>
        /\ folder' = TRUE
        /\ config_file' = WatchedFile(config_file.path, last_read)
    BY <1>1 DEF Check, Setup
  <2>2. database' \subseteq Sources /\ builder' \in [real : BOOLEAN, added : BOOLEAN]
    <3>1. Setup
      BY <1>1 DEF Check
    <3>2. database' \in {{}, database} /\ builder' \in {Fallback, builder}
      BY <3>1 DEF Setup
    <3>3. Fallback \in [real : BOOLEAN, added : BOOLEAN]
      BY DEF Fallback
    <3>4. QED
      BY <1>0, <3>2, <3>3
  <2>3. State' \in States
    BY <1>0, <2>1, <2>2 DEF States, WatchedFile
  <2>4. /\ thread' \in [Threads -> Locals] /\ owner' \in Threads \cup {None}
        /\ \A u \in Threads : thread'[u].pc \in Updating => owner' = u
    <3>1. CASE End(t)
      BY <1>0, <3>1, Ends
    <3>2. CASE Return(t)
      BY <1>0, <2>1, <3>2, Returns
    <3>3. ASSUME config_file.path # None, owner' = t,
                 Set(t, [thread[t] EXCEPT !.pc = "parse", !.seen = mtime[config_file.path]])
          PROVE  /\ thread' \in [Threads -> Locals] /\ owner' \in Threads \cup {None}
                 /\ \A u \in Threads : thread'[u].pc \in Updating => owner' = u
      <4> DEFINE new == [thread[t] EXCEPT !.pc = "parse", !.seen = mtime[config_file.path]]
      <4>1. mtime[config_file.path] \in 0 .. MaxWrites + 1
        BY <1>0, <3>3
      <4>2. new \in Locals /\ new.pc = "parse"
        BY <1>0, <4>1 DEF Locals, Places, Updating
      <4>3. Set(t, new)
        BY <3>3
      <4> HIDE DEF new
      <4>4. QED
        BY <1>0, <2>1, <3>3, <4>2, <4>3, ThreadTyped
    <3>4. QED
      BY <1>1, <3>1, <3>2, <3>3 DEF Check
  <2>5. QED
    BY <1>0, <2>1, <2>3, <2>4, TypedIf
<1>2. CASE Parse(t)
  <2> DEFINE p == config_file.path
  <2>1. UNCHANGED <<disk, process, folder, libs, cache, removals, unnoticed, config_file, database, builder>>
        /\ thread[t].pc = "parse"
    BY <1>2 DEF Parse, At, work_dir, core
  <2>2. /\ thread' \in [Threads -> Locals] /\ owner' \in Threads \cup {None}
        /\ \A u \in Threads : thread'[u].pc \in Updating => owner' = u
    <3>1. CASE End(t)
      BY <1>0, <3>1, Ends
    <3>2. ASSUME Set(t, [thread[t] EXCEPT !.pc = "configure", !.config = content[p]]), UNCHANGED owner
          PROVE  /\ thread' \in [Threads -> Locals] /\ owner' \in Threads \cup {None}
                 /\ \A u \in Threads : thread'[u].pc \in Updating => owner' = u
      <4> DEFINE new == [thread[t] EXCEPT !.pc = "configure", !.config = content[p]]
      <4>1. p \in Configs
        BY <1>0, <2>1 DEF Updating
      <4>2. content[p] \in Contents
        BY <1>0, <4>1
      <4>3. new \in Locals
        BY <1>0, <4>2 DEF Locals, Places, Updating
      <4>4. Set(t, new)
        BY <3>2
      <4> HIDE DEF new
      <4>5. QED
        BY <1>b, <2>1, <3>2, <4>3, <4>4 DEF Updating
    <3>3. QED
      BY <1>2, <3>1, <3>2 DEF Parse
  <2>3. QED
    BY <1>0, <2>1, <2>2, TypedIf
<1>3. CASE Configure(t)
  <2>1. UNCHANGED <<disk, process, folder, libs, cache, removals, unnoticed, config_file>>
        /\ thread[t].pc = "configure" /\ builder' = [real |-> TRUE, added |-> FALSE]
    BY <1>3 DEF Configure, At, work_dir
  <2>2. thread[t].config.sources \subseteq Sources
    BY <1>0 DEF Locals, Sources, AtRest
  <2>3. database' \subseteq Sources
    BY <1>0, <1>3, <2>2 DEF Configure
  <2>4. State' \in States
    BY <1>0, <2>1, <2>3 DEF States
  <2>5. Go(t, "mark") \/ End(t)
    BY <1>3 DEF Configure
  <2>6. /\ thread' \in [Threads -> Locals] /\ owner' \in Threads \cup {None}
        /\ \A u \in Threads : thread'[u].pc \in Updating => owner' = u
    BY <1>0, <1>a, <2>1, <2>5, Ends DEF Updating, Places
  <2>7. QED
    BY <1>0, <2>1, <2>4, <2>6, TypedIf
<1>4. CASE Mark(t)
  <2>1. UNCHANGED <<disk, process, folder, libs, cache, removals, unnoticed, database, builder>>
        /\ thread[t].pc = "mark" /\ Return(t)
        /\ config_file' = WatchedFile(config_file.path, thread[t].seen)
    BY <1>4 DEF Mark, At, work_dir
  <2>2. State' \in States
    BY <1>0, <2>1 DEF States, WatchedFile, Locals
  <2>3. owner = t
    BY <1>0, <2>1 DEF Updating
  <2>4. QED
    BY <1>0, <2>1, <2>2, <2>3, Returns, TypedIf
<1>5. CASE Build(t)
  <2>1. UNCHANGED <<disk, process, cache, removals, unnoticed, config_file, database>>
        /\ (Go(t, "built") \/ End(t))
    BY <1>5 DEF Build
  <2>2. builder' \in [real : BOOLEAN, added : BOOLEAN] /\ {folder', libs'} \subseteq BOOLEAN
    BY <1>0, <1>5 DEF Build
  <2>3. State' \in States
    BY <1>0, <2>1, <2>2 DEF States
  <2>4. /\ thread' \in [Threads -> Locals] /\ owner' \in Threads \cup {None}
        /\ \A u \in Threads : thread'[u].pc \in Updating => owner' = u
    BY <1>0, <1>a, <2>1, Ends DEF Updating, Places
  <2>5. QED
    BY <1>0, <2>1, <2>2, <2>3, <2>4, TypedIf
<1>6. CASE Save(t)
  <2> DEFINE new == Access(thread[t], "take")
  <2>1. new \in Locals /\ new.pc = "update"
    BY <1>0 DEF Access, Locals, Places, Rest
  <2>2. Set(t, new) /\ UNCHANGED <<disk, work_dir, process, core, owner>>
    BY <1>6 DEF Save
  <2> HIDE DEF new
  <2>3. QED
    BY <1>0, <1>b, <2>1, <2>2, TypedIf DEF Updating, work_dir, core
<1>7. CASE Take(t)
  <2> DEFINE taken == [config_file |-> config_file, database |-> {}, builder |-> builder]
  <2> DEFINE new == Access([thread[t] EXCEPT !.state = taken], "open")
  <2>0. taken \in States
    BY <1>0 DEF States
  <2>1. new \in Locals /\ new.pc = "update"
    BY <1>0, <2>0 DEF Access, Locals, Places, Rest
  <2>2. Set(t, new) /\ UNCHANGED <<disk, work_dir, process, core, owner>>
    BY <1>7 DEF Take
  <2> HIDE DEF new
  <2>3. QED
    BY <1>0, <1>b, <2>1, <2>2, TypedIf DEF Updating, work_dir, core
<1>8. CASE Open(t)
  <2> DEFINE state == [thread[t].state EXCEPT !.database = database]
  <2> DEFINE new == [thread[t] EXCEPT !.pc = "dump", !.state = state]
  <2>0. state \in States
    BY <1>0 DEF States, Locals
  <2> HIDE DEF state
  <2>1. new \in Locals /\ new.pc = "dump"
    BY <1>0, <2>0 DEF Locals, Places
  <2>2. Set(t, new) /\ UNCHANGED <<disk, libs, removals, unnoticed, process, core, owner>>
        /\ folder' = TRUE /\ cache' = Torn
    BY <1>8 DEF Open, Set, state
  <2> HIDE DEF new
  <2>3. QED
    BY <1>0, <1>b, <2>1, <2>2, StartTypes, TypedIf DEF Updating, core
<1>9. CASE Dump(t)
  <2>1. cache' \in {cache, Torn, Saved(thread[t].state)} /\ End(t)
        /\ UNCHANGED <<disk, folder, libs, removals, unnoticed, process, core>>
    BY <1>9 DEF Dump
  <2>2. Saved(thread[t].state) \in [kind : {"none", "torn", "saved"}, state : States]
    BY <1>0 DEF Saved, Locals
  <2>3. QED
    BY <1>0, <2>1, <2>2, StartTypes, Ends, TypedIf DEF core
<1>10. QED
  BY <1>1, <1>2, <1>3, <1>4, <1>5, <1>6, <1>7, <1>8, <1>9 DEF Request

(* The steps that start a request. *)
LEMMA TypedStart ==
  ASSUME TypeOK, NEW t \in Threads,
         \/ \E with_text \in BOOLEAN : Lint(t, with_text)
         \/ \E p \in Configs : SetConfig(t, p)
  PROVE  TypeOK'
<1>1. PICK text \in BOOLEAN, after \in {"build", "idle"} :
        Set(t, Access([AtRest EXCEPT !.text = text], after))
  <2>1. ASSUME NEW with_text \in BOOLEAN, Lint(t, with_text)
        PROVE  Set(t, Access([AtRest EXCEPT !.text = with_text], "build"))
    BY <2>1 DEF Lint
  <2>2. ASSUME NEW p \in Configs, SetConfig(t, p)
        PROVE  Set(t, Access([AtRest EXCEPT !.text = FALSE], "idle"))
    <3>1. [AtRest EXCEPT !.text = FALSE] = AtRest
      <4>1. AtRest \in Locals /\ AtRest.text = FALSE
        BY StartTypes DEF AtRest
      <4>2. QED
        BY <4>1 DEF Locals
    <3>2. QED
      BY <2>2, <3>1 DEF SetConfig
  <2>3. QED
    BY <2>1, <2>2
<1> DEFINE new == Access([AtRest EXCEPT !.text = text], after)
<1>2. new \in Locals /\ new.pc = "update"
  BY StartTypes DEF Locals, Access, Places, Rest
<1>3. /\ owner' \in Threads \cup {None} /\ (owner' = owner \/ owner \in {t, None})
      /\ {shared', configured'} \subseteq BOOLEAN
      /\ UNCHANGED <<disk, work_dir, up, crashes, database, builder>>
  BY DEF Lint, SetConfig, TypeOK, core
<1>4. Set(t, new)
  BY <1>1
<1> HIDE DEF new
<1>5. /\ thread' \in [Threads -> Locals]
      /\ \A u \in Threads : thread'[u].pc \in Updating => owner' = u
  BY <1>2, <1>3, <1>4, ThreadTyped DEF Updating
<1>6. [config_file |-> config_file, database |-> database, builder |-> builder]' \in States
  <2>1. config_file' = config_file \/ \E p \in Configs : config_file' = WatchedFile(p, 0)
    BY DEF Lint, SetConfig, core
  <2>2. 0 \in 0 .. MaxWrites + 1
    BY BoundsAssumption
  <2>3. QED
    BY <1>3, <2>1, <2>2, CoreTypes DEF States, WatchedFile
<1>7. QED
  BY <1>3, <1>5, <1>6 DEF TypeOK, disk, work_dir

LEMMA TypedStep ==
  ASSUME Typed, [Next]_vars
  PROVE  TypeOK'
<1> DEFINE State == [config_file |-> config_file, database |-> database, builder |-> builder]
<1>0. /\ State \in States /\ owner \in Threads \cup {None} /\ thread \in [Threads -> Locals]
      /\ config_file \in [path : Configs \cup {None}, last_read : 0 .. MaxWrites + 1]
      /\ database \subseteq Sources /\ builder \in [real : BOOLEAN, added : BOOLEAN]
      /\ \A t \in Threads : thread[t].pc \in Updating => owner = t
      /\ TypeOK
  BY DEF TypeOK, States, Typed
<1>1. ASSUME NEW p \in Configs, Write(p) PROVE TypeOK'
  <2>1. clock' \in 1 .. MaxWrites + 1 /\ clock' \in 0 .. MaxWrites + 1 /\ 0 \in 0 .. MaxWrites + 1
    BY <1>0, <1>1, BoundsAssumption DEF Write, TypeOK
  <2>2. /\ mtime' \in [Configs -> 0 .. MaxWrites + 1] /\ content' \in [Configs -> Contents]
    BY <1>0, <1>1, <2>1 DEF Write, TypeOK
  <2>3. QED
    BY <1>0, <1>1, <2>1, <2>2 DEF Write, TypeOK, work_dir, process, core
<1>2. CASE Remove
  <2>1. removals' \in 0 .. MaxRemovals
    BY <1>0, <1>2, BoundsAssumption DEF Remove, TypeOK
  <2>2. ASSUME NEW t \in Threads
        PROVE  thread'[t] \in Locals /\ (thread'[t].pc \in Updating => owner = t)
    BY <1>0, <1>2 DEF Remove, Locals, Places, Updating
  <2>3. thread' \in [Threads -> Locals]
    BY <1>2, <2>2 DEF Remove
  <2>4. {folder', libs', up', shared', configured', unnoticed'} \subseteq BOOLEAN
    BY <1>0, <1>2 DEF Remove, TypeOK, process
  <2>5. QED
    BY <1>0, <1>2, <2>1, <2>2, <2>3, <2>4, StartTypes DEF Remove, TypeOK, disk, process, core
<1>3. CASE Crash
  <2>1. crashes' \in 0 .. MaxCrashes
    BY <1>0, <1>3, BoundsAssumption DEF Crash, TypeOK
  <2>2. State' = NoState
    BY <1>3 DEF Crash, NoState
  <2>3. AtRest.pc \notin Updating
    BY DEF AtRest, Updating
  <2>4. QED
    BY <1>0, <1>3, <2>1, <2>2, <2>3, StartTypes DEF Crash, TypeOK, disk, work_dir
<1>4. CASE Start
  <2>1. State' \in States
    <3>1. cache.state \in States
      BY <1>0 DEF TypeOK
    <3>2. PICK s \in {NoState, cache.state} :
            config_file' = s.config_file /\ database' = s.database /\ builder' = s.builder
      BY <1>4 DEF Start
    <3>3. s \in States
      BY <3>1, <3>2, StartTypes
    <3>4. QED
      BY <3>2, <3>3 DEF States
  <2>2. QED
    BY <1>0, <1>4, <2>1 DEF Start, TypeOK, disk
<1>5. ASSUME NEW t \in Threads, NEW with_text \in BOOLEAN, Lint(t, with_text) PROVE TypeOK'
  BY <1>0, <1>5, TypedStart
<1>6. ASSUME NEW t \in Threads, NEW p \in Configs, SetConfig(t, p) PROVE TypeOK'
  BY <1>0, <1>6, TypedStart
<1>7. ASSUME NEW t \in Threads, Request(t) PROVE TypeOK'
  BY <1>7, TypedRequest
<1>8. CASE UNCHANGED vars
  BY <1>0, <1>8 DEF TypeOK, vars, disk, work_dir, process, core
<1>9. QED
  BY <1>1, <1>2, <1>3, <1>4, <1>5, <1>6, <1>7, <1>8 DEF Next, Lints, Requests

(* What a step of a request makes of its thread. *)
Moved(t) ==
  LET old == thread[t]  new == thread'[t]  p == config_file.path IN
  \/ new = AtRest
  \/ /\ Check(t) \/ Mark(t)
     /\ new.pc = old.after /\ new.after = "idle" /\ new.seen = 0 /\ new.state = old.state
  \/ /\ Check(t) /\ p # None /\ ~ (last_read >= mtime[p])
     /\ new.pc = "parse" /\ new.seen = mtime[p]
     /\ new.after = old.after /\ new.state = old.state
  \/ /\ Parse(t) /\ new.pc = "configure" /\ new.config = content[p]
     /\ new.after = old.after /\ new.seen = old.seen /\ new.state = old.state
  \/ /\ Configure(t) /\ new.pc = "mark"
     /\ old.config.fails = "no" /\ database' = database \cup old.config.sources
     /\ new.after = old.after /\ new.seen = old.seen /\ new.state = old.state
  \/ /\ Build(t) /\ new.pc = "built"
     /\ new.after = old.after /\ new.seen = old.seen /\ new.state = old.state
  \/ /\ Save(t) /\ new.pc = "update" /\ new.after = "take"
     /\ new.seen = old.seen /\ new.state = old.state
  \/ /\ Take(t) /\ new.pc = "update" /\ new.after = "open"
     /\ new.seen = old.seen
     /\ new.state = [config_file |-> config_file, database |-> {}, builder |-> builder]
  \/ /\ Open(t) /\ new.pc = "dump" /\ new.after = old.after /\ new.seen = old.seen
     /\ new.state.config_file = old.state.config_file /\ new.state.builder = old.state.builder
     /\ new.state.database = database

LEMMA EndMoves ==
  ASSUME TypeOK, NEW t \in Threads, End(t)
  PROVE  thread'[t] = AtRest /\ \A u \in Threads \ {t} : thread'[u] = thread[u]
<1>1. thread \in [Threads -> Locals]
  BY DEF TypeOK
<1>2. QED
  BY <1>1 DEF End, Set

LEMMA ReturnMoves ==
  ASSUME TypeOK, NEW t \in Threads, Return(t)
  PROVE  /\ \/ thread'[t] = AtRest
            \/ /\ thread'[t].pc = thread[t].after /\ thread'[t].after = "idle"
               /\ thread'[t].seen = 0 /\ thread'[t].state = thread[t].state
         /\ \A u \in Threads \ {t} : thread'[u] = thread[u]
<1>1. thread \in [Threads -> Locals]
  BY DEF TypeOK
<1>2. CASE thread[t].after = "idle"
  BY <1>2, EndMoves DEF Return
<1>3. CASE thread[t].after # "idle"
  <2> DEFINE local == [AtRest EXCEPT !.pc = thread[t].after, !.text = thread[t].text,
                                     !.state = thread[t].state]
  <2>1. AtRest \in Locals /\ AtRest.after = "idle" /\ AtRest.seen = 0
    BY StartTypes DEF AtRest
  <2>2. local.pc = thread[t].after /\ local.state = thread[t].state /\ local.after = "idle"
        /\ local.seen = 0
    BY <2>1 DEF Locals
  <2>3. Set(t, local)
    BY <1>3 DEF Return
  <2> HIDE DEF local
  <2>4. thread'[t] = local /\ \A u \in Threads \ {t} : thread'[u] = thread[u]
    BY <1>1, <2>3 DEF Set
  <2>5. QED
    BY <2>2, <2>4
<1>4. QED
  BY <1>2, <1>3

LEMMA RequestMoves ==
  ASSUME TypeOK, NEW t \in Threads, Request(t)
  PROVE  Moved(t) /\ \A u \in Threads \ {t} : thread'[u] = thread[u]
<1> DEFINE Others == \A u \in Threads \ {t} : thread'[u] = thread[u]
<1>0. thread \in [Threads -> Locals] /\ thread[t] \in Locals
  BY DEF TypeOK
<1>1. ASSUME End(t) PROVE Moved(t) /\ Others
  BY <1>1, EndMoves DEF Moved
<1>2. CASE Check(t)
  <2>1. CASE Return(t)
    BY <1>2, <2>1, ReturnMoves DEF Moved
  <2>2. CASE ~ End(t) /\ ~ Return(t)
    <3>1. /\ Set(t, [thread[t] EXCEPT !.pc = "parse", !.seen = mtime[config_file.path]])
          /\ config_file.path # None /\ ~ (last_read >= mtime[config_file.path])
      BY <1>2, <2>2 DEF Check
    <3>2. /\ thread'[t].pc = "parse" /\ thread'[t].seen = mtime[config_file.path] /\ Others
          /\ thread'[t].after = thread[t].after /\ thread'[t].state = thread[t].state
      BY <1>0, <3>1 DEF Set, Locals
    <3>3. QED
      BY <1>2, <3>1, <3>2 DEF Moved
  <2>3. QED
    BY <1>1, <2>1, <2>2
<1>3. CASE Parse(t)
  <2>1. CASE ~ End(t)
    <3>1. Set(t, [thread[t] EXCEPT !.pc = "configure", !.config = content[config_file.path]])
      BY <1>3, <2>1 DEF Parse
    <3>2. /\ thread'[t].pc = "configure" /\ thread'[t].config = content[config_file.path] /\ Others
          /\ thread'[t].after = thread[t].after /\ thread'[t].seen = thread[t].seen
          /\ thread'[t].state = thread[t].state
      BY <1>0, <3>1 DEF Set, Locals
    <3>3. QED
      BY <1>3, <3>2 DEF Moved
  <2>2. QED
    BY <1>1, <2>1
<1>4. CASE Configure(t)
  <2>1. CASE ~ End(t)
    <3>1. /\ Set(t, [thread[t] EXCEPT !.pc = "mark"])
          /\ thread[t].config.fails = "no" /\ database' = database \cup thread[t].config.sources
      BY <1>4, <2>1 DEF Configure, Go
    <3>2. /\ thread'[t].pc = "mark" /\ Others
          /\ thread'[t].after = thread[t].after /\ thread'[t].seen = thread[t].seen
          /\ thread'[t].state = thread[t].state
      BY <1>0, <3>1 DEF Set, Locals
    <3>3. QED
      BY <1>4, <3>1, <3>2 DEF Moved
  <2>2. QED
    BY <1>1, <2>1
<1>5. CASE Mark(t)
  <2>1. Return(t)
    BY <1>5 DEF Mark
  <2>2. QED
    BY <1>5, <2>1, ReturnMoves DEF Moved
<1>6. CASE Build(t)
  <2>1. CASE ~ End(t)
    <3>1. Set(t, [thread[t] EXCEPT !.pc = "built"])
      BY <1>6, <2>1 DEF Build, Go
    <3>2. /\ thread'[t].pc = "built" /\ Others
          /\ thread'[t].after = thread[t].after /\ thread'[t].seen = thread[t].seen
          /\ thread'[t].state = thread[t].state
      BY <1>0, <3>1 DEF Set, Locals
    <3>3. QED
      BY <1>6, <3>2 DEF Moved
  <2>2. QED
    BY <1>1, <2>1
<1>7. CASE Save(t)
  <2>1. Set(t, [thread[t] EXCEPT !.pc = "update", !.after = "take"])
    BY <1>7 DEF Save, Access
  <2>2. /\ thread'[t].pc = "update" /\ Others
        /\ thread'[t].after = "take" /\ thread'[t].seen = thread[t].seen
        /\ thread'[t].state = thread[t].state
    BY <1>0, <2>1 DEF Set, Locals
  <2>3. QED
    BY <1>7, <2>2 DEF Moved
<1>8. CASE Take(t)
  <2> DEFINE taken == [config_file |-> config_file, database |-> {}, builder |-> builder]
  <2>1. Set(t, Access([thread[t] EXCEPT !.state = taken], "open"))
    BY <1>8 DEF Take
  <2> HIDE DEF taken
  <2>2. /\ thread'[t].pc = "update" /\ Others
        /\ thread'[t].after = "open" /\ thread'[t].seen = thread[t].seen
        /\ thread'[t].state = taken
    BY <1>0, <2>1 DEF Set, Locals, Access
  <2>3. QED
    BY <1>8, <2>2 DEF Moved, taken
<1>9. CASE Open(t)
  <2> DEFINE state == [thread[t].state EXCEPT !.database = database]
  <2>1. state.config_file = thread[t].state.config_file /\ state.builder = thread[t].state.builder
        /\ state.database = database
    BY <1>0 DEF Locals, States
  <2>2. Set(t, [thread[t] EXCEPT !.pc = "dump", !.state = state])
    BY <1>9 DEF Open, Set
  <2> HIDE DEF state
  <2>3. /\ thread'[t].pc = "dump" /\ Others
        /\ thread'[t].after = thread[t].after /\ thread'[t].seen = thread[t].seen
        /\ thread'[t].state = state
    BY <1>0, <2>2 DEF Set, Locals
  <2>4. QED
    BY <1>9, <2>1, <2>3 DEF Moved
<1>10. CASE Dump(t)
  BY <1>1, <1>10 DEF Dump
<1>11. QED
  BY <1>2, <1>3, <1>4, <1>5, <1>6, <1>7, <1>8, <1>9, <1>10 DEF Request

LEMMA StartMoves ==
  ASSUME TypeOK, NEW t \in Threads,
         (\E text \in BOOLEAN : Lint(t, text)) \/ (\E p \in Configs : SetConfig(t, p))
  PROVE  /\ thread'[t].pc = "update" /\ thread'[t].after \in {"build", "idle"}
         /\ thread'[t].seen = 0 /\ thread'[t].state = NoState
         /\ \A u \in Threads \ {t} : thread'[u] = thread[u]
<1>0. thread \in [Threads -> Locals] /\ AtRest \in Locals /\ AtRest.seen = 0 /\ AtRest.state = NoState
  BY StartTypes DEF TypeOK, AtRest
<1>1. ASSUME NEW text \in BOOLEAN, Lint(t, text)
      PROVE  /\ thread'[t].pc = "update" /\ thread'[t].after = "build"
             /\ thread'[t].seen = 0 /\ thread'[t].state = NoState
             /\ \A u \in Threads \ {t} : thread'[u] = thread[u]
  BY <1>0, <1>1 DEF Lint, Set, Access, Locals
<1>2. ASSUME NEW p \in Configs, SetConfig(t, p)
      PROVE  /\ thread'[t].pc = "update" /\ thread'[t].after = "idle"
             /\ thread'[t].seen = 0 /\ thread'[t].state = NoState
             /\ \A u \in Threads \ {t} : thread'[u] = thread[u]
  BY <1>0, <1>2 DEF SetConfig, Set, Access, Locals
<1>3. QED
  BY <1>1, <1>2

(* Where a thread is when it takes a step. *)
LEMMA WhereItWas ==
  ASSUME NEW t \in Threads
  PROVE  /\ Check(t) => At(t, "update")
         /\ Parse(t) => At(t, "parse")
         /\ Configure(t) => At(t, "configure")
         /\ Mark(t) => At(t, "mark")
         /\ Build(t) => At(t, "build")
         /\ Save(t) => At(t, "built")
         /\ Take(t) => At(t, "take")
         /\ Open(t) => At(t, "open")
         /\ Dump(t) => At(t, "dump") \/ At(t, "lost")
BY DEF Check, Parse, Configure, Mark, Build, Save, Take, Open, Dump

LEMMA WatchesStep ==
  ASSUME Typed, [Next]_vars
  PROVE  Watches'
<1>0. /\ thread \in [Threads -> Locals] /\ NoConfig.path = None
      /\ \A t \in Threads : /\ ~ up => thread[t].pc = "idle"
                            /\ thread[t].pc \in Updating => config_file.path # None
                            /\ thread[t].after \in Rest
      /\ TypeOK
  BY DEF Typed, TypeOK, Watches, Locals, NoConfig, WatchedFile
<1>1. AtRest.pc = "idle" /\ "idle" \notin Updating /\ "update" \notin Updating
      /\ Updating \cap Rest = {} /\ None \notin Configs
  BY NoneAssumption DEF AtRest, Updating, Rest
<1>2. ASSUME NEW t \in Threads, NEW p \in Configs, SetConfig(t, p) PROVE Watches'
  <2>1. up' /\ config_file'.path = p
    BY <1>2 DEF SetConfig, Idle, WatchedFile
  <2>2. QED
    BY <1>1, <2>1 DEF Watches
<1>3. ASSUME NEW t \in Threads, NEW with_text \in BOOLEAN, Lint(t, with_text) PROVE Watches'
  <2>1. up' /\ UNCHANGED config_file
    BY <1>3 DEF Lint, Idle, core
  <2>2. \A u \in Threads : thread'[u] = thread[u] \/ thread'[u].pc = "update"
    BY <1>0, <1>3, StartTypes DEF Lint, Set, Access, Locals
  <2>3. QED
    BY <1>0, <1>1, <2>1, <2>2 DEF Watches
<1>4. ASSUME NEW t \in Threads, Request(t) PROVE Watches'
  <2>1. UNCHANGED up
    BY <1>4 DEF Request, Check, Parse, Configure, Mark, Build, Save, Take, Open, Dump, process
  <2>2. up
    BY <1>0, <1>4 DEF Request, Check, Parse, Configure, Mark, Build, Save, Take, Open, Dump, At
  <2>3. config_file'.path = config_file.path
    BY <1>4 DEF Request, Check, Parse, Configure, Mark, Build, Save, Take, Open, Dump, core, WatchedFile
  <2>4. /\ \A u \in Threads \ {t} : thread'[u] = thread[u]
        /\ thread'[t].pc \in Updating => config_file.path # None
    <3>1. Moved(t) /\ \A u \in Threads \ {t} : thread'[u] = thread[u]
      BY <1>0, <1>4, RequestMoves
    <3>2. Parse(t) \/ Configure(t) => thread[t].pc \in Updating
      BY WhereItWas DEF At, Updating
    <3>3. thread'[t].pc \in Updating => config_file.path # None
      BY <1>0, <1>1, <3>1, <3>2 DEF Moved, Updating
    <3>4. QED
      BY <3>1, <3>3
  <2>5. QED
    BY <1>0, <2>1, <2>2, <2>3, <2>4 DEF Watches
<1>5. CASE Crash
  BY <1>0, <1>1, <1>5 DEF Crash, Watches
<1>6. CASE Start
  <2>1. ~ up /\ UNCHANGED thread /\ up'
    BY <1>6 DEF Start
  <2>2. QED
    BY <1>0, <1>1, <2>1 DEF Watches
<1>7. CASE Remove
  <2>1. \A t \in Threads : thread'[t].pc = (IF thread[t].pc = "dump" THEN "lost" ELSE thread[t].pc)
    BY <1>0, <1>7 DEF Remove, Locals
  <2>2. QED
    BY <1>0, <1>7, <2>1 DEF Remove, process, core, Watches, Updating
<1>8. CASE (\E p \in Configs : Write(p)) \/ UNCHANGED vars
  BY <1>0, <1>8 DEF Write, Watches, process, core, vars
<1>9. QED
  BY <1>2, <1>3, <1>4, <1>5, <1>6, <1>7, <1>8 DEF Next, Lints, Requests

LEMMA TypedAlways == Spec => []Typed
<1>0. Init => Watches
  BY DEF Init, Watches, AtRest, Updating
<1>1. Init => TypeOK
  <2> SUFFICES ASSUME Init PROVE TypeOK
    OBVIOUS
  <2>1. [config_file |-> config_file, database |-> database, builder |-> builder] = NoState
    BY DEF Init, NoState
  <2>2. AtRest.pc \notin Updating
    BY DEF AtRest, Updating
  <2>3. {0, 1} \subseteq 0 .. MaxWrites + 1 /\ 1 \in 1 .. MaxWrites + 1 /\ 0 \in 0 .. MaxRemovals
        /\ 0 \in 0 .. MaxCrashes
    BY BoundsAssumption
  <2>4. QED
    BY <2>1, <2>2, <2>3, StartTypes DEF Init, TypeOK
<1>2. Typed /\ [Next]_vars => Typed'
  BY TypedStep, WatchesStep DEF Typed
<1>3. QED
  BY <1>0, <1>1, <1>2, PTL DEF Spec, Typed

(* The types hold in every reachable state, and an update runs under the   *)
(* core's lock (core.py:187).                                              *)
THEOREM TypeCorrect == Spec => []TypeOK
<1>1. Typed => TypeOK
  BY DEF Typed
<1>2. QED
  BY <1>1, TypedAlways, PTL

-----------------------------------------------------------------------------
(* The mtimes that anything remembers are those of writes in the past.     *)
ClockOK ==
  /\ \A p \in Configs : mtime[p] <= clock
  /\ config_file.last_read <= clock /\ cache.state.config_file.last_read <= clock
  /\ \A t \in Threads :
       thread[t].seen <= clock /\ thread[t].state.config_file.last_read <= clock

(* t is at a place or on its way there, through an update. *)
Bound(t, place) ==
  \/ thread[t].pc = place
  \/ thread[t].pc \in {"update"} \cup Updating /\ thread[t].after = place

(* From its first update to the opening of the cache, a lint has the       *)
(* folder, unless that was removed unnoticed.                              *)
FolderOK ==
  \A t \in Threads :
    \/ thread[t].pc = "take"
    \/ thread[t].pc \in Updating /\ thread[t].after = "take"
    \/ Bound(t, "open")
    => folder

(* The libraries that a builder remembers are in the folder if that is     *)
(* there, and so are those of a state taken or saved.                      *)
LibrariesOK ==
  /\ folder /\ builder.added => libs
  /\ cache.state.builder.added => libs
  /\ \A t \in Threads :
       Bound(t, "open") \/ thread[t].pc = "dump" => (thread[t].state.builder.added => libs)

LibrariesInv == Typed /\ (~ unnoticed => FolderOK /\ LibrariesOK)

(* What a step of a request leaves of the other threads, and what it makes *)
(* of its own.                                                             *)
LEMMA Moves ==
  ASSUME Typed, NEW t \in Threads, Request(t)
  PROVE  /\ \A u \in Threads \ {t} : thread'[u] = thread[u]
         /\ UNCHANGED <<unnoticed, disk, up>>
         /\ folder => folder'
         /\ libs => libs'
         /\ Bound(t, "open")' =>
              (IF At(t, "take") THEN thread'[t].state.builder = builder /\ thread'[t].state.config_file = config_file
                                ELSE Bound(t, "open") /\ thread'[t].state = thread[t].state)
         /\ thread'[t].pc \in {"dump", "lost"} => At(t, "open") /\ Open(t)
<1>0. TypeOK /\ thread[t].after \in Rest
  BY DEF Typed, TypeOK, Locals
<1>1. Moved(t) /\ \A u \in Threads \ {t} : thread'[u] = thread[u]
  BY <1>0, RequestMoves
<1>2. UNCHANGED <<unnoticed, disk, up>> /\ (folder => folder') /\ (libs => libs')
  BY DEF Request, Check, Setup, Parse, Configure, Mark, Build, Save, Take, Open, Dump, work_dir, process
<1>3. /\ Check(t) \/ Mark(t) \/ Parse(t) \/ Configure(t) => thread[t].pc \in {"update"} \cup Updating
      /\ Take(t) => At(t, "take")
      /\ Open(t) => At(t, "open")
      /\ At(t, "take") => Take(t)
  BY WhereItWas DEF At, Updating, Request
<1>4. AtRest.pc = "idle"
  BY DEF AtRest
<1>5. Bound(t, "open")' =>
        (IF At(t, "take") THEN thread'[t].state.builder = builder /\ thread'[t].state.config_file = config_file
                          ELSE Bound(t, "open") /\ thread'[t].state = thread[t].state)
  BY <1>0, <1>1, <1>3, <1>4 DEF Bound, Moved, Updating, Rest, At
<1>6. thread'[t].pc \in {"dump", "lost"} => At(t, "open") /\ Open(t)
  BY <1>0, <1>1, <1>3, <1>4 DEF Moved, Rest
<1>7. QED
  BY <1>1, <1>2, <1>5, <1>6

LEMMA FolderRequest ==
  ASSUME Typed, FolderOK, NEW t \in Threads, Request(t)
  PROVE  FolderOK'
<1>0. TypeOK
  BY DEF Typed
<1>1. Moved(t) /\ \A u \in Threads \ {t} : thread'[u] = thread[u]
  BY <1>0, RequestMoves
<1>2. folder => folder'
  BY Moves
<1>3. CASE folder'
  BY <1>3 DEF FolderOK
<1>4. CASE ~ folder'
  <2>1. ~ folder /\ ~ Check(t)
    BY <1>2, <1>4 DEF Check, Setup
  <2>2. /\ Mark(t) \/ Parse(t) \/ Configure(t) => thread[t].pc \in Updating
        /\ Take(t) => thread[t].pc = "take"
        /\ Open(t) => thread[t].pc = "open"
    BY WhereItWas DEF At, Updating
  <2>3. \A u \in Threads : /\ thread[u].pc \notin {"take", "open"}
                           /\ thread[u].pc \in Updating => thread[u].after \notin {"take", "open"}
                           /\ thread[u].pc = "update" => thread[u].after # "open"
    BY <2>1 DEF FolderOK, Bound
  <2>4. /\ thread'[t].pc \notin {"take", "open"}
        /\ thread'[t].pc \in Updating => thread'[t].after \notin {"take", "open"}
        /\ thread'[t].pc = "update" => thread'[t].after # "open"
    BY <1>1, <2>1, <2>2, <2>3 DEF Moved, Updating, AtRest
  <2>5. QED
    BY <1>1, <2>3, <2>4 DEF FolderOK, Bound
<1>5. QED
  BY <1>3, <1>4

LEMMA LibrariesRequest ==
  ASSUME Typed, FolderOK, LibrariesOK, NEW t \in Threads, Request(t)
  PROVE  LibrariesOK'
<1>0. thread[t] \in Locals /\ thread \in [Threads -> Locals]
  BY DEF Typed, TypeOK
<1>1. /\ \A u \in Threads \ {t} : thread'[u] = thread[u]
      /\ libs => libs'
  BY Moves
<1>2. Bound(t, "open")' =>
        (IF At(t, "take") THEN thread'[t].state.builder = builder /\ thread'[t].state.config_file = config_file
                          ELSE Bound(t, "open") /\ thread'[t].state = thread[t].state)
  BY Moves
<1>3. thread'[t].pc \in {"dump", "lost"} => At(t, "open") /\ Open(t)
  BY Moves
<1>4. folder' /\ builder'.added => libs'
  <2>1. CASE Check(t)
    BY <2>1 DEF Check, Setup, LibrariesOK, Fallback
  <2>2. CASE Parse(t) \/ Mark(t) \/ Save(t) \/ Take(t) \/ Dump(t)
    BY <2>2 DEF Parse, Mark, Save, Take, Dump, LibrariesOK, work_dir, core
  <2>3. CASE Configure(t)
    BY <2>3 DEF Configure
  <2>4. CASE Build(t)
    BY <2>4 DEF Build, LibrariesOK
  <2>5. CASE Open(t)
    <3>1. folder /\ UNCHANGED <<builder, libs>>
      BY <2>5 DEF Open, At, FolderOK, Bound, core
    <3>2. QED
      BY <3>1 DEF LibrariesOK
  <2>6. QED
    BY <2>1, <2>2, <2>3, <2>4, <2>5 DEF Request
<1>5. cache'.state.builder.added => libs'
  <2>1. CASE UNCHANGED cache
    BY <1>1, <2>1 DEF LibrariesOK
  <2>2. CASE cache' = Torn
    BY <2>2 DEF Torn, NoState, Fallback
  <2>3. CASE cache' = Saved(thread[t].state) /\ At(t, "dump")
    BY <1>1, <2>3 DEF Saved, At, LibrariesOK
  <2>4. QED
    BY <2>1, <2>2, <2>3 DEF Request, Check, Setup, Parse, Configure, Mark, Build, Save, Take, Open, Dump, work_dir
<1>6. Bound(t, "open")' => (thread'[t].state.builder.added => libs')
  <2>1. CASE At(t, "take")
    <3>1. folder
      BY <2>1 DEF At, FolderOK
    <3>2. QED
      BY <1>1, <1>2, <2>1, <3>1 DEF LibrariesOK
  <2>2. CASE ~ At(t, "take")
    BY <1>1, <1>2, <2>2 DEF LibrariesOK
  <2>3. QED
    BY <2>1, <2>2
<1>7. thread'[t].pc = "dump" => (thread'[t].state.builder.added => libs')
  <2> SUFFICES ASSUME thread'[t].pc = "dump", thread'[t].state.builder.added PROVE libs'
    OBVIOUS
  <2>1. Open(t) /\ At(t, "open")
    BY <1>3
  <2>2. thread'[t].state.builder = thread[t].state.builder
    BY <1>0, <2>1 DEF Open, Set, Locals, States
  <2>3. Bound(t, "open")
    BY <2>1 DEF At, Bound
  <2>4. QED
    BY <1>1, <2>2, <2>3 DEF LibrariesOK
<1>8. QED
  BY <1>1, <1>4, <1>5, <1>6, <1>7 DEF LibrariesOK, Bound

LEMMA LibrariesStep ==
  ASSUME LibrariesInv, [Next]_vars
  PROVE  LibrariesInv'
<1>0. Typed' /\ Typed /\ thread \in [Threads -> Locals]
  BY TypedStep, WatchesStep DEF Typed, LibrariesInv, TypeOK
<1> SUFFICES ASSUME ~ unnoticed' PROVE FolderOK' /\ LibrariesOK'
  BY <1>0 DEF LibrariesInv
<1>1. CASE Remove
  <2>1. \A t \in Threads : ~ Saving(t) /\ ~ unnoticed
    BY <1>1 DEF Remove
  <2>2. \A t \in Threads : /\ thread'[t].pc # "dump" /\ thread'[t].after = thread[t].after
                           /\ thread'[t].pc = thread[t].pc \/ thread'[t].pc = "lost"
    BY <1>0, <1>1 DEF Remove, Locals
  <2>3. \A t \in Threads : ~ Bound(t, "open")' /\ thread'[t].pc # "take"
                           /\ ~ (thread'[t].pc \in Updating /\ thread'[t].after = "take")
    BY <2>1, <2>2 DEF Saving, Bound
  <2>4. ~ folder' /\ ~ cache'.state.builder.added
    BY <1>1 DEF Remove, NoCache, NoState, Fallback
  <2>5. QED
    BY <2>2, <2>3, <2>4 DEF FolderOK, LibrariesOK
<1>2. CASE ~ Remove
  <2>1. UNCHANGED unnoticed
    BY <1>2 DEF Next, Start, Lints, Lint, SetConfig, Requests, Request, Check, Setup, Parse,
       Configure, Mark, Build, Save, Take, Open, Dump, Crash, Write, vars, work_dir
  <2>2. FolderOK /\ LibrariesOK
    BY <2>1 DEF LibrariesInv
  <2>3. ASSUME NEW t \in Threads, Request(t) PROVE FolderOK' /\ LibrariesOK'
    BY <1>0, <2>2, <2>3, FolderRequest, LibrariesRequest
  <2>4. AtRest.pc = "idle" /\ AtRest \in Locals
    BY StartTypes DEF AtRest
  <2>5. CASE Crash
    <3>1. \A t \in Threads : thread'[t].pc = "idle"
      BY <2>4, <2>5 DEF Crash
    <3>2. builder' = Fallback /\ UNCHANGED <<cache, libs>>
      BY <2>5 DEF Crash, work_dir
    <3>3. QED
      BY <2>2, <3>1, <3>2 DEF FolderOK, LibrariesOK, Bound, Updating, Fallback
  <2>6. CASE Start
    <3>1. UNCHANGED <<thread, libs, cache>> /\ folder'
      BY <2>6 DEF Start
    <3>2. builder'.added => libs'
      <4>1. PICK s \in {NoState, cache.state} : builder' = s.builder
        BY <2>6 DEF Start
      <4>2. QED
        BY <2>2, <3>1, <4>1 DEF NoState, Fallback, LibrariesOK
    <3>3. QED
      BY <2>2, <3>1, <3>2 DEF FolderOK, LibrariesOK, Bound
  <2>7. ASSUME NEW t \in Threads, (\E text \in BOOLEAN : Lint(t, text)) \/ (\E p \in Configs : SetConfig(t, p))
        PROVE  FolderOK' /\ LibrariesOK'
    <3>1. UNCHANGED <<builder, folder, libs, cache>>
      BY <2>7 DEF Lint, SetConfig, core, work_dir
    <3>2. thread'[t].pc = "update" /\ thread'[t].after \in {"build", "idle"}
          /\ \A u \in Threads \ {t} : thread'[u] = thread[u]
      BY <1>0, <2>7, StartMoves DEF Typed
    <3>3. QED
      BY <2>2, <3>1, <3>2 DEF FolderOK, LibrariesOK, Bound, Updating
  <2>8. CASE (\E p \in Configs : Write(p)) \/ UNCHANGED vars
    <3>1. UNCHANGED <<builder, folder, libs, cache, thread>>
      BY <2>8 DEF Write, vars, core, work_dir
    <3>2. QED
      BY <2>2, <3>1 DEF FolderOK, LibrariesOK, Bound
  <2>9. QED
    BY <1>2, <2>3, <2>5, <2>6, <2>7, <2>8 DEF Next, Lints, Requests
<1>3. QED
  BY <1>1, <1>2

LEMMA LibrariesAlways == Spec => []LibrariesInv
<1>1. Init => FolderOK /\ LibrariesOK
  BY DEF Init, FolderOK, LibrariesOK, Bound, AtRest, Updating, NoCache, NoState, Fallback
<1>2. Typed /\ (FolderOK /\ LibrariesOK) => LibrariesInv
  BY DEF LibrariesInv
<1>3. Spec => []Typed
  BY TypedAlways
<1>4. LibrariesInv /\ [Next]_vars => LibrariesInv'
  BY LibrariesStep
<1>5. QED
  BY <1>1, <1>2, <1>3, <1>4, PTL DEF Spec

(* A builder that remembers creating its libraries finds them, unless the  *)
(* folder is missing or was removed while a cache was about to be saved    *)
(* (core.py:274-275, 337-338): however many threads lint, whoever calls    *)
(* setConfig, whatever the user removes and whenever the process dies.     *)
THEOREM LibrariesAreThere == Spec => []LibrariesExist
<1>1. LibrariesInv => LibrariesExist
  BY DEF LibrariesInv, LibrariesOK, LibrariesExist
<1>2. QED
  BY <1>1, LibrariesAlways, PTL

-----------------------------------------------------------------------------
LEMMA ClockStep ==
  ASSUME Typed, ClockOK, [Next]_vars
  PROVE  ClockOK'
<1>0. /\ thread \in [Threads -> Locals] /\ clock \in Nat /\ mtime \in [Configs -> 0 .. MaxWrites + 1]
      /\ config_file \in [path : Configs \cup {None}, last_read : 0 .. MaxWrites + 1]
      /\ last_read \in 0 .. MaxWrites + 1 /\ 0 <= clock
      /\ last_read <= clock
  <2>1. TypeOK /\ clock \in Nat
    BY DEF Typed, TypeOK
  <2>2. QED
    BY <2>1, CoreTypes DEF TypeOK, ClockOK, last_read
<1>1. AtRest.seen = 0 /\ AtRest.state.config_file.last_read = 0 /\ NoState.config_file.last_read = 0
      /\ AtRest \in Locals
  BY StartTypes DEF AtRest, NoState, NoConfig, WatchedFile
<1>2. ASSUME NEW p \in Configs, Write(p) PROVE ClockOK'
  <2>1. clock' = clock + 1 /\ UNCHANGED <<config_file, cache, thread>>
    BY <1>2 DEF Write, work_dir, core
  <2>2. \A q \in Configs : mtime'[q] \in {mtime[q], clock', 0}
    BY <1>0, <1>2 DEF Write
  <2>3. \A q \in Configs : mtime'[q] <= clock'
    BY <1>0, <2>1, <2>2 DEF ClockOK
  <2>4. \A x \in 0 .. MaxWrites + 1 : x <= clock => x <= clock'
    BY <1>0, <2>1
  <2>5. cache.state.config_file.last_read \in 0 .. MaxWrites + 1
        /\ config_file.last_read \in 0 .. MaxWrites + 1
        /\ \A t \in Threads : thread[t].seen \in 0 .. MaxWrites + 1
                              /\ thread[t].state.config_file.last_read \in 0 .. MaxWrites + 1
    BY <1>0 DEF Typed, TypeOK, States, Locals
  <2>6. QED
    BY <2>1, <2>3, <2>4, <2>5 DEF ClockOK
<1>3. ASSUME NEW t \in Threads, Request(t) PROVE ClockOK'
  <2>1. UNCHANGED <<mtime, clock>> /\ \A u \in Threads \ {t} : thread'[u] = thread[u]
    BY <1>3, Moves DEF disk
  <2>2. config_file'.last_read <= clock
    BY <1>0, <1>3 DEF Request, Check, Parse, Configure, Mark, Build, Save, Take, Open, Dump,
                      core, WatchedFile, ClockOK
  <2>3. cache'.state.config_file.last_read <= clock
    BY <1>0, <1>1, <1>3 DEF Request, Check, Setup, Parse, Configure, Mark, Build, Save, Take, Open, Dump,
                      work_dir, ClockOK, Torn, Saved
  <2>4. Moved(t) /\ (config_file.path # None => mtime[config_file.path] <= clock)
    BY <1>0, <1>3, RequestMoves DEF Typed, ClockOK
  <2>5. thread'[t].seen <= clock /\ thread'[t].state.config_file.last_read <= clock
    BY <1>0, <1>1, <2>4 DEF Moved, ClockOK
  <2>6. QED
    BY <2>1, <2>2, <2>3, <2>4, <2>5 DEF ClockOK
<1>4. CASE Crash
  <2>1. config_file'.last_read = 0
    BY <1>4 DEF Crash, NoConfig, WatchedFile
  <2>2. UNCHANGED <<mtime, clock, cache>> /\ thread' = [t \in Threads |-> AtRest]
    BY <1>4 DEF Crash, disk, work_dir
  <2>3. QED
    BY <1>0, <1>1, <2>1, <2>2 DEF ClockOK
<1>5. CASE Start
  <2>1. PICK s \in {NoState, cache.state} : config_file' = s.config_file
    BY <1>5 DEF Start
  <2>2. UNCHANGED <<mtime, clock, cache, thread>>
    BY <1>5 DEF Start, disk
  <2>3. QED
    BY <1>0, <1>1, <2>1, <2>2 DEF ClockOK
<1>6. CASE Remove
  <2>1. \A t \in Threads : thread'[t].seen = thread[t].seen /\ thread'[t].state = thread[t].state
    BY <1>0, <1>6 DEF Remove, Locals
  <2>2. QED
    BY <1>0, <1>1, <1>6, <2>1 DEF Remove, disk, core, ClockOK, NoCache
<1>7. ASSUME NEW t \in Threads, (\E text \in BOOLEAN : Lint(t, text)) \/ (\E p \in Configs : SetConfig(t, p))
      PROVE  ClockOK'
  <2>1. UNCHANGED <<mtime, clock, cache>>
    BY <1>7 DEF Lint, SetConfig, work_dir, disk
  <2>2. config_file'.last_read <= clock
    <3>1. config_file' = config_file \/ \E p \in Configs : config_file' = WatchedFile(p, 0)
      BY <1>7 DEF Lint, SetConfig, core
    <3>2. QED
      BY <1>0, <3>1 DEF WatchedFile, ClockOK
  <2>3. thread'[t].seen = 0 /\ thread'[t].state.config_file.last_read = 0
        /\ \A u \in Threads \ {t} : thread'[u] = thread[u]
    BY <1>1, <1>7, StartMoves DEF Typed
  <2>4. QED
    BY <1>0, <2>1, <2>2, <2>3 DEF ClockOK
<1>8. CASE UNCHANGED vars
  BY <1>8 DEF ClockOK, vars, disk, work_dir, core
<1>9. QED
  BY <1>2, <1>3, <1>4, <1>5, <1>6, <1>7, <1>8 DEF Next, Lints, Requests

(* A configuration file that is taken for read has been.                   *)
Read(file, sources) ==
  LET p == file.path IN
  p # None /\ mtime[p] # 0 /\ file.last_read >= mtime[p] =>
    content[p].fails = "no" /\ content[p].sources \subseteq sources

(* What a thread that updates knows of the file. *)
UpdateOK ==
  \A t \in Threads : thread[t].pc \in Updating =>
    LET p == config_file.path  local == thread[t] IN
    /\ config_file.last_read < local.seen
    /\ mtime[p] = 0 \/ mtime[p] >= local.seen
    /\ local.pc = "configure" /\ mtime[p] = local.seen => local.config = content[p]
    /\ local.pc = "mark" /\ mtime[p] = local.seen =>
         content[p].fails = "no" /\ content[p].sources \subseteq database

(* So does the state that a thread has taken or that is in the cache. *)
StateOK ==
  /\ Read(config_file, database)
  /\ Read(cache.state.config_file, cache.state.database)
  /\ \A t \in Threads :
       /\ thread[t].pc \in {"dump", "lost"} =>
            Read(thread[t].state.config_file, thread[t].state.database)
       /\ Bound(t, "open") => Read(thread[t].state.config_file, database)

ReadInv == Typed /\ ClockOK /\ (~ unnoticed => FolderOK /\ LibrariesOK /\ UpdateOK /\ StateOK)

(* What the others know of the file survives a step of t. *)
LEMMA UpdateRequest ==
  ASSUME Typed, UpdateOK, StateOK, NEW t \in Threads, Request(t)
  PROVE  UpdateOK'
<1>0. /\ thread \in [Threads -> Locals] /\ thread[t] \in Locals /\ owner \in Threads \cup {None}
      /\ mtime \in [Configs -> 0 .. MaxWrites + 1]
      /\ config_file \in [path : Configs \cup {None}, last_read : 0 .. MaxWrites + 1]
      /\ last_read \in 0 .. MaxWrites + 1
      /\ \A u \in Threads : thread[u].pc \in Updating => owner = u
  BY CoreTypes DEF Typed, TypeOK
<1>1. /\ \A u \in Threads \ {t} : thread'[u] = thread[u]
      /\ UNCHANGED <<mtime, content>>
  BY Moves DEF disk
<1>2. AtRest.pc = "idle" /\ AtRest \in Locals /\ Moved(t) /\ thread[t].after \in Rest
  BY <1>0, StartTypes, RequestMoves DEF AtRest, Typed, Locals
<1> DEFINE p == config_file.path
<1>3. CASE Check(t)
  <2>1. \A u \in Threads \ {t} : thread[u].pc \notin Updating
    BY <1>0, <1>3, NoneAssumption DEF Check
  <2>2. CASE thread'[t].pc \notin Updating
    BY <1>1, <2>1, <2>2 DEF UpdateOK
  <2>3. CASE thread'[t].pc \in Updating
    <3>1. ~ Parse(t) /\ ~ Configure(t)
      BY <1>3, WhereItWas DEF At
    <3>2. /\ config_file' = WatchedFile(p, last_read)
      BY <1>3 DEF Check
    <3>3. /\ thread'[t].pc = "parse" /\ thread'[t].seen = mtime[p]
          /\ p # None /\ ~ (last_read >= mtime[p])
      BY <1>2, <2>3, <3>1 DEF Moved, Updating, Rest
    <3>4. config_file'.path = p /\ config_file'.last_read < thread'[t].seen
          /\ mtime'[p] >= thread'[t].seen
      <4>1. mtime[p] \in 0 .. MaxWrites + 1
        BY <1>0, <3>3
      <4>2. config_file'.path = p /\ config_file'.last_read = last_read
        BY <3>2 DEF WatchedFile
      <4>3. QED
        BY <1>0, <1>1, <3>2, <3>3, <4>1, <4>2
    <3>5. QED
      BY <1>1, <2>1, <3>3, <3>4 DEF UpdateOK
  <2>4. QED
    BY <2>2, <2>3
<1>4. CASE Parse(t)
  <2>1. \A u \in Threads \ {t} : thread[u].pc \notin Updating
    BY <1>0, <1>4 DEF Parse, At, Updating
  <2>2. UNCHANGED <<config_file, database>> /\ thread[t].pc = "parse"
    BY <1>4 DEF Parse, core, At
  <2>3. CASE End(t)
    BY <1>0, <1>1, <1>2, <2>1, <2>3 DEF End, Set, UpdateOK, Updating
  <2>4. CASE ~ End(t)
    <3>1. Set(t, [thread[t] EXCEPT !.pc = "configure", !.config = content[p]])
      BY <1>4, <2>4 DEF Parse
    <3>2. thread'[t].pc = "configure" /\ thread'[t].seen = thread[t].seen
          /\ thread'[t].config = content[p]
      BY <1>0, <3>1 DEF Set, Locals
    <3>3. QED
      BY <1>1, <2>1, <2>2, <3>2 DEF UpdateOK, Updating
  <2>5. QED
    BY <2>3, <2>4
<1>5. CASE Configure(t)
  <2>1. \A u \in Threads \ {t} : thread[u].pc \notin Updating
    BY <1>0, <1>5 DEF Configure, At, Updating
  <2>2. UNCHANGED config_file /\ thread[t].pc = "configure"
    BY <1>5 DEF Configure, At
  <2>3. CASE End(t)
    BY <1>0, <1>1, <1>2, <2>1, <2>3 DEF End, Set, UpdateOK, Updating
  <2>4. CASE ~ End(t)
    <3>1. /\ thread[t].config.fails = "no" /\ database' = database \cup thread[t].config.sources
          /\ Set(t, [thread[t] EXCEPT !.pc = "mark"])
      BY <1>5, <2>4 DEF Configure, Go
    <3>2. thread'[t].pc = "mark" /\ thread'[t].seen = thread[t].seen
      BY <1>0, <3>1 DEF Set, Locals
    <3>3. mtime[p] = thread[t].seen => thread[t].config = content[p]
      BY <2>2 DEF UpdateOK, Updating
    <3>4. QED
      BY <1>1, <2>1, <2>2, <3>1, <3>2, <3>3 DEF UpdateOK, Updating
  <2>5. QED
    BY <2>3, <2>4
<1>6. CASE Mark(t)
  <2>1. \A u \in Threads \ {t} : thread[u].pc \notin Updating
    BY <1>0, <1>6 DEF Mark, At, Updating
  <2>2. thread'[t].pc \notin Updating
    BY <1>2, <1>6, WhereItWas DEF Moved, At, Rest, Updating
  <2>3. QED
    BY <1>1, <2>1, <2>2 DEF UpdateOK
<1>7. CASE Build(t) \/ Save(t) \/ Take(t) \/ Open(t) \/ Dump(t)
  <2>1. UNCHANGED <<config_file, database>>
    BY <1>7 DEF Build, Save, Take, Open, Dump, core
  <2>2. thread'[t].pc \notin Updating
    <3>1. ~ Check(t) /\ ~ Parse(t) /\ ~ Configure(t) /\ ~ Mark(t)
      BY <1>7, WhereItWas DEF At
    <3>2. QED
      BY <1>2, <3>1 DEF Moved, Updating
  <2>3. QED
    BY <1>1, <2>1, <2>2 DEF UpdateOK
<1>8. QED
  BY <1>3, <1>4, <1>5, <1>6, <1>7 DEF Request

LEMMA StateRequest ==
  ASSUME Typed, FolderOK, UpdateOK, StateOK, NEW t \in Threads, Request(t)
  PROVE  StateOK'
<1>0. /\ thread \in [Threads -> Locals] /\ thread[t] \in Locals
      /\ mtime \in [Configs -> 0 .. MaxWrites + 1]
      /\ config_file \in [path : Configs \cup {None}, last_read : 0 .. MaxWrites + 1]
  BY CoreTypes DEF Typed, TypeOK
<1>1. /\ \A u \in Threads \ {t} : thread'[u] = thread[u]
      /\ UNCHANGED <<mtime, content>>
  BY Moves DEF disk
<1>2. Bound(t, "open")' =>
        (IF At(t, "take") THEN thread'[t].state.builder = builder /\ thread'[t].state.config_file = config_file
                          ELSE Bound(t, "open") /\ thread'[t].state = thread[t].state)
  BY Moves
<1>3. thread'[t].pc \in {"dump", "lost"} => At(t, "open") /\ Open(t)
  BY Moves
<1> DEFINE p == config_file.path
(* A folder that is set up afresh: nobody is about to save. *)
<1>4. database \subseteq database' \/ (Check(t) /\ ~ folder)
  BY DEF Request, Check, Setup, Parse, Configure, Mark, Build, Save, Take, Open, Dump, core
<1>5. \A u \in Threads : Bound(u, "open") => database \subseteq database'
  BY <1>4 DEF FolderOK
<1>6. Read(config_file, database)'
  <2>1. CASE UNCHANGED config_file /\ database \subseteq database'
    BY <1>1, <2>1 DEF StateOK, Read
  <2>2. CASE Check(t)
    <3>1. CASE folder
      <4>1. UNCHANGED database /\ config_file' = WatchedFile(p, config_file.last_read)
        BY <2>2, <3>1 DEF Check, Setup, last_read
      <4>2. QED
        BY <1>1, <4>1 DEF StateOK, Read, WatchedFile
    <3>2. CASE ~ folder
      <4>1. config_file'.path = p /\ config_file'.last_read = 0
        BY <2>2, <3>2 DEF Check, WatchedFile, last_read
      <4>2. p # None => mtime[p] \in 0 .. MaxWrites + 1
        BY <1>0
      <4>3. QED
        BY <1>1, <4>1, <4>2 DEF Read
    <3>3. QED
      BY <3>1, <3>2
  <2>3. CASE Mark(t)
    <3>1. config_file'.path = p /\ config_file'.last_read = thread[t].seen /\ UNCHANGED database
          /\ thread[t].pc = "mark"
      BY <2>3 DEF Mark, WatchedFile, At
    <3>2. p # None => mtime[p] \in 0 .. MaxWrites + 1 /\ thread[t].seen \in 0 .. MaxWrites + 1
      BY <1>0 DEF Locals
    <3>3. /\ mtime[p] = 0 \/ mtime[p] >= thread[t].seen
          /\ mtime[p] = thread[t].seen =>
               content[p].fails = "no" /\ content[p].sources \subseteq database
      BY <3>1 DEF UpdateOK, Updating
    <3>4. p # None /\ mtime[p] # 0 /\ thread[t].seen >= mtime[p] => mtime[p] = thread[t].seen
      BY <3>2, <3>3
    <3>5. QED
      BY <1>1, <3>1, <3>3, <3>4 DEF Read
  <2>4. QED
    BY <1>4, <2>1, <2>2, <2>3 DEF Request, Parse, Configure, Build, Save, Take, Open, Dump, core
<1>7. Read(cache.state.config_file, cache.state.database)'
  <2>1. CASE UNCHANGED cache
    BY <1>1, <2>1 DEF StateOK, Read
  <2>2. CASE cache' = Torn
    BY <2>2 DEF Read, Torn, NoState, NoConfig, WatchedFile
  <2>3. CASE cache' = Saved(thread[t].state) /\ At(t, "dump")
    <3>1. Read(thread[t].state.config_file, thread[t].state.database)
      BY <2>3 DEF StateOK, At
    <3>2. cache'.state = thread[t].state
      BY <2>3 DEF Saved
    <3>3. QED
      BY <1>1, <3>1, <3>2 DEF Read
  <2>4. QED
    BY <2>1, <2>2, <2>3 DEF Request, Check, Setup, Parse, Configure, Mark, Build, Save, Take, Open, Dump, work_dir
<1>8. thread'[t].pc \in {"dump", "lost"} => Read(thread[t].state.config_file, thread[t].state.database)'
  <2> SUFFICES ASSUME thread'[t].pc \in {"dump", "lost"}
               PROVE  Read(thread[t].state.config_file, thread[t].state.database)'
    OBVIOUS
  <2>1. Open(t) /\ At(t, "open")
    BY <1>3
  <2>2. thread'[t].state.config_file = thread[t].state.config_file
        /\ thread'[t].state.database = database
    BY <1>0, <2>1 DEF Open, Set, Locals, States
  <2>3. Read(thread[t].state.config_file, database)
    BY <2>1 DEF At, Bound, StateOK
  <2>4. QED
    BY <1>1, <2>2, <2>3 DEF Read
<1>9. Bound(t, "open")' => Read(thread[t].state.config_file, database)'
  <2>1. CASE At(t, "take")
    <3>1. UNCHANGED database
      BY <2>1 DEF Request, Check, Parse, Configure, Mark, Build, Save, Take, Open, Dump, At, core
    <3>2. Bound(t, "open")' => thread'[t].state.config_file = config_file
      BY <1>2, <2>1
    <3>3. QED
      BY <1>1, <3>1, <3>2 DEF StateOK, Read
  <2>2. CASE ~ At(t, "take")
    <3>1. Bound(t, "open")' => Bound(t, "open") /\ thread'[t].state = thread[t].state
      BY <1>2, <2>2
    <3>2. QED
      BY <1>1, <1>5, <3>1 DEF StateOK, Read
  <2>3. QED
    BY <2>1, <2>2
<1>10. ASSUME NEW u \in Threads \ {t}
       PROVE  /\ thread'[u].pc \in {"dump", "lost"} =>
                   Read(thread[u].state.config_file, thread[u].state.database)'
              /\ Bound(u, "open")' => Read(thread[u].state.config_file, database)'
  <2>1. thread'[u] = thread[u]
    BY <1>1
  <2>2. Bound(u, "open")' = Bound(u, "open")
    BY <2>1 DEF Bound
  <2>3. /\ thread[u].pc \in {"dump", "lost"} =>
             Read(thread[u].state.config_file, thread[u].state.database)
        /\ Bound(u, "open") => Read(thread[u].state.config_file, database)
    BY DEF StateOK
  <2>4. QED
    BY <1>1, <1>5, <2>1, <2>2, <2>3 DEF Read
<1>11. QED
  BY <1>6, <1>7, <1>8, <1>9, <1>10 DEF StateOK

(* A write takes for unread what it touches. *)
LEMMA ReadWrite ==
  ASSUME Typed, ClockOK, UpdateOK, StateOK, NEW p \in Configs, Write(p)
  PROVE  UpdateOK' /\ StateOK'
<1>0. /\ clock \in Nat /\ mtime \in [Configs -> 0 .. MaxWrites + 1]
      /\ config_file \in [path : Configs \cup {None}, last_read : 0 .. MaxWrites + 1]
      /\ cache.state \in States /\ content \in [Configs -> Contents]
      /\ \A t \in Threads : thread[t].seen \in 0 .. MaxWrites + 1 /\ thread[t].state \in States
      /\ \A t \in Threads : thread[t].pc \in Updating => config_file.path # None
  BY CoreTypes DEF Typed, TypeOK, Locals, Watches
<1>1. UNCHANGED <<config_file, database, cache, thread>>
  BY DEF Write, core, work_dir
<1>2. \A q \in Configs : \/ mtime'[q] = mtime[q] /\ content'[q] = content[q]
                         \/ mtime'[q] = clock + 1
                         \/ mtime'[q] = 0
  BY <1>0 DEF Write
<1>3. ASSUME NEW file \in [path : Configs \cup {None}, last_read : 0 .. MaxWrites + 1], NEW sources,
             file.last_read <= clock, Read(file, sources)
      PROVE  file.path # None /\ mtime'[file.path] # 0 /\ file.last_read >= mtime'[file.path] =>
               content'[file.path].fails = "no" /\ content'[file.path].sources \subseteq sources
  <2>1. file.path # None => file.path \in Configs
    OBVIOUS
  <2>2. file.last_read \in Nat
    BY BoundsAssumption
  <2>3. ~ (file.last_read >= clock + 1)
    BY <1>0, <1>3, <2>2
  <2>4. QED
    BY <1>2, <1>3, <2>1, <2>3 DEF Read
<1>4. UpdateOK'
  <2> SUFFICES ASSUME NEW t \in Threads, thread[t].pc \in Updating
               PROVE  /\ config_file.last_read < thread[t].seen
                      /\ mtime'[config_file.path] = 0 \/ mtime'[config_file.path] >= thread[t].seen
                      /\ thread[t].pc = "configure" /\ mtime'[config_file.path] = thread[t].seen =>
                           thread[t].config = content'[config_file.path]
                      /\ thread[t].pc = "mark" /\ mtime'[config_file.path] = thread[t].seen =>
                           content'[config_file.path].fails = "no"
                           /\ content'[config_file.path].sources \subseteq database
    BY <1>1 DEF UpdateOK
  <2> DEFINE q == config_file.path
  <2>1. q \in Configs /\ thread[t].seen \in 0 .. MaxWrites + 1
    BY <1>0
  <2>2. thread[t].seen <= clock
    BY DEF ClockOK
  <2>3. \/ mtime'[q] = mtime[q] /\ content'[q] = content[q]
        \/ mtime'[q] = clock + 1
        \/ mtime'[q] = 0
    BY <1>2, <2>1
  <2>4. /\ config_file.last_read < thread[t].seen
        /\ mtime[q] = 0 \/ mtime[q] >= thread[t].seen
        /\ thread[t].pc = "configure" /\ mtime[q] = thread[t].seen => thread[t].config = content[q]
        /\ thread[t].pc = "mark" /\ mtime[q] = thread[t].seen =>
             content[q].fails = "no" /\ content[q].sources \subseteq database
    BY DEF UpdateOK
  <2>5. thread[t].seen > 0 /\ clock + 1 > thread[t].seen
    BY <1>0, <2>1, <2>2, <2>4
  <2>6. QED
    BY <1>0, <2>1, <2>3, <2>4, <2>5
<1>5. StateOK'
  <2>1. Read(config_file, database)'
    BY <1>0, <1>1, <1>3 DEF ClockOK, StateOK, Read
  <2>2. Read(cache.state.config_file, cache.state.database)'
    <3>1. cache.state.config_file \in [path : Configs \cup {None}, last_read : 0 .. MaxWrites + 1]
      BY <1>0 DEF States
    <3>2. QED
      BY <1>1, <1>3, <3>1 DEF ClockOK, StateOK, Read
  <2>3. ASSUME NEW t \in Threads
        PROVE  /\ thread'[t].pc \in {"dump", "lost"} =>
                    Read(thread[t].state.config_file, thread[t].state.database)'
               /\ Bound(t, "open")' => Read(thread[t].state.config_file, database)'
    <3>1. thread[t].state.config_file \in [path : Configs \cup {None}, last_read : 0 .. MaxWrites + 1]
          /\ thread[t].state.config_file.last_read <= clock
      BY <1>0 DEF States, ClockOK
    <3>2. Bound(t, "open")' = Bound(t, "open")
      BY <1>1 DEF Bound
    <3>3. QED
      BY <1>1, <1>3, <3>1, <3>2 DEF StateOK, Read
  <2>4. QED
    BY <2>1, <2>2, <2>3 DEF StateOK
<1>6. QED
  BY <1>4, <1>5

(* When nothing is in flight there is only the core and the cache. *)
LEMMA ReadAtRest ==
  ASSUME UNCHANGED <<mtime, content, cache>>, StateOK, Read(config_file, database)',
         \A t \in Threads : thread'[t].pc \in {"idle", "update"} /\ ~ Bound(t, "open")'
  PROVE  UpdateOK' /\ StateOK'
<1>1. Read(cache.state.config_file, cache.state.database)'
  BY DEF StateOK, Read
<1>2. QED
  BY <1>1 DEF UpdateOK, StateOK, Updating

LEMMA ReadStep ==
  ASSUME ~ SharedEarly, ReadInv, LibrariesInv', [Next]_vars
  PROVE  ReadInv'
<1>0. /\ Typed /\ Typed' /\ ClockOK /\ ClockOK' /\ thread \in [Threads -> Locals]
      /\ mtime \in [Configs -> 0 .. MaxWrites + 1]
  BY ClockStep DEF Typed, ReadInv, TypeOK, LibrariesInv
<1> SUFFICES ASSUME ~ unnoticed' PROVE UpdateOK' /\ StateOK'
  BY <1>0 DEF ReadInv, LibrariesInv
<1>1. ~ unnoticed
  BY DEF Next, Start, Lints, Lint, SetConfig, Requests, Request, Check, Setup, Parse,
     Configure, Mark, Build, Save, Take, Open, Dump, Crash, Write, Remove, vars, work_dir
<1>2. FolderOK /\ UpdateOK /\ StateOK
  BY <1>1 DEF ReadInv
<1>3. AtRest.pc = "idle" /\ AtRest \in Locals
  BY StartTypes DEF AtRest
<1>4. ASSUME NEW p \in Configs, Write(p) PROVE UpdateOK' /\ StateOK'
  BY <1>0, <1>2, <1>4, ReadWrite
<1>5. ASSUME NEW t \in Threads, Request(t) PROVE UpdateOK' /\ StateOK'
  BY <1>0, <1>2, <1>5, UpdateRequest, StateRequest
<1>6. CASE Remove
  <2>1. \A t \in Threads : /\ thread'[t].pc = (IF thread[t].pc = "dump" THEN "lost" ELSE thread[t].pc)
                           /\ thread'[t].after = thread[t].after /\ thread'[t].state = thread[t].state
                           /\ thread'[t].seen = thread[t].seen /\ thread'[t].config = thread[t].config
    BY <1>0, <1>6 DEF Remove, Locals
  <2>2. UNCHANGED <<mtime, content, config_file, database>> /\ cache' = NoCache
    BY <1>6 DEF Remove, disk, core
  <2>3. UpdateOK'
    BY <1>2, <2>1, <2>2 DEF UpdateOK, Updating
  <2>4. Read(cache.state.config_file, cache.state.database)'
    BY <2>2 DEF Read, NoCache, NoState, NoConfig, WatchedFile
  <2>5. ASSUME NEW t \in Threads
        PROVE  /\ thread'[t].pc \in {"dump", "lost"} =>
                    Read(thread[t].state.config_file, thread[t].state.database)'
               /\ Bound(t, "open")' => Read(thread[t].state.config_file, database)'
    <3>1. Bound(t, "open")' => Bound(t, "open")
      BY <2>1 DEF Bound, Updating
    <3>2. thread'[t].pc \in {"dump", "lost"} => thread[t].pc \in {"dump", "lost"}
      BY <2>1
    <3>3. QED
      BY <1>2, <2>1, <2>2, <3>1, <3>2 DEF StateOK, Read
  <2>6. Read(config_file, database)'
    BY <1>2, <2>2 DEF StateOK, Read
  <2>7. QED
    BY <2>3, <2>4, <2>5, <2>6 DEF StateOK
<1>7. CASE Crash
  <2>1. UNCHANGED <<mtime, content, cache>> /\ config_file' = NoConfig
        /\ thread' = [t \in Threads |-> AtRest]
    BY <1>7 DEF Crash, disk, work_dir
  <2>2. Read(config_file, database)'
    BY <2>1 DEF Read, NoConfig, WatchedFile
  <2>3. \A t \in Threads : thread'[t].pc = "idle" /\ ~ Bound(t, "open")'
    BY <1>3, <2>1 DEF Bound, Updating
  <2>4. QED
    BY <1>2, <2>1, <2>2, <2>3, ReadAtRest
<1>8. CASE Start
  <2>1. UNCHANGED <<mtime, content, cache, thread>> /\ ~ up
    BY <1>8 DEF Start, disk
  <2>2. \A t \in Threads : thread'[t].pc = "idle" /\ ~ Bound(t, "open")'
    BY <1>0, <2>1 DEF Typed, Watches, Bound, Updating
  <2>3. PICK s \in {NoState, cache.state} : config_file' = s.config_file /\ database' = s.database
    BY <1>8 DEF Start
  <2>4. Read(s.config_file, s.database)
    BY <1>2 DEF StateOK, Read, NoState, NoConfig, WatchedFile
  <2>5. Read(config_file, database)'
    BY <2>1, <2>3, <2>4 DEF Read
  <2>6. QED
    BY <1>2, <2>1, <2>2, <2>5, ReadAtRest
<1>9. ASSUME NEW t \in Threads, NEW p \in Configs, SetConfig(t, p) PROVE UpdateOK' /\ StateOK'
  <2>1. \A u \in Threads : thread[u].pc = "idle"
    BY <1>9 DEF SetConfig, Idle, At
  <2>2. UNCHANGED <<mtime, content, cache, database>> /\ config_file' = WatchedFile(p, 0)
        /\ mtime[p] # 0 /\ Set(t, Access(AtRest, "idle"))
    BY <1>9 DEF SetConfig, disk, work_dir
  <2>3. \A u \in Threads : thread'[u].pc = "idle" \/ (thread'[u].pc = "update" /\ thread'[u].after = "idle")
    BY <1>0, <1>3, <2>1, <2>2 DEF Set, Access, Locals
  <2>4. Read(config_file, database)'
    <3>1. mtime[p] \in 0 .. MaxWrites + 1
      BY <1>0
    <3>2. ~ (0 >= mtime[p])
      BY <2>2, <3>1
    <3>3. QED
      BY <2>2, <3>2 DEF Read, WatchedFile
  <2>5. \A u \in Threads : thread'[u].pc \in {"idle", "update"} /\ ~ Bound(u, "open")'
    BY <2>3 DEF Bound, Updating
  <2>6. QED
    BY <1>2, <2>2, <2>4, <2>5, ReadAtRest
<1>10. ASSUME NEW t \in Threads, NEW text \in BOOLEAN, Lint(t, text) PROVE UpdateOK' /\ StateOK'
  <2>1. UNCHANGED <<mtime, content, cache, config_file, database>>
    BY <1>10 DEF Lint, disk, work_dir, core
  <2>2. thread'[t].pc = "update" /\ thread'[t].after = "build"
        /\ \A u \in Threads \ {t} : thread'[u] = thread[u]
    <3>1. thread'[t].after = "build"
      BY <1>0, <1>3, <1>10 DEF Lint, Set, Access, Locals
    <3>2. QED
      BY <1>0, <1>10, <3>1, StartMoves DEF Typed
  <2>3. ~ Bound(t, "open")' /\ thread'[t].pc \notin Updating \cup {"dump", "lost"}
    BY <2>2 DEF Bound, Updating
  <2>4. UpdateOK'
    BY <1>2, <2>1, <2>2, <2>3 DEF UpdateOK
  <2>5. ASSUME NEW u \in Threads \ {t}
        PROVE  /\ thread'[u].pc \in {"dump", "lost"} =>
                    Read(thread[u].state.config_file, thread[u].state.database)'
               /\ Bound(u, "open")' => Read(thread[u].state.config_file, database)'
    <3>1. Bound(u, "open")' = Bound(u, "open") /\ thread'[u] = thread[u]
      BY <2>2 DEF Bound
    <3>2. QED
      BY <1>2, <2>1, <3>1 DEF StateOK, Read
  <2>6. Read(config_file, database)' /\ Read(cache.state.config_file, cache.state.database)'
    BY <1>2, <2>1 DEF StateOK, Read
  <2>7. QED
    BY <2>3, <2>4, <2>5, <2>6 DEF StateOK
<1>11. CASE UNCHANGED vars
  <2>1. UNCHANGED <<mtime, content, cache, config_file, database, thread>>
    BY <1>11 DEF vars, disk, work_dir, core
  <2>2. UpdateOK' = UpdateOK
    BY <2>1 DEF UpdateOK
  <2>3. StateOK' = StateOK
    BY <2>1 DEF StateOK, Read, Bound
  <2>4. QED
    BY <1>2, <2>2, <2>3
<1>12. QED
  BY <1>4, <1>5, <1>6, <1>7, <1>8, <1>9, <1>10, <1>11 DEF Next, Lints, Requests

(* In the HTTP server, where setConfig comes before any other use of a     *)
(* core: a configuration file that is taken for read has been, and all its *)
(* sources are in the database: through writes while it is read,           *)
(* exceptions half-way, a folder removed, crashes and the cache            *)
(* (core.py:187-213).                                                      *)
THEOREM WhatIsTakenForReadIsRead ==
  ASSUME ~ SharedEarly
  PROVE  Spec => []TakenForReadIsRead
<1>1. Init => ClockOK /\ UpdateOK /\ StateOK
  <2> SUFFICES ASSUME Init PROVE ClockOK /\ UpdateOK /\ StateOK
    OBVIOUS
  <2>1. /\ \A p \in Configs : mtime[p] \in {0, 1}
        /\ clock = 1 /\ cache = NoCache /\ config_file = NoConfig
        /\ \A t \in Threads : thread[t] = AtRest
    BY DEF Init
  <2>2. AtRest.pc = "idle" /\ AtRest.seen = 0 /\ AtRest.state = NoState /\ AtRest.after = "idle"
    BY DEF AtRest
  <2>3. QED
    BY <2>1, <2>2 DEF ClockOK, UpdateOK, StateOK, Read, Bound, Updating, NoCache, NoState, NoConfig, WatchedFile
<1>2. LibrariesInv /\ (ClockOK /\ UpdateOK /\ StateOK) => ReadInv
  BY DEF LibrariesInv, ReadInv
<1>3. ReadInv /\ LibrariesInv' /\ [Next]_vars => ReadInv'
  BY ReadStep
<1>4. ReadInv => TakenForReadIsRead
  BY DEF ReadInv, TakenForReadIsRead, StateOK, Read, Configured
<1>5. QED
  BY <1>1, <1>2, <1>3, <1>4, LibrariesAlways, PTL DEF Spec
=============================================================================
