---------------------------- MODULE CheckerCore ----------------------------
(***************************************************************************)
(* HdlCheckerCore: the configuration file it watches, the working folder   *)
(* with the builder's libraries and cache.json in it, and the threads that *)
(* use one core at once.                                                   *)
(*                                                                         *)
(* Every access to the properties builder and database runs                *)
(* _updateConfigIfNeeded first, under the core's lock: a missing folder    *)
(* begins everything afresh, a configuration file newer than the one read  *)
(* is read.  The lock is released before the property returns, setConfig   *)
(* does not take it, and getMessagesWithText keeps it for a whole lint.    *)
(*                                                                         *)
(* A lint updates, builds, updates and saves the cache.  The user writes   *)
(* and deletes configuration files and removes the folder (so does         *)
(* rebuild_project, by clean) at any moment; the process may be killed at  *)
(* any moment and starts again from the cache.                             *)
(***************************************************************************)
EXTENDS Naturals, FiniteSets

CONSTANTS
  Threads,
  Configs,      (* paths of configuration files                              *)
  Contents,     (* what may be written there: the sources listed, and        *)
                (* whether reading or applying it raises an exception        *)
  MaxWrites,    (* bound: configuration files written or deleted             *)
  MaxRemovals,  (* bound: removals of the folder                             *)
  MaxCrashes,   (* bound: crashes                                            *)
  SharedEarly,  (* others may use a core before setConfig is called, as in   *)
                (* the language server but not in the HTTP server            *)
  None

Fails == {"no", "parse", "configure"}

ASSUME ContentsAssumption == \A c \in Contents : c.fails \in Fails
ASSUME NoneAssumption == None \notin Threads \cup Configs
ASSUME BoundsAssumption == {MaxWrites, MaxRemovals, MaxCrashes} \subseteq Nat

VARIABLES
  mtime,        (* of each configuration file; 0: there is none              *)
  content,      (* of each configuration file                                *)
  clock,        (* the mtime of the last write                               *)
  folder,       (* work_dir exists                                           *)
  libs,         (* and has the builder's libraries in it                     *)
  cache,        (* and what cache.json has in it                             *)
  removals, crashes,
  up,           (* the process is running                                    *)
  shared,       (* some thread has used this core                            *)
  configured,   (* setConfig has been called: once for each core             *)
  config_file,  (* WatchedFile                                               *)
  database,     (* the sources in it                                         *)
  builder,      (* a real one or Fallback; whether it has _added_libraries   *)
  owner,        (* of the RLock                                              *)
  thread,       (* what each thread is at                                    *)
  unnoticed     (* history: the folder was removed while a thread had part   *)
                (* of the state to save but had not yet opened the file      *)

disk     == <<mtime, content, clock>>
work_dir == <<folder, libs, cache, removals, unnoticed>>
process  == <<up, shared, configured, crashes>>
core     == <<config_file, database, builder>>
vars     == <<disk, work_dir, process, core, owner, thread>>

WatchedFile(p, t) == [path |-> p, last_read |-> t]
NoConfig == WatchedFile(None, 0)
Fallback == [real |-> FALSE, added |-> FALSE]
NoState  == [config_file |-> NoConfig, database |-> {}, builder |-> Fallback]
NoCache  == [kind |-> "none", state |-> NoState]
Torn     == [kind |-> "torn", state |-> NoState]
Saved(s) == [kind |-> "saved", state |-> s]

(* A thread: its place, where it goes after an update, whether it runs     *)
(* getMessagesWithText; file_mtime and config; the state it will dump.     *)
AtRest ==
  [pc |-> "idle", after |-> "idle", text |-> FALSE, seen |-> 0,
   config |-> [sources |-> {}, fails |-> "no"], state |-> NoState]

-----------------------------------------------------------------------------
Init ==
  /\ mtime \in [Configs -> {0, 1}] /\ content \in [Configs -> Contents] /\ clock = 1
  /\ folder = FALSE /\ libs = FALSE /\ cache = NoCache
  /\ removals = 0 /\ crashes = 0 /\ unnoticed = FALSE
  /\ up = FALSE /\ shared = FALSE /\ configured = FALSE
  /\ config_file = NoConfig /\ database = {} /\ builder = Fallback
  /\ owner = None
  /\ thread = [t \in Threads |-> AtRest]

(* The user writes a configuration file, or deletes it. *)
Write(p) ==
  /\ clock <= MaxWrites
  /\ clock' = clock + 1
  /\ \/ /\ mtime' = [mtime EXCEPT ![p] = clock']
        /\ \E c \in Contents : content' = [content EXCEPT ![p] = c]
     \/ mtime[p] # 0 /\ mtime' = [mtime EXCEPT ![p] = 0] /\ UNCHANGED content
  /\ UNCHANGED <<work_dir, process, core, owner, thread>>

(* From the end of the build to the opening of the cache. *)
Saving(t) ==
  \/ thread[t].pc \in {"take", "open"}
  \/ thread[t].after \in {"take", "open"}

(* A cache that is open is written all the same, but nobody will find it.  *)
Remove ==
  /\ folder /\ removals < MaxRemovals
  /\ removals' = removals + 1
  /\ unnoticed' = (unnoticed \/ \E t \in Threads : Saving(t))
  /\ folder' = FALSE /\ libs' = FALSE /\ cache' = NoCache
  /\ thread' = [t \in Threads |->
       [thread[t] EXCEPT !.pc = IF @ = "dump" THEN "lost" ELSE @]]
  /\ UNCHANGED <<disk, process, core, owner>>

Crash ==
  /\ up /\ crashes < MaxCrashes
  /\ crashes' = crashes + 1
  /\ up' = FALSE /\ shared' = FALSE /\ configured' = FALSE
  /\ owner' = None /\ thread' = [t \in Threads |-> AtRest]
  /\ config_file' = NoConfig /\ database' = {} /\ builder' = Fallback
  /\ UNCHANGED <<disk, work_dir>>

(* __init__: _setupIfNeeded and _recoverCacheIfPossible, which ignores a   *)
(* cache that cannot be read or that another version has written.          *)
Start ==
  /\ ~ up
  /\ up' = TRUE
  /\ folder' = TRUE
  /\ \E s \in {NoState, cache.state} :
       config_file' = s.config_file /\ database' = s.database /\ builder' = s.builder
  /\ UNCHANGED <<disk, libs, cache, removals, unnoticed, shared, configured, crashes,
                 owner, thread>>

-----------------------------------------------------------------------------
At(t, place) == thread[t].pc = place
Set(t, changed) == thread' = [thread EXCEPT ![t] = changed]

Go(t, place) == Set(t, [thread[t] EXCEPT !.pc = place]) /\ UNCHANGED owner

(* An access to builder or database, then place. *)
Access(local, place) == [local EXCEPT !.pc = "update", !.after = place]

(* The request ends, or dies of an exception. *)
End(t) ==
  /\ Set(t, AtRest)
  /\ owner' = IF owner = t THEN None ELSE owner

(* The property returns, after the lock has been released. *)
Return(t) ==
  IF thread[t].after = "idle" THEN End(t)
  ELSE /\ Set(t, [AtRest EXCEPT !.pc = thread[t].after, !.text = thread[t].text,
                                !.state = thread[t].state])
       /\ owner' = IF thread[t].text THEN t ELSE None

Idle(t) ==
  /\ up /\ At(t, "idle")
  /\ SharedEarly \/ shared \/ \A u \in Threads : At(u, "idle")

(* getMessagesByPath, or getMessagesWithText, which takes the lock. *)
Lint(t, with_text) ==
  /\ Idle(t)
  /\ shared' = TRUE
  /\ with_text => owner = None
  /\ owner' = IF with_text THEN t ELSE owner
  /\ Set(t, Access([AtRest EXCEPT !.text = with_text], "build"))
  /\ UNCHANGED <<disk, work_dir, up, configured, crashes, core>>

(* setConfig, which changes nothing if the file is missing (it raises) or  *)
(* if its path is the one being watched.                                   *)
SetConfig(t, p) ==
  /\ Idle(t) /\ ~ configured /\ (SharedEarly \/ ~ shared)
  /\ configured' = TRUE
  /\ mtime[p] # 0 /\ config_file.path # p
  /\ config_file' = WatchedFile(p, 0)
  /\ Set(t, Access(AtRest, "idle"))
  /\ UNCHANGED <<disk, work_dir, up, shared, crashes, database, builder, owner>>

(* Slip: a folder that is missing is made again, and that is all. *)
MakeFolder ==
  folder' = TRUE /\ UNCHANGED <<libs, cache, removals, unnoticed, database, builder>>

(* _setupIfNeeded; forgets what has been read of the configuration. *)
Setup ==
  /\ folder' = TRUE /\ UNCHANGED <<libs, cache, removals, unnoticed>>
  /\ IF folder THEN UNCHANGED <<database, builder>>
     ELSE database' = {} /\ builder' = Fallback

(* Slip: what has been read is not forgotten. *)
LastReadEver == config_file.last_read

last_read == IF folder THEN config_file.last_read ELSE 0

(* _updateConfigIfNeeded as far as the comparison of mtimes, which raises  *)
(* if the file is missing.                                                 *)
Check(t) ==
  /\ At(t, "update") /\ owner \in {None, t}
  /\ Setup
  /\ LET p == config_file.path
     IN /\ config_file' = WatchedFile(p, last_read)
        /\ IF p # None /\ mtime[p] = 0 THEN End(t)
           ELSE IF p = None \/ last_read >= mtime[p] THEN Return(t)
           ELSE /\ owner' = t
                /\ Set(t, [thread[t] EXCEPT !.pc = "parse", !.seen = mtime[p]])
  /\ UNCHANGED <<disk, process>>

(* json.load or ConfigParser. *)
Parse(t) ==
  /\ At(t, "parse")
  /\ LET p == config_file.path
     IN IF mtime[p] = 0 \/ content[p].fails = "parse" THEN End(t)
        ELSE /\ Set(t, [thread[t] EXCEPT !.pc = "configure", !.config = content[p]])
             /\ UNCHANGED owner
  /\ UNCHANGED <<disk, work_dir, process, core>>

(* configure: a new builder, then the sources one by one; those added      *)
(* before an exception stay.                                               *)
Configure(t) ==
  /\ At(t, "configure")
  /\ builder' = [real |-> TRUE, added |-> FALSE]
  /\ LET c == thread[t].config
     IN IF c.fails = "no" THEN database' = database \cup c.sources /\ Go(t, "mark")
        ELSE End(t) /\ \E some \in SUBSET c.sources : database' = database \cup some
  /\ UNCHANGED <<disk, work_dir, process, config_file>>

(* Slip: the mtime is read after the file has been. *)
MarkWithLatest(t) ==
  /\ At(t, "mark")
  /\ config_file' = [config_file EXCEPT !.last_read = mtime[config_file.path]]
  /\ Return(t)
  /\ UNCHANGED <<disk, work_dir, process, database, builder>>

(* The path is that of config_file by now, the mtime of the one read. *)
Mark(t) ==
  /\ At(t, "mark")
  /\ config_file' = WatchedFile(config_file.path, thread[t].seen)
  /\ Return(t)
  /\ UNCHANGED <<disk, work_dir, process, database, builder>>

-----------------------------------------------------------------------------
(* _createLibraryIfNeeded: remembered first, created then, with the folder *)
(* if need be (ghdl) or not at all if it is missing (the others).          *)
Build(t) ==
  /\ At(t, "build")
  /\ IF builder.added \/ ~ builder.real
     THEN UNCHANGED <<folder, libs, builder>> /\ Go(t, "built")
     ELSE /\ builder' = [builder EXCEPT !.added = TRUE]
          /\ \/ folder' = TRUE /\ libs' = TRUE /\ Go(t, "built")
             \/ ~ folder /\ UNCHANGED <<folder, libs>> /\ End(t)
  /\ UNCHANGED <<disk, process, cache, removals, unnoticed, config_file, database>>

(* _saveCache: an access to builder, config_file, an access to database. *)
Save(t) ==
  /\ At(t, "built")
  /\ Set(t, Access(thread[t], "take"))
  /\ UNCHANGED <<disk, work_dir, process, core, owner>>

Take(t) ==
  /\ At(t, "take")
  /\ LET taken == [config_file |-> config_file, database |-> {}, builder |-> builder]
     IN Set(t, Access([thread[t] EXCEPT !.state = taken], "open"))
  /\ UNCHANGED <<disk, work_dir, process, core, owner>>

(* Makes the folder if there is none, and empties the file. *)
Open(t) ==
  /\ At(t, "open")
  /\ Set(t, [thread[t] EXCEPT !.pc = "dump", !.state.database = database])
  /\ folder' = TRUE /\ cache' = Torn
  /\ UNCHANGED <<disk, libs, removals, unnoticed, process, core, owner>>

(* json.dump; with two threads at it, or with an exception half-way, the   *)
(* file cannot be read back.                                               *)
Dump(t) ==
  /\ \/ At(t, "dump") /\ cache' \in {Torn, Saved(thread[t].state)}
     \/ At(t, "lost") /\ UNCHANGED cache
  /\ End(t)
  /\ UNCHANGED <<disk, folder, libs, removals, unnoticed, process, core>>

Request(t) ==
  \/ Check(t) \/ Parse(t) \/ Configure(t) \/ Mark(t)
  \/ Build(t) \/ Save(t) \/ Take(t) \/ Open(t) \/ Dump(t)

Lints == \E t \in Threads, with_text \in BOOLEAN : Lint(t, with_text)

Requests == \E t \in Threads : Request(t)

Next ==
  \/ Start \/ Lints \/ Requests \/ Crash \/ Remove
  \/ \E p \in Configs : Write(p) \/ \E t \in Threads : SetConfig(t, p)

Spec == Init /\ [][Next]_vars

(* The process is started again, files keep being linted, requests go on. *)
FairSpec == Spec /\ WF_vars(Start) /\ WF_vars(Lints) /\ WF_vars(Requests)

-----------------------------------------------------------------------------
Sources == UNION {c.sources : c \in Contents}
States ==
  [config_file : [path : Configs \cup {None}, last_read : 0 .. MaxWrites + 1],
   database : SUBSET Sources, builder : [real : BOOLEAN, added : BOOLEAN]]
Updating == {"parse", "configure", "mark"}
Places == {"idle", "update", "build", "built", "take", "open", "dump", "lost"} \cup Updating
Rest == {"idle", "build", "take", "open"}
Locals ==
  [pc : Places, after : Rest, text : BOOLEAN, seen : 0 .. MaxWrites + 1,
   config : Contents \cup {AtRest.config}, state : States]

(* Types; whoever is in the middle of an update owns the lock.             *)
TypeOK ==
  /\ mtime \in [Configs -> 0 .. MaxWrites + 1] /\ content \in [Configs -> Contents]
  /\ clock \in 1 .. MaxWrites + 1
  /\ {folder, libs, up, shared, configured, unnoticed} \subseteq BOOLEAN
  /\ cache \in [kind : {"none", "torn", "saved"}, state : States]
  /\ removals \in 0 .. MaxRemovals /\ crashes \in 0 .. MaxCrashes
  /\ [config_file |-> config_file, database |-> database, builder |-> builder] \in States
  /\ owner \in Threads \cup {None}
  /\ thread \in [Threads -> Locals]
  /\ \A t \in Threads : thread[t].pc \in Updating => owner = t

Configured ==
  LET p == config_file.path
  IN content[p].fails = "no" /\ content[p].sources \subseteq database

(* When the file is taken for read, whoever runs next gets a database with *)
(* all its sources: through writes while it is read, exceptions half-way,  *)
(* a folder removed, a crash and a cache written earlier (core.py:187-213).*)
TakenForReadIsRead ==
  LET p == config_file.path
  IN /\ up /\ ~ unnoticed /\ p # None
     /\ \A t \in Threads : thread[t].pc \notin Updating
     /\ mtime[p] # 0 /\ config_file.last_read >= mtime[p]
     => Configured

(* A builder that remembers creating its libraries finds them, unless the  *)
(* folder is missing and the next update will notice, or _saveCache has    *)
(* made it again before anyone noticed: it is then never set up, as long   *)
(* as the cache lasts (core.py:274-275, 337-338).                          *)
LibrariesExist == up /\ ~ unnoticed /\ folder /\ builder.added => libs

(* Whatever happened, files that keep being linted get a database with the *)
(* sources of the configuration, if that exists and can be applied.        *)
EventuallyConfigured ==
  <>[](up /\ config_file.path # None =>
         LET p == config_file.path
         IN unnoticed \/ mtime[p] = 0 \/ content[p].fails # "no" \/ Configured)
=============================================================================
