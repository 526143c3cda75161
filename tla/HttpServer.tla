----------------------------- MODULE HttpServer -----------------------------
(***************************************************************************)
(* The HTTP server: the dict servers, which holds a core (a Server object) *)
(* for each project, and the threads of waitress, which handle a request   *)
(* each and share the dict without a lock.                                 *)
(*                                                                         *)
(* The dict's key is the folder of the project file, its root.  A request  *)
(* looks the root up, creates a core if there is none and gets the core    *)
(* from the dict.  Then a lint updates the core and saves its cache,       *)
(* get_ui_messages empties the core's queue, rebuild_project removes the   *)
(* core's working folder and its entry of the dict and looks up again.     *)
(*                                                                         *)
(* Two cores made for one root use one working folder, each under a lock   *)
(* of its own.  A core that cannot be created is replaced by Server(None), *)
(* which works without a configuration; its own folder is left out.        *)
(*                                                                         *)
(* Of what a core knows and a cache has, only its age is kept: whether it  *)
(* was begun after the last rebuild of the folder, or is stale.            *)
(*                                                                         *)
(* What happens inside a core is the matter of CheckerCore and Rebuild;    *)
(* here an update of its configuration is one step, except in __init__,    *)
(* where the steps on the folder are what can fail.                        *)
(***************************************************************************)
EXTENDS Naturals, FiniteSets

CONSTANTS
  Threads,      (* of waitress                                               *)
  Roots,        (* folders that have a project file                          *)
  None,
  MaxCores,     (* bound: cores in the dict or in the hands of a thread      *)
  MaxMessages   (* bound: messages for the user                              *)

ASSUME BoundsAssumption == {MaxCores, MaxMessages} \subseteq Nat
ASSUME NoneAssumption == None \notin Roots \cup {"stale", "fresh"}

Cores   == 1 .. MaxCores
Requests == {"lint", "get_ui_messages", "rebuild_project"}
Second   == "rebuilt"   (* rebuild_project, in its second look-up *)

VARIABLES
  exists,    (* whether the project file of a root is there                  *)
  servers,   (* the dict: a core for each root, or 0                         *)
  core,      (* each core that is not yet garbage: its root_dir, whether it  *)
             (* has a config_file, whether what it knows is stale, and how   *)
             (* many messages wait in its _msg_queue                         *)
  told,      (* messages put so far                                          *)
  folder,    (* whether a root's work_dir exists                             *)
  cache,     (* its cache.json: None, or with data that are stale or fresh   *)
  overlapped,(* history: roots last rebuilt during another's request         *)
  thread     (* the request of each thread and what it is at                 *)

cores == <<core, told>>
disk  == <<folder, cache, overlapped>>
vars  == <<exists, servers, cores, disk, thread>>

(* alone is history: no other request for the root has been seen; raised,  *)
(* the last exception met; server, the core in hand; state, the data       *)
(* _saveCache will write.                                                  *)
Idle == [pc |-> "idle", request |-> "lint", root |-> None, server |-> 0,
         state |-> "fresh", raised |-> "none", alone |-> TRUE]

Init ==
  /\ exists \in [Roots -> BOOLEAN]
  /\ servers = [r \in Roots |-> 0]
  /\ core = [c \in {} |-> 0] /\ told = 0
  /\ folder \in [Roots -> BOOLEAN]
  /\ cache = [r \in Roots |-> IF folder[r] THEN "fresh" ELSE None]
  /\ overlapped = {}
  /\ thread = [t \in Threads |-> Idle]

(* The user creates or deletes a project file. *)
Edit(r) ==
  /\ exists' = [exists EXCEPT ![r] = ~ @]
  /\ UNCHANGED <<servers, cores, disk, thread>>

-----------------------------------------------------------------------------
At(t, place) == thread[t].pc = place
Set(t, changed) == thread' = [thread EXCEPT ![t] = changed]
Go(t, place) == Set(t, [thread[t] EXCEPT !.pc = place])

(* What is left of the cores once nobody refers to some of them. *)
Live == {servers[r] : r \in Roots} \cup {thread[t].server : t \in Threads}
Collect(some) == core' = [c \in DOMAIN some \cap Live' |-> some[c]]

(* t goes on without a core in hand. *)
Leave(t, place) ==
  Set(t, [thread[t] EXCEPT !.pc = place, !.server = 0]) /\ Collect(core)

(* There is an answer, or an exception that bottle turns into an error. *)
Reply(t, exception, some) ==
  /\ Set(t, [Idle EXCEPT !.pc = "answer", !.root = thread[t].root,
                         !.alone = thread[t].alone, !.raised = exception])
  /\ Collect(some)

Others(t, r) == {u \in Threads \ {t} : ~ At(u, "idle") /\ thread[u].root = r}

(* A request arrives. *)
Request(t, r, request) ==
  /\ At(t, "idle")
  /\ thread' = [u \in Threads |->
       IF u = t THEN [Idle EXCEPT !.pc = "lookup", !.request = request, !.root = r,
                                  !.alone = (Others(t, r) = {})]
       ELSE IF u \in Others(t, r) THEN [thread[u] EXCEPT !.alone = FALSE]
       ELSE thread[u]]
  /\ UNCHANGED <<exists, servers, cores, disk>>

(* The answer is sent. *)
Answer(t) ==
  /\ At(t, "answer")
  /\ Set(t, Idle)
  /\ UNCHANGED <<exists, servers, cores, disk>>

(* A new Server(root_dir), in place of the core in hand if there is one:   *)
(* a new Database and a Fallback builder.                                  *)
Construct(t, dir, changed) ==
  LET held == {servers[r] : r \in Roots} \cup {thread[u].server : u \in Threads \ {t}}
      new  == [root_dir |-> dir, config |-> FALSE, stale |-> FALSE, queue |-> 0]
  IN
  \E c \in Cores \ held :
    /\ \A d \in Cores \ held : c <= d
    /\ Set(t, [changed EXCEPT !.server = c])
    /\ UNCHANGED <<servers, told>>
    /\ Collect([d \in DOMAIN core \cup {c} |-> IF d = c THEN new ELSE core[d]])

(* if root_dir not in servers. *)
Lookup(t) ==
  /\ At(t, "lookup")
  /\ \/ servers[thread[t].root] # 0 /\ Go(t, "get") /\ UNCHANGED cores
     \/ /\ servers[thread[t].root] = 0
        /\ Construct(t, thread[t].root, [thread[t] EXCEPT !.pc = "setup"])
  /\ UNCHANGED <<exists, servers, disk>>

(* return servers[root_dir]. *)
GetServer(t) ==
  LET c == servers[thread[t].root]
      place == [lint |-> "lint", get_ui_messages |-> "empty", rebuild_project |-> "rebuild"]
  IN
  /\ At(t, "get")
  /\ UNCHANGED <<exists, servers, told, disk>>
  /\ \/ c = 0 /\ Reply(t, "KeyError", core)
     \/ c # 0 /\ thread[t].request = Second /\ Reply(t, thread[t].raised, core)
     \/ /\ c # 0 /\ thread[t].request # Second
        /\ Set(t, [thread[t] EXCEPT !.server = c, !.pc = place[thread[t].request]])
        /\ UNCHANGED core

-----------------------------------------------------------------------------
(* An OSError while a core is being created: Server(None) instead. *)
OSError(t, exception) ==
  Construct(t, None, [thread[t] EXCEPT !.pc = "store", !.raised = exception])

(* There may be something to tell the user: sources added, a cache that    *)
(* cannot be read, a file that cannot be built.                            *)
Tell(changed, c) ==
  \/ core' = changed /\ UNCHANGED told
  \/ /\ told < MaxMessages
     /\ told' = told + 1 /\ core' = [changed EXCEPT ![c].queue = @ + 1]

(* Slip: the folder is not looked for before it is made. *)
SetupAnyway(t) ==
  /\ At(t, "setup")
  /\ Go(t, "makedirs")
  /\ UNCHANGED <<exists, servers, cores, disk>>

(* __init__, _setupIfNeeded: does the folder exist? *)
Setup(t) ==
  /\ At(t, "setup")
  /\ Go(t, IF folder[thread[t].root] THEN "recover" ELSE "clean")
  /\ UNCHANGED <<exists, servers, cores, disk>>

(* It did not, but it may by now. *)
Clean(t) ==
  LET r == thread[t].root IN
  /\ At(t, "clean")
  /\ folder' = [folder EXCEPT ![r] = FALSE] /\ cache' = [cache EXCEPT ![r] = None]
  /\ Go(t, "makedirs")
  /\ UNCHANGED <<exists, servers, cores, overlapped>>

(* os.makedirs, and a Database that is new once more. *)
MakeDirs(t) ==
  LET r == thread[t].root IN
  /\ At(t, "makedirs")
  /\ \/ folder[r] /\ OSError(t, "FileExistsError") /\ UNCHANGED folder
     \/ /\ ~ folder[r]
        /\ folder' = [folder EXCEPT ![r] = TRUE]
        /\ core' = [core EXCEPT ![thread[t].server].stale = FALSE]
        /\ Go(t, "recover")
        /\ UNCHANGED <<servers, told>>
  /\ UNCHANGED <<exists, cache, overlapped>>

(* _recoverCacheIfPossible, which ignores a cache it cannot read. *)
Recover(t) ==
  LET c == thread[t].server  r == thread[t].root IN
  /\ At(t, "recover")
  /\ \/ Tell(core, c)
     \/ /\ cache[r] # None
        /\ core' = [core EXCEPT ![c].stale = (cache[r] = "stale"), ![c].config = TRUE]
        /\ UNCHANGED told
  /\ Go(t, "config")
  /\ UNCHANGED <<exists, servers, disk>>

(* _updateConfigIfNeeded, under the core's lock: if the folder is missing  *)
(* everything begins afresh.                                               *)
Renewed(t) ==
  [core EXCEPT ![thread[t].server].config = TRUE,
               ![thread[t].server].stale = @ /\ folder[thread[t].root]]

(* setConfig: it does nothing if the file is the recovered one.  A file    *)
(* that cannot be read or applied ends the request.                        *)
SetConfig(t) ==
  LET c == thread[t].server  r == thread[t].root IN
  /\ At(t, "config")
  /\ UNCHANGED <<exists, servers, cache, overlapped>>
  /\ \/ ~ exists[r] /\ OSError(t, "FileNotFoundError") /\ UNCHANGED folder
     \/ exists[r] /\ core[c].config /\ Go(t, "store") /\ UNCHANGED <<cores, folder>>
     \/ /\ exists[r] /\ ~ core[c].config
        /\ folder' = [folder EXCEPT ![r] = TRUE]
        /\ \/ Go(t, "store") /\ Tell(Renewed(t), c)
           \/ Reply(t, "BadConfig", core) /\ UNCHANGED told

(* servers[root_dir] = project. *)
Store(t) ==
  /\ At(t, "store")
  /\ servers' = [servers EXCEPT ![thread[t].root] = thread[t].server]
  /\ Leave(t, "get")
  /\ UNCHANGED <<exists, told, disk>>

-----------------------------------------------------------------------------
(* A lint: an update, and the state that will be saved.  The fallback has  *)
(* no configuration to update from, and saves its cache elsewhere.         *)
Lint(t) ==
  LET c == thread[t].server  r == thread[t].root IN
  /\ At(t, "lint")
  /\ UNCHANGED <<exists, servers, cache, overlapped>>
  /\ \/ /\ ~ core[c].config
        /\ Reply(t, thread[t].raised, core)
        /\ UNCHANGED <<told, folder>>
     \/ /\ core[c].config
        /\ folder' = [folder EXCEPT ![r] = TRUE]
        /\ \/ /\ Reply(t, IF exists[r] THEN "BadConfig" ELSE "FileNotFoundError", Renewed(t))
              /\ UNCHANGED told
           \/ /\ exists[r]
              /\ Tell(Renewed(t), c)
              /\ Set(t, [thread[t] EXCEPT !.pc = "save", !.state =
                     IF Renewed(t)[c].stale THEN "stale" ELSE "fresh"])

(* _saveCache, which makes the folder again if it has to. *)
Save(t) ==
  LET r == thread[t].root IN
  /\ At(t, "save")
  /\ folder' = [folder EXCEPT ![r] = TRUE]
  /\ cache' = [cache EXCEPT ![r] = thread[t].state]
  /\ UNCHANGED <<exists, servers, told, overlapped>>
  /\ Reply(t, thread[t].raised, core)

(* getQueuedMessages: while not empty, *)
Empty(t) ==
  /\ At(t, "empty")
  /\ UNCHANGED <<exists, servers, told, disk>>
  /\ \/ core[thread[t].server].queue = 0 /\ Reply(t, thread[t].raised, core)
     \/ core[thread[t].server].queue # 0 /\ Go(t, "pop") /\ UNCHANGED core

(* Slip: the message is left in the queue. *)
PeekMessage(t) ==
  /\ At(t, "pop")
  /\ core[thread[t].server].queue > 0
  /\ Go(t, "empty")
  /\ UNCHANGED <<exists, servers, cores, disk>>

(* get, which waits for a message. *)
PopMessage(t) ==
  /\ At(t, "pop")
  /\ core[thread[t].server].queue > 0
  /\ core' = [core EXCEPT ![thread[t].server].queue = @ - 1]
  /\ Go(t, "empty")
  /\ UNCHANGED <<exists, servers, told, disk>>

(* rebuild_project: server.clean(), which for the fallback is elsewhere, *)
Rebuild(t) ==
  LET r == thread[t].root IN
  /\ At(t, "rebuild")
  /\ IF core[thread[t].server].root_dir = None
     THEN /\ Set(t, [thread[t] EXCEPT !.pc = "delete", !.request = Second])
          /\ UNCHANGED <<core, disk>>
     ELSE /\ folder' = [folder EXCEPT ![r] = FALSE] /\ cache' = [cache EXCEPT ![r] = None]
          /\ core' = [c \in DOMAIN core |->
               [core[c] EXCEPT !.stale = @ \/ core[c].root_dir = r]]
          /\ thread' = [u \in Threads |->
               IF u = t THEN [thread[t] EXCEPT !.pc = "delete", !.request = Second]
               ELSE IF At(u, "save") /\ thread[u].root = r
               THEN [thread[u] EXCEPT !.state = "stale"] ELSE thread[u]]
          /\ overlapped' = IF Others(t, r) = {} THEN overlapped \ {r} ELSE overlapped \cup {r}
  /\ UNCHANGED <<exists, servers, told>>

(* Slip: the core is left in the dict. *)
KeepServer(t) ==
  /\ At(t, "delete")
  /\ UNCHANGED <<exists, servers, told, disk>>
  /\ Leave(t, "lookup")

(* del servers[root_dir], and the second look-up. *)
DeleteServer(t) ==
  LET r == thread[t].root IN
  /\ At(t, "delete")
  /\ overlapped' = overlapped \cup (IF Others(t, r) = {} THEN {} ELSE {r})
  /\ servers' = [servers EXCEPT ![r] = 0]
  /\ IF servers[r] = 0 THEN Reply(t, "KeyError", core) ELSE Leave(t, "lookup")
  /\ UNCHANGED <<exists, told, folder, cache>>

-----------------------------------------------------------------------------
Step(t) ==
  \/ Lookup(t) \/ GetServer(t) \/ Store(t)
  \/ Setup(t) \/ Clean(t) \/ MakeDirs(t) \/ Recover(t) \/ SetConfig(t)
  \/ Lint(t) \/ Save(t) \/ Empty(t) \/ PopMessage(t) \/ Rebuild(t) \/ DeleteServer(t)
  \/ Answer(t)

Next ==
  \/ \E r \in Roots : Edit(r)
  \/ \E t \in Threads, r \in Roots, request \in Requests : Request(t, r, request)
  \/ \E t \in Threads : Step(t)

Spec == Init /\ [][Next]_vars

(* Threads run on; nobody has to send a request. *)
FairSpec == Spec /\ \A t \in Threads : WF_vars(Step(t))

-----------------------------------------------------------------------------
Places ==
  {"idle", "lookup", "get", "setup", "clean", "makedirs", "recover", "config",
   "store", "lint", "save", "empty", "pop", "rebuild", "delete", "answer"}
Exceptions == {"none", "KeyError", "FileExistsError", "FileNotFoundError", "BadConfig"}

Locals == [pc : Places, request : Requests \cup {Second}, root : Roots \cup {None},
           server : Cores \cup {0}, state : {"stale", "fresh"}, raised : Exceptions,
           alone : BOOLEAN]
Server == [root_dir : Roots \cup {None}, config : BOOLEAN, stale : BOOLEAN, queue : 0 .. told]

(* Types; the cores that are kept are those in use, a cache is in a folder *)
(* and a core in the dict is that of the root or the fallback.             *)
TypeOK ==
  /\ exists \in [Roots -> BOOLEAN]
  /\ servers \in [Roots -> Cores \cup {0}]
  /\ DOMAIN core = Live \ {0} /\ DOMAIN core \subseteq Cores /\ told \in 0 .. MaxMessages
  /\ core \in [DOMAIN core -> Server]
  /\ folder \in [Roots -> BOOLEAN] /\ overlapped \subseteq Roots
  /\ cache \in [Roots -> {None, "stale", "fresh"}]
  /\ \A r \in Roots : cache[r] # None => folder[r]
  /\ thread \in [Threads -> Locals]
  /\ \A r \in Roots : servers[r] # 0 => core[servers[r]].root_dir \in {r, None}

(* get, in a queue that another request has emptied since. *)
Robbed(t) == At(t, "pop") /\ core[thread[t].server].queue = 0

(* A request that meets a KeyError, finds the folder made under its hands  *)
(* (which makes the project fall back to no configuration at all), or has  *)
(* to wait for a message, has met another request for the same project:    *)
(* alone, each of them works (handlers.py:86-98, 240, 66-67; core.py:343). *)
AloneNothingFails ==
  \A t \in Threads :
    Robbed(t) \/ thread[t].raised \in {"KeyError", "FileExistsError"} => ~ thread[t].alone

(* Once rebuild_project has removed the folder and is done with the dict,  *)
(* the dict has no core of that folder that knows what was known before,   *)
(* unless another request was under way when it did so (handlers.py:237).  *)
RebuildIsFresh ==
  \A r \in Roots :
    /\ servers[r] # 0
    /\ core[servers[r]].root_dir = r
    /\ r \notin overlapped
    /\ \A t \in Threads : thread[t].request = Second => thread[t].root # r
    => ~ core[servers[r]].stale

(* Every request is answered, except those for messages that another one   *)
(* has taken between empty() and get().                                    *)
RequestsEnd ==
  \A t \in Threads : ~ At(t, "idle") ~> (At(t, "idle") \/ Robbed(t))
=============================================================================
