-------------------------- MODULE HttpServerProofs --------------------------
(***************************************************************************)
(* Proofs about HttpServer, for any set of threads, any set of projects    *)
(* and any number of messages.                                             *)
(***************************************************************************)
EXTENDS HttpServer, TLAPS

Creating == {"setup", "clean", "makedirs", "recover", "config"}
InHand   == Creating \cup {"store", "lint", "save", "empty", "pop", "rebuild", "delete"}

(* What the place of a thread says of its request and of the core it has   *)
(* in hand.                                                                *)
LocalOK(local, kept) ==
  /\ local.pc # "idle" => local.root \in Roots
  /\ local.server # 0 <=> local.pc \in InHand
  /\ local.server # 0 => kept[local.server].root_dir \in {local.root, None}
  /\ local.pc \in Creating => kept[local.server].root_dir = local.root
  /\ local.pc = "delete" => local.request = Second

InHandOK == \A t \in Threads : LocalOK(thread[t], core)

Typed == TypeOK /\ InHandOK

-----------------------------------------------------------------------------
(* What the helpers of the actions do.                                     *)

(* A thread that goes on changes nothing else of itself. *)
LEMMA GoesOn ==
  ASSUME thread \in [Threads -> Locals], NEW t \in Threads, NEW place \in Places, Go(t, place)
  PROVE  /\ thread' \in [Threads -> Locals]
         /\ thread' = [thread EXCEPT ![t] = thread'[t]]
         /\ thread'[t] = [thread[t] EXCEPT !.pc = place]
         /\ UNCHANGED servers => UNCHANGED Live
<1>1. [thread[t] EXCEPT !.pc = place] \in Locals
  BY DEF Locals
<1>2. thread' = [thread EXCEPT ![t] = [thread[t] EXCEPT !.pc = place]]
  BY DEF Go, Set
<1>3. \A u \in Threads : thread'[u].server = thread[u].server
  BY <1>2 DEF Locals
<1>4. QED
  BY <1>1, <1>2, <1>3 DEF Live

LEMMA MovesOnly ==
  ASSUME thread \in [Threads -> Locals], NEW t \in Threads, NEW local, Set(t, local),
         local.server = thread[t].server, UNCHANGED servers
  PROVE  Live' = Live
BY DEF Set, Live

(* What nobody uses is forgotten, and the rest is as it was. *)
LEMMA Collected ==
  ASSUME NEW some, Collect(some), 0 \notin DOMAIN some, Live' \ {0} \subseteq DOMAIN some
  PROVE  /\ DOMAIN core' = Live' \ {0}
         /\ core' = [c \in DOMAIN core' |-> some[c]]
BY DEF Collect

(* An answer leaves the core in hand. *)
LEMMA Replies ==
  ASSUME TypeOK, NEW t \in Threads, NEW exception \in Exceptions, NEW some,
         DOMAIN some = DOMAIN core, Reply(t, exception, some),
         \A r \in Roots : servers'[r] \in {servers[r], 0}
  PROVE  /\ thread' \in [Threads -> Locals]
         /\ thread' = [thread EXCEPT ![t] = thread'[t]]
         /\ thread'[t].pc = "answer" /\ thread'[t].server = 0 /\ thread'[t].request = "lint"
         /\ thread'[t].root = thread[t].root /\ thread'[t].alone = thread[t].alone
         /\ thread'[t].raised = exception
         /\ DOMAIN core' = Live' \ {0} /\ DOMAIN core' \subseteq DOMAIN core
         /\ core' = [c \in DOMAIN core' |-> some[c]]
<1> DEFINE local == [Idle EXCEPT !.pc = "answer", !.root = thread[t].root,
                         !.alone = thread[t].alone, !.raised = exception]
<1>1. local \in Locals /\ local.server = 0
  BY DEF TypeOK, Locals, Idle, Places, Requests
<1>2. thread' = [thread EXCEPT ![t] = local]
  BY DEF Reply, Set
<1>3. thread' \in [Threads -> Locals] /\ thread'[t] = local
  BY <1>1, <1>2 DEF TypeOK
<1>4. Live' \ {0} \subseteq DOMAIN core
  BY <1>1, <1>2 DEF TypeOK, Live
<1>5. 0 \notin DOMAIN core
  BY DEF TypeOK, Cores
<1>6. DOMAIN core' = Live' \ {0} /\ core' = [c \in DOMAIN core' |-> some[c]]
  BY <1>4, <1>5, Collected DEF Reply
<1>7. QED
  BY <1>2, <1>3, <1>4, <1>6 DEF Idle

(* So does a thread that goes on without it. *)
LEMMA Leaves ==
  ASSUME TypeOK, NEW t \in Threads, NEW place \in Places, Leave(t, place),
         \A r \in Roots : servers'[r] \in {servers[r], thread[t].server, 0}
  PROVE  /\ thread' \in [Threads -> Locals]
         /\ thread' = [thread EXCEPT ![t] = thread'[t]]
         /\ thread'[t] = [thread[t] EXCEPT !.pc = place, !.server = 0]
         /\ DOMAIN core' = Live' \ {0} /\ DOMAIN core' \subseteq DOMAIN core
         /\ core' = [c \in DOMAIN core' |-> core[c]]
<1> DEFINE local == [thread[t] EXCEPT !.pc = place, !.server = 0]
<1> HIDE DEF local
<1>0. thread[t] \in Locals
  BY DEF TypeOK
<1>1. local \in Locals /\ local.server = 0
  BY <1>0 DEF Locals, local
<1>2. thread' = [thread EXCEPT ![t] = local]
  BY DEF Leave, Set, local
<1>3. thread' \in [Threads -> Locals] /\ thread'[t] = local
  BY <1>1, <1>2 DEF TypeOK
<1>4. Live' \ {0} \subseteq DOMAIN core
  BY <1>1, <1>2 DEF TypeOK, Live
<1>5. 0 \notin DOMAIN core
  BY DEF TypeOK, Cores
<1>6. DOMAIN core' = Live' \ {0} /\ core' = [c \in DOMAIN core' |-> core[c]]
  BY <1>4, <1>5, Collected DEF Leave
<1>7. QED
  BY <1>2, <1>3, <1>4, <1>6 DEF local

(* A new core is in the hands of its maker only. *)
New(dir) == [root_dir |-> dir, config |-> FALSE, stale |-> FALSE, queue |-> 0]

Constructed(t, dir, changed, c) ==
  /\ c \notin {servers[r] : r \in Roots}
  /\ \A u \in Threads \ {t} : thread[u].server # c
  /\ thread' \in [Threads -> Locals]
  /\ thread' = [thread EXCEPT ![t] = thread'[t]]
  /\ thread'[t] = [changed EXCEPT !.server = c]
  /\ UNCHANGED <<servers, told>>
  /\ c \in DOMAIN core' /\ DOMAIN core' = Live' \ {0}
  /\ core' = [d \in DOMAIN core' |-> IF d = c THEN New(dir) ELSE core[d]]
  /\ DOMAIN core' \subseteq DOMAIN core \cup {c}

LEMMA Constructs ==
  ASSUME TypeOK, NEW t \in Threads, NEW dir, NEW changed \in Locals, Construct(t, dir, changed)
  PROVE  \E c \in Cores : Constructed(t, dir, changed, c)
<1> DEFINE held == {servers[r] : r \in Roots} \cup {thread[u].server : u \in Threads \ {t}}
<1> DEFINE some(c) == [d \in DOMAIN core \cup {c} |-> IF d = c THEN New(dir) ELSE core[d]]
<1>1. PICK c \in Cores \ held :
        /\ Set(t, [changed EXCEPT !.server = c])
        /\ UNCHANGED <<servers, told>>
        /\ Collect(some(c))
  BY DEF Construct, New
<1>2. [changed EXCEPT !.server = c] \in Locals /\ [changed EXCEPT !.server = c].server = c
  BY DEF Locals
<1>3. thread' = [thread EXCEPT ![t] = [changed EXCEPT !.server = c]]
  BY <1>1 DEF Set
<1>4. thread' \in [Threads -> Locals] /\ thread'[t] = [changed EXCEPT !.server = c]
  BY <1>2, <1>3 DEF TypeOK
<1>5. Live' \ {0} \subseteq DOMAIN core \cup {c} /\ c \in Live' /\ c # 0
  BY <1>1, <1>2, <1>3 DEF TypeOK, Live, Cores
<1>6. 0 \notin DOMAIN some(c)
  BY <1>5 DEF TypeOK
<1>7. DOMAIN core' = Live' \ {0} /\ core' = [d \in DOMAIN core' |-> some(c)[d]]
  BY <1>1, <1>5, <1>6, Collected
<1>8. core' = [d \in DOMAIN core' |-> IF d = c THEN New(dir) ELSE core[d]]
  BY <1>5, <1>7
<1> QED
  BY <1>1, <1>3, <1>4, <1>5, <1>7, <1>8 DEF Constructed

-----------------------------------------------------------------------------
(* A core that is in use is kept. *)
LEMMA InUse ==
  ASSUME TypeOK
  PROVE  /\ \A r \in Roots : servers[r] # 0 => servers[r] \in DOMAIN core
         /\ \A t \in Threads : thread[t].server # 0 => thread[t].server \in DOMAIN core
         /\ 0 \notin DOMAIN core
         /\ \A c \in DOMAIN core : core[c] \in Server
BY DEF TypeOK, Live, Cores

(* A step of t may change what the others remember, not where they are nor *)
(* the folder of a core they or the dict refer to.                         *)
Undisturbed(u) ==
  /\ thread'[u].pc = thread[u].pc /\ thread'[u].server = thread[u].server
  /\ thread'[u].root = thread[u].root /\ thread'[u].request = thread[u].request

DiskOK ==
  /\ exists \in [Roots -> BOOLEAN]
  /\ folder \in [Roots -> BOOLEAN] /\ overlapped \subseteq Roots
  /\ cache \in [Roots -> {None, "stale", "fresh"}]
  /\ \A r \in Roots : cache[r] # None => folder[r]

LEMMA TypedIf ==
  ASSUME Typed, NEW t \in Threads, DiskOK',
         thread' \in [Threads -> Locals], servers' \in [Roots -> Cores \cup {0}],
         told' \in 0 .. MaxMessages,
         DOMAIN core' = Live' \ {0}, core' \in [DOMAIN core' -> Server'],
         DOMAIN core' \subseteq Cores,
         \A u \in Threads \ {t} : Undisturbed(u),
         \A u \in Threads \ {t} : thread[u].server # 0 =>
           core'[thread[u].server].root_dir = core[thread[u].server].root_dir,
         \A r \in Roots : servers'[r] # 0 => core'[servers'[r]].root_dir \in {r, None},
         LocalOK(thread'[t], core')
  PROVE  Typed'
<1>1. TypeOK'
  BY DEF TypeOK, DiskOK
<1>2. ASSUME NEW u \in Threads PROVE LocalOK(thread[u], core)'
  <2>1. CASE u = t
    BY <2>1 DEF LocalOK
  <2>2. CASE u # t
    <3>1. LocalOK(thread[u], core)
      BY DEF Typed, InHandOK
    <3>2. thread[u].pc \in Creating => thread[u].server # 0
      BY <3>1 DEF LocalOK, InHand
    <3>3. QED
      BY <2>2, <3>1, <3>2 DEF LocalOK, Undisturbed
  <2>3. QED
    BY <2>1, <2>2
<1>3. QED
  BY <1>1, <1>2 DEF Typed, InHandOK

(* A step that moves t and does things to the disk and the cores. *)
LEMMA TypedSet ==
  ASSUME Typed, NEW t \in Threads, NEW local \in Locals, Set(t, local), DiskOK',
         UNCHANGED servers, Live' \ {0} = Live \ {0}, told' \in 0 .. MaxMessages,
         DOMAIN core' = DOMAIN core, core' \in [DOMAIN core -> Server'],
         \A c \in DOMAIN core : core'[c].root_dir = core[c].root_dir,
         LocalOK(local, core)
  PROVE  Typed'
<1>1. TypeOK /\ thread \in [Threads -> Locals]
  BY DEF Typed, TypeOK
<1>2. /\ thread' \in [Threads -> Locals]
      /\ thread'[t] = local
      /\ \A u \in Threads \ {t} : Undisturbed(u)
  BY <1>1 DEF Set, Undisturbed
<1>3. /\ servers' \in [Roots -> Cores \cup {0}] /\ DOMAIN core' = Live' \ {0}
      /\ DOMAIN core' \subseteq Cores
      /\ \A r \in Roots : servers'[r] # 0 => core'[servers'[r]].root_dir \in {r, None}
  BY <1>1, InUse DEF TypeOK
<1>4. \A u \in Threads : thread[u].server # 0 =>
        core'[thread[u].server].root_dir = core[thread[u].server].root_dir
  BY <1>1, InUse
<1>5. LocalOK(thread'[t], core')
  <2>1. local.server # 0 => local.server \in DOMAIN core
    BY <1>2, <1>3 DEF Live
  <2>2. local.server # 0 => core'[local.server].root_dir = core[local.server].root_dir
    BY <2>1
  <2>3. local.pc \in Creating => local.server # 0
    BY DEF LocalOK, InHand
  <2>4. QED
    BY <1>2, <2>2, <2>3 DEF LocalOK
<1>6. QED
  BY <1>2, <1>3, <1>4, <1>5, TypedIf

LEMMA TypedGo ==
  ASSUME Typed, NEW t \in Threads, NEW place \in Places, Go(t, place), DiskOK',
         UNCHANGED servers, told' \in 0 .. MaxMessages,
         DOMAIN core' = DOMAIN core, core' \in [DOMAIN core -> Server'],
         \A c \in DOMAIN core : core'[c].root_dir = core[c].root_dir,
         LocalOK([thread[t] EXCEPT !.pc = place], core)
  PROVE  Typed'
<1>1. thread \in [Threads -> Locals]
  BY DEF Typed, TypeOK
<1>2. [thread[t] EXCEPT !.pc = place] \in Locals /\ Live' = Live
  BY <1>1, GoesOn
<1>3. Set(t, [thread[t] EXCEPT !.pc = place])
  BY DEF Go
<1>4. QED
  BY <1>2, <1>3, TypedSet

(* A new core, in place of the one in hand. *)
LEMMA TypedConstruct ==
  ASSUME Typed, NEW t \in Threads, NEW dir, NEW changed \in Locals, Construct(t, dir, changed),
         DiskOK', dir \in {changed.root, None}, changed.root \in Roots,
         \/ changed.pc = "store"
         \/ changed.pc = "setup" /\ dir = changed.root
  PROVE  Typed'
<1>1. TypeOK /\ thread \in [Threads -> Locals]
  BY DEF Typed, TypeOK
<1>2. PICK c \in Cores : Constructed(t, dir, changed, c)
  BY <1>1, Constructs
<1>3. \A u \in Threads \ {t} : Undisturbed(u)
  <2>1. thread' = [thread EXCEPT ![t] = thread'[t]]
    BY <1>2 DEF Constructed
  <2>2. QED
    BY <1>1, <2>1 DEF Undisturbed
<1>4. New(dir) \in Server /\ Server' = Server /\ New(dir).root_dir = dir
  <2>1. 0 \in 0 .. told
    BY <1>1, BoundsAssumption DEF TypeOK
  <2>2. QED
    BY <2>1, <1>2 DEF Constructed, New, Server
<1>5. /\ core' \in [DOMAIN core' -> Server'] /\ DOMAIN core' \subseteq Cores
  BY <1>1, <1>2, <1>4, InUse DEF TypeOK, Constructed
<1>6. \A u \in Threads \ {t} : thread[u].server # 0 =>
        core'[thread[u].server].root_dir = core[thread[u].server].root_dir
  <2> TAKE u \in Threads \ {t}
  <2>1. thread[u].server = thread'[u].server
    BY <1>3 DEF Undisturbed
  <2>2. QED
    BY <1>2, <2>1 DEF Live, Constructed
<1>7. \A r \in Roots : servers'[r] # 0 => core'[servers'[r]].root_dir \in {r, None}
  <2> SUFFICES ASSUME NEW r \in Roots, servers'[r] # 0 PROVE core'[servers'[r]].root_dir \in {r, None}
    OBVIOUS
  <2>1. servers'[r] \in Live' /\ servers'[r] = servers[r]
    BY <1>2 DEF Live, Constructed
  <2>2. QED
    BY <1>1, <1>2, <2>1 DEF TypeOK, Constructed
<1>8. LocalOK(thread'[t], core')
  <2>1. c # 0 /\ core'[c].root_dir = dir
    BY <1>2, <1>4 DEF Cores, Constructed
  <2>2. /\ thread'[t].server = c /\ thread'[t].pc = changed.pc
        /\ thread'[t].root = changed.root
    BY <1>2 DEF Locals, Constructed
  <2>3. QED
    BY <2>1, <2>2 DEF LocalOK, InHand, Creating
<1>9. QED
  BY <1>1, <1>2, <1>3, <1>5, <1>6, <1>7, <1>8, TypedIf DEF TypeOK, Constructed

(* An answer, or another step that leaves the core in hand. *)
LEMMA TypedLeave ==
  ASSUME Typed, NEW t \in Threads, NEW some, thread' \in [Threads -> Locals],
         thread' = [thread EXCEPT ![t] = thread'[t]],
         thread'[t].server = 0, thread'[t].pc \notin InHand, thread'[t].root \in Roots,
         DOMAIN core' = Live' \ {0}, DOMAIN core' \subseteq DOMAIN core,
         core' = [c \in DOMAIN core' |-> some[c]], some \in [DOMAIN core -> Server],
         \A c \in DOMAIN core : some[c].root_dir = core[c].root_dir, DiskOK',
         UNCHANGED told, servers' \in [Roots -> Cores \cup {0}],
         \A r \in Roots : servers'[r] \in {servers[r], 0} \/
           (r = thread[t].root /\ servers'[r] = thread[t].server)
  PROVE  Typed'
<1>1. TypeOK /\ thread \in [Threads -> Locals]
  BY DEF Typed, TypeOK
<1>2. \A u \in Threads \ {t} : Undisturbed(u)
  BY <1>1 DEF Undisturbed
<1>3. core' \in [DOMAIN core' -> Server'] /\ DOMAIN core' \subseteq Cores
  BY <1>1 DEF TypeOK, Server
<1>4. \A u \in Threads \ {t} : thread[u].server # 0 =>
        core'[thread[u].server].root_dir = core[thread[u].server].root_dir
  <2> TAKE u \in Threads \ {t}
  <2>1. thread[u].server = thread'[u].server
    BY <1>2 DEF Undisturbed
  <2>2. QED
    BY <1>1, <2>1, InUse DEF Live
<1>5. \A r \in Roots : servers'[r] # 0 => core'[servers'[r]].root_dir \in {r, None}
  <2> SUFFICES ASSUME NEW r \in Roots, servers'[r] # 0 PROVE core'[servers'[r]].root_dir \in {r, None}
    OBVIOUS
  <2>1. servers'[r] \in DOMAIN core'
    BY DEF Live
  <2>2. core[servers'[r]].root_dir \in {r, None}
    <3>1. LocalOK(thread[t], core)
      BY DEF Typed, InHandOK
    <3>2. QED
      BY <1>1, <3>1 DEF TypeOK, LocalOK
  <2>3. QED
    BY <2>1, <2>2
<1>6. LocalOK(thread'[t], core')
  BY DEF LocalOK, InHand, Creating
<1>7. QED
  BY <1>1, <1>2, <1>3, <1>4, <1>5, <1>6, TypedIf DEF TypeOK

LEMMA TypedReply ==
  ASSUME Typed, NEW t \in Threads, NEW exception \in Exceptions, NEW some \in [DOMAIN core -> Server],
         \A c \in DOMAIN core : some[c].root_dir = core[c].root_dir,
         Reply(t, exception, some), DiskOK', UNCHANGED told, thread[t].root \in Roots,
         servers' \in [Roots -> Cores \cup {0}],
         \A r \in Roots : servers'[r] \in {servers[r], 0}
  PROVE  Typed'
<1>1. TypeOK /\ DOMAIN some = DOMAIN core
  BY DEF Typed
<1>2. /\ thread' \in [Threads -> Locals]
      /\ thread' = [thread EXCEPT ![t] = thread'[t]]
      /\ thread'[t].pc = "answer" /\ thread'[t].server = 0 /\ thread'[t].root = thread[t].root
      /\ DOMAIN core' = Live' \ {0} /\ DOMAIN core' \subseteq DOMAIN core
      /\ core' = [c \in DOMAIN core' |-> some[c]]
  BY <1>1, Replies
<1>3. thread'[t].pc \notin InHand
  BY <1>2 DEF InHand, Creating
<1>4. QED
  BY <1>2, <1>3, TypedLeave

LEMMA TypedLeaves ==
  ASSUME Typed, NEW t \in Threads, NEW place \in Places \ InHand, Leave(t, place), DiskOK',
         UNCHANGED told, thread[t].root \in Roots, servers' \in [Roots -> Cores \cup {0}],
         \A r \in Roots : servers'[r] \in {servers[r], 0} \/
           (r = thread[t].root /\ servers'[r] = thread[t].server)
  PROVE  Typed'
<1> DEFINE local == [thread[t] EXCEPT !.pc = place, !.server = 0]
<1>1. TypeOK /\ core \in [DOMAIN core -> Server] /\ thread[t] \in Locals
  BY DEF Typed, TypeOK
<1>2. \A r \in Roots : servers'[r] \in {servers[r], thread[t].server, 0}
  OBVIOUS
<1>3. /\ thread' \in [Threads -> Locals]
      /\ thread' = [thread EXCEPT ![t] = thread'[t]]
      /\ thread'[t] = local
      /\ DOMAIN core' = Live' \ {0} /\ DOMAIN core' \subseteq DOMAIN core
      /\ core' = [d \in DOMAIN core' |-> core[d]]
  BY <1>1, <1>2, Leaves
<1>4. local.server = 0 /\ local.pc \notin InHand /\ local.root = thread[t].root
  BY <1>1 DEF Locals
<1> HIDE DEF local
<1>5. QED
  BY <1>1, <1>3, <1>4, TypedLeave

(* A message for the user at most. *)
LEMMA Tells ==
  ASSUME TypeOK, NEW changed \in [DOMAIN core -> Server], NEW c, Tell(changed, c)
  PROVE  /\ told' \in 0 .. MaxMessages
         /\ DOMAIN core' = DOMAIN core /\ core' \in [DOMAIN core -> Server']
         /\ \A d \in DOMAIN core :
              /\ core'[d].root_dir = changed[d].root_dir
              /\ core'[d].stale = changed[d].stale
              /\ d # c => core'[d].queue = changed[d].queue
              /\ changed[d].queue # 0 => core'[d].queue # 0
<1>1. CASE core' = changed /\ UNCHANGED told
  BY <1>1 DEF TypeOK, Server
<1>2. CASE told < MaxMessages /\ told' = told + 1 /\ core' = [changed EXCEPT ![c].queue = @ + 1]
  <2>1. told \in Nat /\ MaxMessages \in Nat /\ told' \in 0 .. MaxMessages
    BY <1>2, BoundsAssumption DEF TypeOK
  <2>2. ASSUME NEW d \in DOMAIN core, NEW q \in 0 .. told
        PROVE  [changed[d] EXCEPT !.queue = q + 1] \in Server' /\ changed[d] \in Server'
    BY <1>2, <2>1 DEF Server
  <2>3. \A d \in DOMAIN core : core'[d] = IF d = c THEN [changed[d] EXCEPT !.queue = changed[d].queue + 1]
                                         ELSE changed[d]
    BY <1>2
  <2>4. \A d \in DOMAIN core : changed[d].queue \in 0 .. told
    BY DEF Server
  <2>5. DOMAIN core' = DOMAIN core /\ core' \in [DOMAIN core -> Server']
    BY <1>2, <2>2, <2>3, <2>4
  <2>6. ASSUME NEW d \in DOMAIN core
        PROVE  /\ core'[d].root_dir = changed[d].root_dir
               /\ core'[d].stale = changed[d].stale
               /\ d # c => core'[d].queue = changed[d].queue
               /\ changed[d].queue # 0 => core'[d].queue # 0
    <3>1. changed[d] \in Server /\ changed[d].queue \in 0 .. told
      BY <2>4
    <3>2. CASE d = c
      <4> DEFINE q == changed[d].queue
      <4>1. q + 1 # 0
        BY <2>1, <3>1
      <4> HIDE DEF q
      <4>2. core'[d] = [changed[d] EXCEPT !.queue = q + 1]
        BY <2>3, <3>2 DEF q
      <4>3. QED
        BY <3>1, <3>2, <4>1, <4>2 DEF Server
    <3>3. CASE d # c
      BY <2>3, <3>3
    <3>4. QED
      BY <3>2, <3>3
  <2>7. QED
    BY <2>1, <2>5, <2>6
<1>3. QED
  BY <1>1, <1>2 DEF Tell

(* An update changes the core in hand, which may only become fresher. *)
LEMMA RenewedOK ==
  ASSUME Typed, NEW t \in Threads, thread[t].server \in DOMAIN core
  PROVE  /\ Renewed(t) \in [DOMAIN core -> Server]
         /\ \A k \in DOMAIN core :
              /\ Renewed(t)[k].root_dir = core[k].root_dir
              /\ k # thread[t].server => Renewed(t)[k] = core[k]
              /\ Renewed(t)[k].queue = core[k].queue
              /\ Renewed(t)[k].stale =>
                   core[k].stale /\ (k = thread[t].server => folder[thread[t].root])
<1> DEFINE c == thread[t].server
<1> DEFINE new == [core[c] EXCEPT !.config = TRUE, !.stale = @ /\ folder[thread[t].root]]
<1>1. (core[c].stale /\ folder[thread[t].root]) \in BOOLEAN /\ core \in [DOMAIN core -> Server]
  BY DEF Typed, TypeOK
<1>2. /\ new \in Server /\ new.root_dir = core[c].root_dir /\ new.queue = core[c].queue
      /\ new.stale => core[c].stale /\ folder[thread[t].root]
  BY <1>1 DEF Server
<1>3. Renewed(t) = [core EXCEPT ![c] = new]
  BY DEF Renewed
<1> HIDE DEF new
<1>4. QED
  BY <1>1, <1>2, <1>3

-----------------------------------------------------------------------------
(* The types hold in every reachable state, and with them what the place   *)
(* of a thread says of the core it has in hand (handlers.py:54-98).        *)
LEMMA OSErrorTyped ==
  ASSUME Typed, NEW t \in Threads, NEW e \in Exceptions, OSError(t, e), DiskOK',
         thread[t].root \in Roots
  PROVE  Typed'
<1> DEFINE local == [thread[t] EXCEPT !.pc = "store", !.raised = e]
<1>1. thread[t] \in Locals
  BY DEF Typed, TypeOK
<1>2. local \in Locals /\ local.pc = "store" /\ local.root = thread[t].root
  BY <1>1 DEF Locals, Places
<1>3. Construct(t, None, local)
  BY DEF OSError
<1> HIDE DEF local
<1>4. QED
  BY <1>2, <1>3, TypedConstruct

LEMMA TypedStep ==
  ASSUME Typed, NEW t \in Threads, Step(t)
  PROVE  Typed'
<1> DEFINE r == thread[t].root
<1> DEFINE c == thread[t].server
<1>0. /\ TypeOK /\ DiskOK /\ thread \in [Threads -> Locals] /\ thread[t] \in Locals
      /\ LocalOK(thread[t], core) /\ told \in 0 .. MaxMessages
      /\ core \in [DOMAIN core -> Server]
  BY DEF Typed, TypeOK, InHandOK, DiskOK
<1>a. UNCHANGED <<exists, disk>> => DiskOK'
  BY <1>0 DEF DiskOK, disk
<1>b. UNCHANGED told => Server' = Server
  BY DEF Server
<1>c. thread[t].pc # "idle" => r \in Roots
  BY <1>0 DEF LocalOK
<1>d. thread[t].pc \in InHand => c # 0 /\ c \in DOMAIN core /\ core[c] \in Server
  BY <1>0, InUse DEF LocalOK
<1>e. ASSUME NEW place \in Places, thread[t].pc \in Creating,
             place \in Creating \cup {"store"} 
      PROVE  LocalOK([thread[t] EXCEPT !.pc = place], core)
  BY <1>0, <1>e DEF LocalOK, Locals, InHand, Creating
<1>f. ASSUME thread[t].pc \in InHand
      PROVE  /\ Renewed(t) \in [DOMAIN core -> Server]
             /\ \A d \in DOMAIN core : Renewed(t)[d].root_dir = core[d].root_dir
  BY <1>d, <1>f, RenewedOK
<1>1. CASE Lookup(t)
  <2>1. CASE servers[r] # 0 /\ Go(t, "get") /\ UNCHANGED cores
    <3>1. LocalOK([thread[t] EXCEPT !.pc = "get"], core)
      BY <1>0, <1>1 DEF Lookup, At, LocalOK, Locals, InHand, Creating
    <3>2. QED
      BY <1>0, <1>1, <1>a, <1>b, <2>1, <3>1, TypedGo DEF Lookup, cores, Places
  <2>2. CASE Construct(t, r, [thread[t] EXCEPT !.pc = "setup"])
    <3> DEFINE local == [thread[t] EXCEPT !.pc = "setup"]
    <3>1. local \in Locals /\ local.root = r /\ local.pc = "setup" /\ r \in Roots
      BY <1>0, <1>1, <1>c DEF Lookup, At, Locals, Places
    <3> HIDE DEF local
    <3>2. Construct(t, r, local)
      BY <2>2 DEF local
    <3>3. QED
      BY <1>1, <1>a, <3>1, <3>2, TypedConstruct DEF Lookup
  <2>3. QED
    BY <1>1, <2>1, <2>2 DEF Lookup
<1>2. CASE GetServer(t)
  <2>1. ASSUME NEW e \in Exceptions, Reply(t, e, core) PROVE Typed'
    BY <1>0, <1>2, <1>a, <1>c, <2>1, TypedReply DEF GetServer, At, TypeOK
  <2>2. ASSUME servers[r] # 0, thread[t].request # Second, UNCHANGED core,
          Set(t, [thread[t] EXCEPT !.server = servers[r],
            !.pc = [lint |-> "lint", get_ui_messages |-> "empty",
                    rebuild_project |-> "rebuild"][thread[t].request]])
        PROVE Typed'
    <3> DEFINE place == [lint |-> "lint", get_ui_messages |-> "empty",
                         rebuild_project |-> "rebuild"][thread[t].request]
    <3> DEFINE local == [thread[t] EXCEPT !.server = servers[r], !.pc = place]
    <3>1. place \in {"lint", "empty", "rebuild"} /\ servers[r] \in Cores \cup {0} /\ r \in Roots
      BY <1>0, <1>2, <1>c, <2>2 DEF Locals, Requests, TypeOK, GetServer, At
    <3> HIDE DEF place
    <3>2. /\ local \in Locals /\ local.server = servers[r] /\ local.pc = place
          /\ local.root = r
      BY <1>0, <3>1 DEF Locals, Places
    <3>3. Set(t, local)
      BY <2>2 DEF place
    <3> HIDE DEF local
    <3>4. c = 0
      BY <1>0, <1>2 DEF GetServer, At, LocalOK, InHand, Creating
    <3>5. Live' \ {0} = Live \ {0}
      <4>1. /\ UNCHANGED servers /\ servers[r] \in {servers[q] : q \in Roots}
            /\ thread'[t].server = servers[r] /\ thread[t].server = 0
            /\ \A u \in Threads \ {t} : thread'[u].server = thread[u].server
        BY <1>0, <1>2, <3>1, <3>2, <3>3, <3>4 DEF Set, GetServer
      <4>2. QED
        BY <4>1 DEF Live
    <3>6. LocalOK(local, core)
      BY <1>0, <2>2, <3>1, <3>2 DEF LocalOK, InHand, Creating, TypeOK
    <3>7. QED
      BY <1>0, <1>2, <1>a, <1>b, <2>2, <3>2, <3>3, <3>5, <3>6, TypedSet DEF GetServer
  <2>3. QED
    BY <1>0, <1>2, <2>1, <2>2 DEF GetServer, Locals, Exceptions
<1>3. CASE Store(t)
  <2>1. thread[t].pc = "store" /\ Leave(t, "get") /\ UNCHANGED <<exists, told, disk>>
        /\ servers' = [servers EXCEPT ![r] = c] /\ r \in Roots /\ c \in Cores
    BY <1>0, <1>3, <1>c, <1>d DEF Store, At, InHand, TypeOK
  <2>2. /\ servers' \in [Roots -> Cores \cup {0}]
        /\ \A q \in Roots : servers'[q] \in {servers[q], 0} \/ (q = r /\ servers'[q] = c)
    BY <1>0, <2>1 DEF TypeOK
  <2>3. QED
    BY <1>0, <1>a, <2>1, <2>2, TypedLeaves DEF Places, InHand, Creating
<1>4. CASE Setup(t)
  BY <1>0, <1>4, <1>a, <1>b, <1>e, TypedGo DEF Setup, At, Creating, Places, cores
<1>5. CASE Clean(t)
  <2>1. DiskOK'
    BY <1>0, <1>5 DEF DiskOK, Clean
  <2>2. QED
    BY <1>0, <1>5, <1>b, <1>e, <2>1, TypedGo DEF Clean, At, Creating, Places, cores
<1>6. CASE MakeDirs(t)
  <2>0. thread[t].pc \in Creating /\ thread[t].pc \in InHand
    BY <1>6 DEF MakeDirs, At, Creating, InHand
  <2>1. CASE folder[r] /\ OSError(t, "FileExistsError") /\ UNCHANGED folder
    <3>1. DiskOK' /\ r \in Roots /\ "FileExistsError" \in Exceptions
      BY <1>6, <1>a, <1>c, <2>1 DEF MakeDirs, At, disk, Exceptions
    <3>2. QED
      BY <2>1, <3>1, OSErrorTyped
  <2>2. CASE ~ folder[r]
    <3> DEFINE new == [core[c] EXCEPT !.stale = FALSE]
    <3>1. /\ core' = [core EXCEPT ![c] = new] /\ UNCHANGED <<servers, told>> /\ Go(t, "recover")
          /\ folder' = [folder EXCEPT ![r] = TRUE] /\ UNCHANGED <<exists, cache, overlapped>>
      BY <1>6, <2>2 DEF MakeDirs
    <3>2. new \in Server /\ new.root_dir = core[c].root_dir
      BY <1>d, <2>0 DEF Server
    <3> HIDE DEF new
    <3>3. DOMAIN core' = DOMAIN core /\ core' \in [DOMAIN core -> Server']
          /\ \A d \in DOMAIN core : core'[d].root_dir = core[d].root_dir
      BY <1>0, <1>b, <3>1, <3>2
    <3>4. DiskOK'
      BY <1>0, <3>1 DEF DiskOK
    <3>5. QED
      BY <1>0, <1>e, <2>0, <3>1, <3>3, <3>4, TypedGo DEF Creating, Places
  <2>3. QED
    BY <1>6, <2>1, <2>2 DEF MakeDirs
<1>7. CASE Recover(t)
  <2>0. thread[t].pc \in Creating /\ thread[t].pc \in InHand /\ UNCHANGED servers
        /\ Go(t, "config") /\ DiskOK' /\ r \in Roots
    BY <1>7, <1>a, <1>c DEF Recover, At, Creating, InHand
  <2>1. /\ told' \in 0 .. MaxMessages
        /\ DOMAIN core' = DOMAIN core /\ core' \in [DOMAIN core -> Server']
        /\ \A d \in DOMAIN core : core'[d].root_dir = core[d].root_dir
    <3>1. CASE Tell(core, c)
      BY <1>0, <3>1, Tells
    <3>2. CASE /\ core' = [core EXCEPT ![c].stale = (cache[r] = "stale"), ![c].config = TRUE]
               /\ UNCHANGED told
      <4> DEFINE new == [core[c] EXCEPT !.stale = (cache[r] = "stale"), !.config = TRUE]
      <4>1. new \in Server /\ new.root_dir = core[c].root_dir
        BY <1>d, <2>0 DEF Server
      <4>2. core' = [core EXCEPT ![c] = new]
        BY <3>2
      <4> HIDE DEF new
      <4>3. QED
        BY <1>0, <1>b, <3>2, <4>1, <4>2
    <3>3. QED
      BY <1>7, <3>1, <3>2 DEF Recover
  <2>2. QED
    BY <1>0, <1>e, <2>0, <2>1, TypedGo DEF Creating, Places
<1>8. CASE SetConfig(t)
  <2>0. thread[t].pc \in Creating /\ thread[t].pc \in InHand /\ UNCHANGED servers /\ r \in Roots
    BY <1>8, <1>c DEF SetConfig, At, Creating, InHand
  <2>1. UNCHANGED folder \/ folder' = [folder EXCEPT ![r] = TRUE]
    BY <1>8 DEF SetConfig
  <2>2. DiskOK'
    BY <1>0, <1>8, <2>1 DEF SetConfig, DiskOK
  <2>3. CASE OSError(t, "FileNotFoundError")
    BY <2>0, <2>2, <2>3, OSErrorTyped DEF Exceptions
  <2>4. CASE Go(t, "store") /\ UNCHANGED cores
    BY <1>0, <1>b, <1>e, <2>0, <2>2, <2>4, TypedGo DEF cores, Places
  <2>5. CASE Go(t, "store") /\ Tell(Renewed(t), c)
    <3>1. /\ told' \in 0 .. MaxMessages
          /\ DOMAIN core' = DOMAIN core /\ core' \in [DOMAIN core -> Server']
          /\ \A d \in DOMAIN core : core'[d].root_dir = Renewed(t)[d].root_dir
      BY <1>0, <1>f, <2>0, <2>5, Tells
    <3>2. QED
      BY <1>0, <1>e, <1>f, <2>0, <2>2, <2>5, <3>1, TypedGo DEF Places
  <2>6. CASE Reply(t, "BadConfig", core) /\ UNCHANGED told
    <3>1. /\ \A q \in Roots : servers'[q] \in {servers[q], 0}
          /\ servers' \in [Roots -> Cores \cup {0}] /\ "BadConfig" \in Exceptions
      BY <1>0, <2>0 DEF TypeOK, Exceptions
    <3>2. QED
      BY <1>0, <2>0, <2>2, <2>6, <3>1, TypedReply
  <2>7. QED
    BY <1>8, <2>3, <2>4, <2>5, <2>6 DEF SetConfig
<1>9. CASE Lint(t)
  <2>0. /\ thread[t].pc = "lint" /\ thread[t].pc \in InHand /\ r \in Roots
        /\ UNCHANGED <<exists, servers, cache, overlapped>>
        /\ servers' \in [Roots -> Cores \cup {0}]
        /\ \A q \in Roots : servers'[q] \in {servers[q], 0}
    BY <1>0, <1>9, <1>c DEF Lint, At, InHand, TypeOK
  <2>1. UNCHANGED folder \/ folder' = [folder EXCEPT ![r] = TRUE]
    BY <1>9 DEF Lint
  <2>2. DiskOK'
    BY <1>0, <2>0, <2>1 DEF DiskOK
  <2>3. CASE Reply(t, thread[t].raised, core) /\ UNCHANGED told
    BY <1>0, <2>0, <2>2, <2>3, TypedReply DEF Locals
  <2>4. CASE /\ Reply(t, IF exists[r] THEN "BadConfig" ELSE "FileNotFoundError", Renewed(t))
             /\ UNCHANGED told
    <3>1. (IF exists[r] THEN "BadConfig" ELSE "FileNotFoundError") \in Exceptions
      BY DEF Exceptions
    <3>2. QED
      BY <1>f, <2>0, <2>2, <2>4, <3>1, TypedReply
  <2>5. CASE Tell(Renewed(t), c) /\ Set(t, [thread[t] EXCEPT !.pc = "save", !.state =
                     IF Renewed(t)[c].stale THEN "stale" ELSE "fresh"])
    <3> DEFINE local == [thread[t] EXCEPT !.pc = "save", !.state =
                            IF Renewed(t)[c].stale THEN "stale" ELSE "fresh"]
    <3>1. /\ told' \in 0 .. MaxMessages
          /\ DOMAIN core' = DOMAIN core /\ core' \in [DOMAIN core -> Server']
          /\ \A d \in DOMAIN core : core'[d].root_dir = Renewed(t)[d].root_dir
      BY <1>0, <1>f, <2>0, <2>5, Tells
    <3>2. /\ local \in Locals /\ local.pc = "save" /\ local.server = c /\ local.root = r
      BY <1>0 DEF Locals, Places
    <3>3. Set(t, local)
      BY <2>5
    <3> HIDE DEF local
    <3>4. LocalOK(local, core)
      BY <1>0, <2>0, <3>2 DEF LocalOK, InHand, Creating
    <3>5. Live' = Live
      BY <1>0, <2>0, <3>2, <3>3, MovesOnly
    <3>6. QED
      BY <1>f, <2>0, <2>2, <3>1, <3>2, <3>3, <3>4, <3>5, TypedSet
  <2>6. QED
    BY <1>9, <2>3, <2>4, <2>5 DEF Lint
<1>10. CASE Save(t)
  <2>0. /\ r \in Roots /\ servers' \in [Roots -> Cores \cup {0}] /\ UNCHANGED told
        /\ \A q \in Roots : servers'[q] \in {servers[q], 0}
    BY <1>0, <1>10, <1>c DEF Save, At, TypeOK
  <2>1. thread[t].state \in {"stale", "fresh"} /\ thread[t].raised \in Exceptions
    BY <1>0 DEF Locals
  <2>2. DiskOK'
    BY <1>0, <1>10, <2>0, <2>1 DEF Save, DiskOK
  <2>3. QED
    BY <1>0, <1>10, <2>0, <2>1, <2>2, TypedReply DEF Save
<1>11. CASE Empty(t)
  <2>0. /\ r \in Roots /\ UNCHANGED <<servers, told>> /\ thread[t].pc = "empty" /\ DiskOK'
    BY <1>0, <1>11, <1>a, <1>c DEF Empty, At
  <2>1. CASE Reply(t, thread[t].raised, core)
    <3>1. /\ servers' \in [Roots -> Cores \cup {0}] /\ thread[t].raised \in Exceptions
          /\ \A q \in Roots : servers'[q] \in {servers[q], 0}
      BY <1>0, <2>0 DEF TypeOK, Locals
    <3>2. QED
      BY <1>0, <2>0, <2>1, <3>1, TypedReply
  <2>2. CASE Go(t, "pop") /\ UNCHANGED core
    <3>1. LocalOK([thread[t] EXCEPT !.pc = "pop"], core)
      BY <1>0, <2>0 DEF LocalOK, Locals, InHand, Creating
    <3>2. QED
      BY <1>0, <1>b, <2>0, <2>2, <3>1, TypedGo DEF Places
  <2>3. QED
    BY <1>11, <2>1, <2>2 DEF Empty
<1>12. CASE PopMessage(t)
  <2>0. /\ UNCHANGED <<servers, told>> /\ thread[t].pc = "pop" /\ DiskOK' /\ Go(t, "empty")
        /\ core' = [core EXCEPT ![c].queue = @ - 1] /\ core[c].queue > 0
        /\ thread[t].pc \in InHand
    BY <1>0, <1>12, <1>a DEF PopMessage, At, InHand
  <2>1. LocalOK([thread[t] EXCEPT !.pc = "empty"], core)
    BY <1>0, <2>0 DEF LocalOK, Locals, InHand, Creating
  <2> DEFINE new == [core[c] EXCEPT !.queue = @ - 1]
  <2>2. new \in Server /\ new.root_dir = core[c].root_dir
    <3>1. core[c].queue - 1 \in 0 .. told
      BY <1>0, <1>d, <2>0, BoundsAssumption DEF Server
    <3>2. QED
      BY <1>d, <2>0, <3>1 DEF Server
  <2>3. core' = [core EXCEPT ![c] = new]
    BY <2>0
  <2> HIDE DEF new
  <2>4. DOMAIN core' = DOMAIN core /\ core' \in [DOMAIN core -> Server']
        /\ \A d \in DOMAIN core : core'[d].root_dir = core[d].root_dir
    BY <1>0, <1>b, <2>0, <2>2, <2>3
  <2>5. QED
    BY <1>0, <2>0, <2>1, <2>4, TypedGo DEF Places
<1>13. CASE Rebuild(t)
  <2> DEFINE local == [thread[t] EXCEPT !.pc = "delete", !.request = Second]
  <2>0. /\ UNCHANGED <<servers, told>> /\ thread[t].pc = "rebuild" /\ r \in Roots
    BY <1>13, <1>c DEF Rebuild, At
  <2>1. /\ local \in Locals /\ local.server = c /\ local.pc = "delete" /\ local.root = r
        /\ local.request = Second
    BY <1>0 DEF Locals, Places
  <2>2. LocalOK(local, core)
    BY <1>0, <2>0, <2>1 DEF LocalOK, InHand, Creating
  <2>3. CASE core[c].root_dir = None
    <3>1. Set(t, local) /\ UNCHANGED <<core, disk>>
      BY <1>13, <2>3 DEF Rebuild
    <3> HIDE DEF local
    <3>2. DiskOK' /\ Live' = Live
      BY <1>0, <1>13, <2>0, <2>1, <3>1, MovesOnly DEF Rebuild, DiskOK, disk
    <3>3. QED
      BY <1>0, <1>b, <2>0, <2>1, <2>2, <3>1, <3>2, TypedSet
  <2>4. CASE core[c].root_dir # None
    <3>1. /\ folder' = [folder EXCEPT ![r] = FALSE] /\ cache' = [cache EXCEPT ![r] = None]
          /\ core' = [d \in DOMAIN core |-> [core[d] EXCEPT !.stale = @ \/ core[d].root_dir = r]]
          /\ thread' = [u \in Threads |->
               IF u = t THEN local
               ELSE IF At(u, "save") /\ thread[u].root = r
               THEN [thread[u] EXCEPT !.state = "stale"] ELSE thread[u]]
          /\ UNCHANGED exists
      BY <1>13, <2>4 DEF Rebuild
    <3>1a. overlapped' \subseteq Roots
      BY <1>0, <1>13, <2>0, <2>4 DEF Rebuild, DiskOK
    <3> HIDE DEF local
    <3>2. ASSUME NEW u \in Threads \ {t} PROVE Undisturbed(u) /\ thread'[u] \in Locals
      BY <1>0, <3>1 DEF Undisturbed, Locals
    <3>3. thread'[t] = local
      BY <3>1
    <3>4. thread' \in [Threads -> Locals]
      BY <2>1, <3>1, <3>2, <3>3
    <3>5. Live' = Live
      BY <2>0, <2>1, <3>2, <3>3 DEF Live, Undisturbed
    <3>6. ASSUME NEW d \in DOMAIN core
          PROVE  core'[d] \in Server /\ core'[d].root_dir = core[d].root_dir
      <4>1. (core[d].stale \/ core[d].root_dir = r) \in BOOLEAN
        OBVIOUS
      <4>2. QED
        BY <1>0, <3>1, <4>1 DEF Server
    <3>7. DOMAIN core' = DOMAIN core
      BY <3>1
    <3>7a. core' \in [DOMAIN core -> Server]
      BY <3>1, <3>6
    <3>8. DiskOK'
      BY <1>0, <3>1, <3>1a DEF DiskOK
    <3>9. /\ servers' \in [Roots -> Cores \cup {0}] /\ told' \in 0 .. MaxMessages
          /\ DOMAIN core' = Live' \ {0} /\ DOMAIN core' \subseteq Cores
          /\ core' \in [DOMAIN core' -> Server']
      BY <1>0, <1>b, <2>0, <3>5, <3>7, <3>7a DEF TypeOK
    <3>10. /\ \A u \in Threads : thread[u].server # 0 =>
                core'[thread[u].server].root_dir = core[thread[u].server].root_dir
           /\ \A q \in Roots : servers'[q] # 0 => core'[servers'[q]].root_dir \in {q, None}
      BY <1>0, <2>0, <3>6, InUse DEF TypeOK
    <3>11. LocalOK(thread'[t], core')
      BY <1>d, <2>0, <2>1, <2>2, <3>3, <3>6 DEF LocalOK, InHand, Creating
    <3>12. QED
      BY <3>2, <3>4, <3>8, <3>9, <3>10, <3>11, TypedIf
  <2>5. QED
    BY <2>3, <2>4
<1>14. CASE DeleteServer(t)
  <2>0. /\ r \in Roots /\ UNCHANGED told /\ servers' = [servers EXCEPT ![r] = 0]
        /\ overlapped' \subseteq Roots /\ UNCHANGED <<exists, folder, cache>>
    BY <1>0, <1>14, <1>c DEF DeleteServer, At, DiskOK
  <2>1. DiskOK'
    BY <1>0, <2>0 DEF DiskOK
  <2>2. /\ servers' \in [Roots -> Cores \cup {0}]
        /\ \A q \in Roots : servers'[q] \in {servers[q], 0}
    BY <1>0, <2>0 DEF TypeOK
  <2>3. CASE Reply(t, "KeyError", core)
    BY <1>0, <2>0, <2>1, <2>2, <2>3, TypedReply DEF Exceptions
  <2>4. CASE Leave(t, "lookup")
    BY <1>0, <2>0, <2>1, <2>2, <2>4, TypedLeaves DEF Places, InHand, Creating
  <2>5. QED
    BY <1>14, <2>3, <2>4 DEF DeleteServer
<1>15. CASE Answer(t)
  <2>0. /\ UNCHANGED <<servers, told, core>> /\ DiskOK' /\ thread[t].pc = "answer" /\ Set(t, Idle)
    BY <1>15, <1>a DEF Answer, At, cores
  <2>1. Idle \in Locals /\ Idle.server = 0 /\ LocalOK(Idle, core)
    BY DEF Idle, Locals, Requests, Places, Exceptions, LocalOK, InHand, Creating
  <2>2. c = 0
    BY <1>0, <2>0 DEF LocalOK, InHand, Creating
  <2>3. Live' = Live
    BY <1>0, <2>0, <2>1, <2>2, MovesOnly
  <2>4. QED
    BY <1>0, <1>b, <2>0, <2>1, <2>3, TypedSet
<1>16. QED
  BY <1>1, <1>2, <1>3, <1>4, <1>5, <1>6, <1>7, <1>8, <1>9, <1>10, <1>11, <1>12, <1>13, <1>14, <1>15
  DEF Step

(* A request that arrives moves its thread only. *)
LEMMA Arrives ==
  ASSUME Typed, NEW t \in Threads, NEW r \in Roots, NEW request \in Requests, Request(t, r, request)
  PROVE  /\ thread' \in [Threads -> Locals]
         /\ thread'[t].pc = "lookup" /\ thread'[t].server = 0 /\ thread'[t].root = r
         /\ thread'[t].raised = "none" /\ thread'[t].request = request
         /\ thread'[t].alone = (Others(t, r) = {})
         /\ \A u \in Threads \ {t} :
              /\ Undisturbed(u)
              /\ thread'[u].raised = thread[u].raised /\ thread'[u].state = thread[u].state
              /\ thread'[u].alone = (thread[u].alone /\ u \notin Others(t, r))
         /\ UNCHANGED <<exists, servers, cores, disk>> /\ Live' = Live
<1> DEFINE arrived == [Idle EXCEPT !.pc = "lookup", !.request = request, !.root = r,
                                   !.alone = (Others(t, r) = {})]
<1>0. thread \in [Threads -> Locals] /\ LocalOK(thread[t], core)
  BY DEF Typed, TypeOK, InHandOK
<1>1. /\ arrived \in Locals /\ arrived.pc = "lookup" /\ arrived.server = 0 /\ arrived.root = r
      /\ arrived.raised = "none" /\ arrived.request = request
      /\ arrived.alone = (Others(t, r) = {})
  <2>1. (Others(t, r) = {}) \in BOOLEAN
    OBVIOUS
  <2>2. QED
    BY <2>1 DEF Idle, Locals, Places, Exceptions
<1>2. thread' = [u \in Threads |->
       IF u = t THEN arrived
       ELSE IF u \in Others(t, r) THEN [thread[u] EXCEPT !.alone = FALSE]
       ELSE thread[u]]
  BY DEF Request
<1> HIDE DEF arrived
<1>3. thread'[t] = arrived
  BY <1>2
<1>4. ASSUME NEW u \in Threads \ {t}
      PROVE  /\ thread'[u] \in Locals /\ Undisturbed(u)
             /\ thread'[u].raised = thread[u].raised /\ thread'[u].state = thread[u].state
             /\ thread'[u].alone = (thread[u].alone /\ u \notin Others(t, r))
  <2>0. thread[u] \in Locals
    BY <1>0
  <2>1. CASE u \in Others(t, r)
    <3>1. thread'[u] = [thread[u] EXCEPT !.alone = FALSE]
      BY <1>2, <2>1
    <3>2. QED
      BY <2>0, <2>1, <3>1 DEF Locals, Undisturbed
  <2>2. CASE u \notin Others(t, r)
    <3>1. thread'[u] = thread[u]
      BY <1>2, <2>2
    <3>2. thread[u].alone \in BOOLEAN
      BY <2>0 DEF Locals
    <3>3. QED
      BY <2>0, <2>2, <3>1, <3>2 DEF Undisturbed
  <2>3. QED
    BY <2>1, <2>2
<1>5. thread' \in [Threads -> Locals]
  BY <1>1, <1>2, <1>3, <1>4
<1>6. UNCHANGED <<exists, servers, cores, disk>>
  BY DEF Request
<1>7. thread[t].server = 0
  BY <1>0 DEF Request, At, LocalOK, InHand, Creating
<1>8. \A u \in Threads : thread'[u].server = thread[u].server
  BY <1>1, <1>3, <1>4, <1>7 DEF Undisturbed
<1>9. Live' = Live
  BY <1>6, <1>8 DEF Live
<1>10. QED
  BY <1>1, <1>3, <1>4, <1>5, <1>6, <1>9

LEMMA TypedArrival ==
  ASSUME Typed, NEW t \in Threads, NEW r \in Roots, NEW request \in Requests, Request(t, r, request)
  PROVE  Typed'
<1>1. TypeOK /\ DiskOK
  BY DEF Typed, TypeOK, DiskOK
<1>2. /\ UNCHANGED <<exists, servers, core, told, folder, cache, overlapped>> /\ Live' = Live
      /\ thread' \in [Threads -> Locals] /\ \A u \in Threads \ {t} : Undisturbed(u)
      /\ thread'[t].pc = "lookup" /\ thread'[t].server = 0 /\ thread'[t].root = r
  BY Arrives DEF cores, disk
<1>3. DiskOK' /\ Server' = Server /\ LocalOK(thread'[t], core')
  BY <1>1, <1>2 DEF DiskOK, Server, LocalOK, InHand, Creating
<1>4. QED
  BY <1>1, <1>2, <1>3, TypedIf DEF TypeOK

LEMMA TypedNext == Typed /\ [Next]_vars => Typed'
<1> SUFFICES ASSUME Typed, [Next]_vars PROVE Typed'
  OBVIOUS
<1>1. ASSUME NEW r \in Roots, Edit(r) PROVE Typed'
  <2>1. /\ UNCHANGED <<servers, core, told, folder, cache, overlapped, thread>>
        /\ exists' \in [Roots -> BOOLEAN]
    BY <1>1 DEF Edit, cores, disk, Typed, TypeOK
  <2>2. QED
    BY <2>1 DEF Typed, TypeOK, InHandOK, Live, Server
<1>2. ASSUME NEW t \in Threads, NEW r \in Roots, NEW request \in Requests, Request(t, r, request)
      PROVE  Typed'
  BY <1>2, TypedArrival
<1>3. ASSUME NEW t \in Threads, Step(t) PROVE Typed'
  BY <1>3, TypedStep
<1>4. CASE UNCHANGED vars
  BY <1>4 DEF vars, cores, disk, Typed, TypeOK, InHandOK, Live, Server
<1>5. QED
  BY <1>1, <1>2, <1>3, <1>4 DEF Next

LEMMA TypedInit == Init => Typed
<1> SUFFICES ASSUME Init PROVE Typed
  OBVIOUS
<1>1. /\ servers = [r \in Roots |-> 0] /\ thread = [t \in Threads |-> Idle] /\ Idle.server = 0
      /\ DOMAIN core = {}
  BY DEF Init, Idle
<1>2. Idle \in Locals /\ LocalOK(Idle, core)
  BY DEF Idle, Locals, Requests, Places, Exceptions, LocalOK, InHand, Creating
<1>3. Live \ {0} = {}
  BY <1>1 DEF Live
<1>4. told = 0 /\ told \in 0 .. MaxMessages
  BY BoundsAssumption DEF Init
<1>5. cache \in [Roots -> {None, "stale", "fresh"}] /\ \A r \in Roots : cache[r] # None => folder[r]
  BY DEF Init
<1>6. QED
  BY <1>1, <1>2, <1>3, <1>4, <1>5 DEF Init, Typed, TypeOK, InHandOK

THEOREM TypeCorrect == Spec => []TypeOK
<1>1. Typed => TypeOK
  BY DEF Typed
<1>2. QED
  BY <1>1, TypedInit, TypedNext, PTL DEF Spec

-----------------------------------------------------------------------------
(* The reach of a step: its own thread, the entry and the folder of its    *)
(* root, the core in hand and a new one; and a rebuild, what the cores and *)
(* the requests for that root remember.                                    *)
NewInHand(t, k) ==
  /\ k = thread'[t].server /\ UNCHANGED servers
  /\ \A q \in Roots : servers[q] # k
  /\ \A u \in Threads \ {t} : thread[u].server # k
  /\ ~ core'[k].stale /\ core'[k].root_dir \in {thread[t].root, None}

OldCore(t, k) ==
  /\ k \in DOMAIN core /\ core'[k].root_dir = core[k].root_dir
  /\ k # thread[t].server => core'[k].queue = core[k].queue
  /\ core'[k].stale =>
       \/ core[k].stale
       \/ /\ core[k].root_dir = thread[t].root
          /\ \/ thread[t].pc = "rebuild"
             \/ thread[t].pc = "recover" /\ cache[thread[t].root] = "stale"

Reach(t) ==
  LET r == thread[t].root  c == thread[t].server IN
  /\ r \in Roots
  /\ \A u \in Threads \ {t} :
       /\ Undisturbed(u) /\ thread'[u].alone = thread[u].alone /\ thread'[u].raised = thread[u].raised
       /\ thread'[u].state = thread[u].state \/ (thread[t].pc = "rebuild" /\ thread[u].root = r)
  /\ \A q \in Roots \ {r} :
       /\ servers'[q] = servers[q] /\ folder'[q] = folder[q] /\ cache'[q] = cache[q]
       /\ q \in overlapped' <=> q \in overlapped
  /\ \A k \in DOMAIN core' : NewInHand(t, k) \/ OldCore(t, k)
  /\ thread'[t].server # 0 =>
       \/ thread'[t].server = c
       \/ thread'[t].server = servers[r] /\ UNCHANGED servers
       \/ NewInHand(t, thread'[t].server)
  /\ \/ UNCHANGED servers
     \/ thread'[t].server = 0 /\ servers'[r] \in {0, c}
  /\ thread'[t].pc # "idle"
  /\ thread'[t].root = r /\ thread'[t].alone = thread[t].alone

(* A step that changes neither the dict nor who has which core in hand. *)
LEMMA ReachSet ==
  ASSUME Typed, NEW t \in Threads, NEW local \in Locals, Set(t, local),
         thread[t].root \in Roots, local.pc # "idle",
         local.root = thread[t].root, local.alone = thread[t].alone,
         local.server \in {thread[t].server, servers[thread[t].root]},
         UNCHANGED <<servers, overlapped>>,
         \A q \in Roots \ {thread[t].root} : folder'[q] = folder[q] /\ cache'[q] = cache[q],
         DOMAIN core' = DOMAIN core, \A k \in DOMAIN core : OldCore(t, k)
  PROVE  Reach(t)
<1>1. thread \in [Threads -> Locals]
  BY DEF Typed, TypeOK
<1>2. thread'[t] = local /\ \A u \in Threads \ {t} : thread'[u] = thread[u]
  BY <1>1 DEF Set
<1>3. \A u \in Threads \ {t} :
       /\ Undisturbed(u) /\ thread'[u].alone = thread[u].alone /\ thread'[u].raised = thread[u].raised
       /\ thread'[u].state = thread[u].state
  BY <1>2 DEF Undisturbed
<1>4. QED
  BY <1>2, <1>3 DEF Reach

(* A step that leaves the core in hand. *)
LEMMA ReachLeave ==
  ASSUME Typed, NEW t \in Threads, thread[t].root \in Roots,
         thread' = [thread EXCEPT ![t] = thread'[t]],
         thread'[t].server = 0, thread'[t].pc # "idle",
         thread'[t].root = thread[t].root, thread'[t].alone = thread[t].alone,
         UNCHANGED servers \/ servers' = [servers EXCEPT ![thread[t].root] = servers'[thread[t].root]],
         servers'[thread[t].root] \in {servers[thread[t].root], 0, thread[t].server},
         \A q \in Roots \ {thread[t].root} :
           folder'[q] = folder[q] /\ cache'[q] = cache[q] /\ (q \in overlapped' <=> q \in overlapped),
         DOMAIN core' \subseteq DOMAIN core, \A k \in DOMAIN core' : OldCore(t, k)
  PROVE  Reach(t)
<1>1. thread \in [Threads -> Locals] /\ servers \in [Roots -> Cores \cup {0}]
  BY DEF Typed, TypeOK
<1>2. \A u \in Threads \ {t} : thread'[u] = thread[u]
  BY <1>1
<1>3. \A u \in Threads \ {t} :
       /\ Undisturbed(u) /\ thread'[u].alone = thread[u].alone /\ thread'[u].raised = thread[u].raised
       /\ thread'[u].state = thread[u].state
  BY <1>2 DEF Undisturbed
<1>4. \A q \in Roots \ {thread[t].root} : servers'[q] = servers[q]
  BY <1>1
<1>5. UNCHANGED servers \/ servers'[thread[t].root] \in {0, thread[t].server}
  BY <1>1
<1>6. QED
  BY <1>2, <1>3, <1>4, <1>5 DEF Reach

LEMMA ReachConstruct ==
  ASSUME Typed, NEW t \in Threads, NEW dir \in {thread[t].root, None}, NEW changed \in Locals,
         Construct(t, dir, changed), thread[t].root \in Roots,
         changed.pc # "idle", changed.root = thread[t].root, changed.alone = thread[t].alone,
         UNCHANGED overlapped,
         \A q \in Roots \ {thread[t].root} : folder'[q] = folder[q] /\ cache'[q] = cache[q]
  PROVE  Reach(t)
<1>1. TypeOK /\ thread \in [Threads -> Locals]
  BY DEF Typed, TypeOK
<1>2. PICK c \in Cores : Constructed(t, dir, changed, c)
  BY <1>1, Constructs
<1>3. /\ thread'[t].server = c /\ thread'[t].root = thread[t].root
      /\ thread'[t].pc = changed.pc /\ thread'[t].alone = thread[t].alone
  BY <1>2 DEF Constructed, Locals
<1>4. \A u \in Threads \ {t} : thread'[u] = thread[u]
  <2>1. thread' = [thread EXCEPT ![t] = thread'[t]]
    BY <1>2 DEF Constructed
  <2>2. QED
    BY <1>1, <2>1
<1>5. \A u \in Threads \ {t} :
       /\ Undisturbed(u) /\ thread'[u].alone = thread[u].alone /\ thread'[u].raised = thread[u].raised
       /\ thread'[u].state = thread[u].state
  BY <1>4 DEF Undisturbed
<1>6. NewInHand(t, c)
  <2>1. core'[c] = New(dir)
    BY <1>2 DEF Constructed
  <2>2. QED
    BY <1>2, <1>3, <2>1 DEF NewInHand, Constructed, New
<1>7. ASSUME NEW k \in DOMAIN core' PROVE NewInHand(t, k) \/ OldCore(t, k)
  <2>1. CASE k # c
    <3>1. k \in DOMAIN core /\ core'[k] = core[k]
      BY <1>2, <2>1 DEF Constructed
    <3>2. QED
      BY <3>1 DEF OldCore
  <2>2. QED
    BY <1>6, <2>1
<1>8. UNCHANGED servers
  BY <1>2 DEF Constructed
<1>9. QED
  BY <1>3, <1>5, <1>6, <1>7, <1>8 DEF Reach

LEMMA ReachReply ==
  ASSUME Typed, NEW t \in Threads, NEW exception \in Exceptions, NEW some \in [DOMAIN core -> Server],
         \A k \in DOMAIN core :
            /\ some[k].root_dir = core[k].root_dir
            /\ k # thread[t].server => some[k].queue = core[k].queue
            /\ some[k].stale => core[k].stale,
         Reply(t, exception, some), thread[t].root \in Roots,
         UNCHANGED servers \/ servers' = [servers EXCEPT ![thread[t].root] = 0],
         \A q \in Roots \ {thread[t].root} :
           folder'[q] = folder[q] /\ cache'[q] = cache[q] /\ (q \in overlapped' <=> q \in overlapped)
  PROVE  Reach(t)
<1>1. TypeOK /\ DOMAIN some = DOMAIN core /\ servers \in [Roots -> Cores \cup {0}]
  BY DEF Typed, TypeOK
<1>2. \A q \in Roots : servers'[q] \in {servers[q], 0}
  BY <1>1
<1>3. /\ thread' = [thread EXCEPT ![t] = thread'[t]]
      /\ thread'[t].pc = "answer" /\ thread'[t].server = 0 /\ thread'[t].root = thread[t].root
      /\ thread'[t].alone = thread[t].alone
      /\ DOMAIN core' \subseteq DOMAIN core
      /\ core' = [c \in DOMAIN core' |-> some[c]]
  BY <1>1, <1>2, Replies
<1>4. \A k \in DOMAIN core' : OldCore(t, k)
  BY <1>3 DEF OldCore
<1>5. servers'[thread[t].root] \in {servers[thread[t].root], 0, thread[t].server}
  BY <1>2
<1>6. UNCHANGED servers \/ servers' = [servers EXCEPT ![thread[t].root] = servers'[thread[t].root]]
  BY <1>1
<1>7. QED
  BY <1>3, <1>4, <1>5, <1>6, ReachLeave

LEMMA ReachGo ==
  ASSUME Typed, NEW t \in Threads, NEW place \in Places \ {"idle"}, Go(t, place),
         thread[t].root \in Roots, UNCHANGED <<servers, overlapped>>,
         \A q \in Roots \ {thread[t].root} : folder'[q] = folder[q] /\ cache'[q] = cache[q],
         DOMAIN core' = DOMAIN core, \A k \in DOMAIN core : OldCore(t, k)
  PROVE  Reach(t)
<1> DEFINE local == [thread[t] EXCEPT !.pc = place]
<1>1. thread[t] \in Locals /\ thread[t].server \in {thread[t].server, servers[thread[t].root]}
  BY DEF Typed, TypeOK
<1>2. /\ local \in Locals /\ local.pc # "idle" /\ local.root = thread[t].root
      /\ local.alone = thread[t].alone /\ local.server = thread[t].server
  BY <1>1 DEF Locals
<1>3. Set(t, local)
  BY DEF Go
<1> HIDE DEF local
<1>4. QED
  BY <1>1, <1>2, <1>3, ReachSet

LEMMA ReachOSError ==
  ASSUME Typed, NEW t \in Threads, NEW e \in Exceptions, OSError(t, e), thread[t].root \in Roots,
         UNCHANGED overlapped,
         \A q \in Roots \ {thread[t].root} : folder'[q] = folder[q] /\ cache'[q] = cache[q]
  PROVE  Reach(t)
<1> DEFINE local == [thread[t] EXCEPT !.pc = "store", !.raised = e]
<1>1. thread[t] \in Locals
  BY DEF Typed, TypeOK
<1>2. /\ local \in Locals /\ local.pc # "idle" /\ local.root = thread[t].root
      /\ local.alone = thread[t].alone
  BY <1>1 DEF Locals, Places
<1>3. Construct(t, None, local)
  BY DEF OSError
<1> HIDE DEF local
<1>4. QED
  BY <1>2, <1>3, ReachConstruct

LEMMA ReachLeaves ==
  ASSUME Typed, NEW t \in Threads, NEW place \in Places \ {"idle"}, Leave(t, place),
         thread[t].root \in Roots,
         servers' = [servers EXCEPT ![thread[t].root] = servers'[thread[t].root]],
         \A q \in Roots : servers'[q] \in {servers[q], thread[t].server, 0},
         \A q \in Roots \ {thread[t].root} :
           folder'[q] = folder[q] /\ cache'[q] = cache[q] /\ (q \in overlapped' <=> q \in overlapped)
  PROVE  Reach(t)
<1> DEFINE local == [thread[t] EXCEPT !.pc = place, !.server = 0]
<1>1. TypeOK /\ thread[t] \in Locals /\ place \in Places
  BY DEF Typed, TypeOK
<1>a. \A r \in Roots : servers'[r] \in {servers[r], thread[t].server, 0}
  OBVIOUS
<1>2. /\ thread' \in [Threads -> Locals]
      /\ thread' = [thread EXCEPT ![t] = thread'[t]]
      /\ thread'[t] = local
      /\ DOMAIN core' = Live' \ {0} /\ DOMAIN core' \subseteq DOMAIN core
      /\ core' = [d \in DOMAIN core' |-> core[d]]
  BY <1>1, <1>a, Leaves
<1>3. local.server = 0 /\ local.root = thread[t].root /\ local.alone = thread[t].alone
      /\ local.pc # "idle"
  BY <1>1 DEF Locals
<1> HIDE DEF local
<1>4. \A k \in DOMAIN core' : OldCore(t, k)
  BY <1>2 DEF OldCore
<1>5. QED
  BY <1>2, <1>3, <1>4, ReachLeave

LEMMA ReachStep ==
  ASSUME Typed, NEW t \in Threads, Step(t)
  PROVE  Reach(t) \/ (Answer(t) /\ UNCHANGED <<servers, core, told, disk>>)
<1> DEFINE r == thread[t].root
<1> DEFINE c == thread[t].server
<1>0. /\ TypeOK /\ DiskOK /\ thread \in [Threads -> Locals] /\ thread[t] \in Locals
      /\ LocalOK(thread[t], core) /\ told \in 0 .. MaxMessages
      /\ core \in [DOMAIN core -> Server] /\ servers \in [Roots -> Cores \cup {0}]
  BY DEF Typed, TypeOK, InHandOK, DiskOK
<1>a. thread[t].pc # "idle" => r \in Roots
  BY <1>0 DEF LocalOK
<1>b. thread[t].pc \in InHand => c # 0 /\ c \in DOMAIN core /\ core[c] \in Server
  BY <1>0, InUse DEF LocalOK
<1>c. UNCHANGED core => DOMAIN core' = DOMAIN core /\ \A k \in DOMAIN core : OldCore(t, k)
  BY DEF OldCore
<1>d. UNCHANGED disk => /\ UNCHANGED overlapped
        /\ \A q \in Roots \ {r} :
             folder'[q] = folder[q] /\ cache'[q] = cache[q] /\ (q \in overlapped' <=> q \in overlapped)
  BY DEF disk
<1>e. ASSUME thread[t].pc \in InHand
      PROVE  /\ Renewed(t) \in [DOMAIN core -> Server]
             /\ \A k \in DOMAIN core :
                  /\ Renewed(t)[k].root_dir = core[k].root_dir
                  /\ k # c => Renewed(t)[k] = core[k]
                  /\ Renewed(t)[k].queue = core[k].queue
                  /\ Renewed(t)[k].stale => core[k].stale /\ (k = c => folder[r])
  BY <1>b, <1>e, RenewedOK
<1>1. CASE Lookup(t)
  <2>0. r \in Roots /\ UNCHANGED <<servers, disk>>
    BY <1>1, <1>a DEF Lookup, At
  <2>1. CASE Go(t, "get") /\ UNCHANGED cores
    BY <1>c, <1>d, <2>0, <2>1, ReachGo DEF Places, cores
  <2>2. CASE Construct(t, r, [thread[t] EXCEPT !.pc = "setup"])
    <3> DEFINE local == [thread[t] EXCEPT !.pc = "setup"]
    <3>1. /\ local \in Locals /\ local.root = r /\ local.pc # "idle" /\ local.alone = thread[t].alone
      BY <1>0 DEF Locals, Places
    <3> HIDE DEF local
    <3>2. Construct(t, r, local)
      BY <2>2 DEF local
    <3>3. QED
      BY <1>d, <2>0, <3>1, <3>2, ReachConstruct
  <2>3. QED
    BY <1>1, <2>1, <2>2 DEF Lookup
<1>2. CASE GetServer(t)
  <2>0. r \in Roots /\ UNCHANGED <<servers, disk>>
    BY <1>2, <1>a DEF GetServer, At
  <2>1. ASSUME NEW e \in Exceptions, Reply(t, e, core) PROVE Reach(t)
    BY <1>0, <1>d, <2>0, <2>1, ReachReply
  <2>2. ASSUME thread[t].request # Second, UNCHANGED core,
          Set(t, [thread[t] EXCEPT !.server = servers[r],
            !.pc = [lint |-> "lint", get_ui_messages |-> "empty",
                    rebuild_project |-> "rebuild"][thread[t].request]])
        PROVE Reach(t)
    <3> DEFINE place == [lint |-> "lint", get_ui_messages |-> "empty",
                         rebuild_project |-> "rebuild"][thread[t].request]
    <3> DEFINE local == [thread[t] EXCEPT !.server = servers[r], !.pc = place]
    <3>1. place \in {"lint", "empty", "rebuild"} /\ servers[r] \in Cores \cup {0}
      BY <1>0, <2>0, <2>2 DEF Locals, Requests
    <3> HIDE DEF place
    <3>2. /\ local \in Locals /\ local.server = servers[r] /\ local.pc # "idle"
          /\ local.root = r /\ local.alone = thread[t].alone
      BY <1>0, <3>1 DEF Locals, Places
    <3>3. Set(t, local)
      BY <2>2 DEF place
    <3> HIDE DEF local
    <3>4. QED
      BY <1>c, <1>d, <2>0, <2>2, <3>2, <3>3, ReachSet
  <2>3. QED
    BY <1>0, <1>2, <2>1, <2>2 DEF GetServer, Locals, Exceptions
<1>3. CASE Store(t)
  <2>0. r \in Roots /\ servers' = [servers EXCEPT ![r] = c] /\ Leave(t, "get") /\ UNCHANGED disk
    BY <1>3, <1>a DEF Store, At
  <2>1. \A q \in Roots : servers'[q] \in {servers[q], c, 0}
    BY <1>0, <2>0
  <2>2. QED
    BY <1>0, <1>d, <2>0, <2>1, ReachLeaves DEF Places
<1>4. CASE Setup(t)
  BY <1>4, <1>a, <1>c, <1>d, ReachGo DEF Setup, At, Places, cores
<1>5. CASE Clean(t)
  <2>1. \A q \in Roots \ {r} : folder'[q] = folder[q] /\ cache'[q] = cache[q]
    BY <1>0, <1>5 DEF Clean, DiskOK
  <2>2. QED
    BY <1>5, <1>a, <1>c, <2>1, ReachGo DEF Clean, At, Places, cores
<1>6. CASE MakeDirs(t)
  <2>0. /\ r \in Roots /\ UNCHANGED <<servers, overlapped>> /\ thread[t].pc \in InHand
        /\ \A q \in Roots \ {r} : folder'[q] = folder[q] /\ cache'[q] = cache[q]
    <3>1. UNCHANGED servers
      <4>1. CASE OSError(t, "FileExistsError")
        BY <4>1 DEF OSError, Construct
      <4>2. QED
        BY <1>6, <4>1 DEF MakeDirs
    <3>2. QED
      BY <1>0, <1>6, <1>a, <3>1 DEF MakeDirs, At, DiskOK, InHand, Creating
  <2>1. CASE OSError(t, "FileExistsError")
    BY <2>0, <2>1, ReachOSError DEF Exceptions
  <2>2. CASE core' = [core EXCEPT ![c].stale = FALSE] /\ Go(t, "recover")
    <3>1. DOMAIN core' = DOMAIN core /\ \A k \in DOMAIN core : OldCore(t, k)
      <4> DEFINE new == [core[c] EXCEPT !.stale = FALSE]
      <4>1. new.root_dir = core[c].root_dir /\ new.queue = core[c].queue /\ ~ new.stale
        BY <1>b, <2>0 DEF Server
      <4>2. core' = [core EXCEPT ![c] = new]
        BY <2>2
      <4> HIDE DEF new
      <4>3. QED
        BY <4>1, <4>2 DEF OldCore
    <3>2. QED
      BY <2>0, <2>2, <3>1, ReachGo DEF Places
  <2>3. QED
    BY <1>6, <2>1, <2>2 DEF MakeDirs
<1>7. CASE Recover(t)
  <2>0. /\ r \in Roots /\ UNCHANGED <<servers, disk>> /\ Go(t, "config")
        /\ thread[t].pc \in InHand /\ core[c].root_dir = r /\ thread[t].pc = "recover"
    BY <1>0, <1>7, <1>a DEF Recover, At, InHand, Creating, LocalOK
  <2>1. CASE Tell(core, c)
    <3>1. DOMAIN core' = DOMAIN core /\ \A k \in DOMAIN core : OldCore(t, k)
      BY <1>0, <2>1, Tells DEF OldCore
    <3>2. QED
      BY <1>d, <2>0, <3>1, ReachGo DEF Places
  <2>2. CASE core' = [core EXCEPT ![c].stale = (cache[r] = "stale"), ![c].config = TRUE]
    <3>1. DOMAIN core' = DOMAIN core /\ \A k \in DOMAIN core : OldCore(t, k)
      <4> DEFINE new == [core[c] EXCEPT !.stale = (cache[r] = "stale"), !.config = TRUE]
      <4>1. /\ new.root_dir = core[c].root_dir /\ new.queue = core[c].queue
            /\ new.stale => cache[r] = "stale"
        BY <1>b, <2>0 DEF Server
      <4>2. core' = [core EXCEPT ![c] = new]
        BY <2>2
      <4> HIDE DEF new
      <4>3. QED
        BY <2>0, <4>1, <4>2 DEF OldCore
    <3>2. QED
      BY <1>d, <2>0, <3>1, ReachGo DEF Places
  <2>3. QED
    BY <1>7, <2>1, <2>2 DEF Recover
<1>8. CASE SetConfig(t)
  <2>0. /\ r \in Roots /\ UNCHANGED <<servers, overlapped>> /\ thread[t].pc \in InHand
        /\ \A q \in Roots \ {r} : folder'[q] = folder[q] /\ cache'[q] = cache[q]
    <3>1. UNCHANGED folder \/ folder' = [folder EXCEPT ![r] = TRUE]
      BY <1>8 DEF SetConfig
    <3>2. QED
      BY <1>0, <1>8, <1>a, <3>1 DEF SetConfig, At, DiskOK, InHand, Creating
  <2>1. CASE OSError(t, "FileNotFoundError")
    BY <2>0, <2>1, ReachOSError DEF Exceptions
  <2>2. CASE Go(t, "store") /\ UNCHANGED cores
    BY <1>c, <2>0, <2>2, ReachGo DEF Places, cores
  <2>3. CASE Go(t, "store") /\ Tell(Renewed(t), c)
    <3>1. DOMAIN core' = DOMAIN core /\ \A k \in DOMAIN core : OldCore(t, k)
      BY <1>0, <1>e, <2>0, <2>3, Tells DEF OldCore
    <3>2. QED
      BY <2>0, <2>3, <3>1, ReachGo DEF Places
  <2>4. CASE Reply(t, "BadConfig", core)
    BY <1>0, <2>0, <2>4, ReachReply DEF Exceptions
  <2>5. QED
    BY <1>8, <2>1, <2>2, <2>3, <2>4 DEF SetConfig
<1>9. CASE Lint(t)
  <2>0. /\ r \in Roots /\ UNCHANGED <<servers, overlapped>> /\ thread[t].pc \in InHand
        /\ \A q \in Roots \ {r} : folder'[q] = folder[q] /\ cache'[q] = cache[q]
    <3>1. UNCHANGED folder \/ folder' = [folder EXCEPT ![r] = TRUE]
      BY <1>9 DEF Lint
    <3>2. QED
      BY <1>0, <1>9, <1>a, <3>1 DEF Lint, At, DiskOK, InHand, Creating
  <2>1. CASE Reply(t, thread[t].raised, core)
    BY <1>0, <2>0, <2>1, ReachReply DEF Locals
  <2>2. CASE Reply(t, IF exists[r] THEN "BadConfig" ELSE "FileNotFoundError", Renewed(t))
    <3>1. (IF exists[r] THEN "BadConfig" ELSE "FileNotFoundError") \in Exceptions
      BY DEF Exceptions
    <3>2. QED
      BY <1>e, <2>0, <2>2, <3>1, ReachReply
  <2>3. CASE Tell(Renewed(t), c) /\ Set(t, [thread[t] EXCEPT !.pc = "save", !.state =
                     IF Renewed(t)[c].stale THEN "stale" ELSE "fresh"])
    <3> DEFINE local == [thread[t] EXCEPT !.pc = "save", !.state =
                            IF Renewed(t)[c].stale THEN "stale" ELSE "fresh"]
    <3>1. DOMAIN core' = DOMAIN core /\ \A k \in DOMAIN core : OldCore(t, k)
      BY <1>0, <1>e, <2>0, <2>3, Tells DEF OldCore
    <3>2. /\ local \in Locals /\ local.pc # "idle" /\ local.server = c /\ local.root = r
          /\ local.alone = thread[t].alone
      BY <1>0 DEF Locals, Places
    <3>3. Set(t, local)
      BY <2>3
    <3> HIDE DEF local
    <3>4. QED
      BY <2>0, <3>1, <3>2, <3>3, ReachSet
  <2>4. QED
    BY <1>9, <2>1, <2>2, <2>3 DEF Lint
<1>10. CASE Save(t)
  <2>0. /\ r \in Roots /\ UNCHANGED <<servers, overlapped>> /\ Reply(t, thread[t].raised, core)
        /\ \A q \in Roots \ {r} : folder'[q] = folder[q] /\ cache'[q] = cache[q]
    BY <1>0, <1>10, <1>a DEF Save, At, DiskOK
  <2>1. QED
    BY <1>0, <2>0, ReachReply DEF Locals
<1>11. CASE Empty(t)
  <2>0. r \in Roots /\ UNCHANGED <<servers, disk>>
    BY <1>11, <1>a DEF Empty, At
  <2>1. CASE Reply(t, thread[t].raised, core)
    BY <1>0, <1>d, <2>0, <2>1, ReachReply DEF Locals
  <2>2. CASE Go(t, "pop") /\ UNCHANGED core
    BY <1>c, <1>d, <2>0, <2>2, ReachGo DEF Places
  <2>3. QED
    BY <1>11, <2>1, <2>2 DEF Empty
<1>12. CASE PopMessage(t)
  <2>0. /\ r \in Roots /\ UNCHANGED <<servers, disk>> /\ thread[t].pc \in InHand
        /\ core' = [core EXCEPT ![c].queue = @ - 1] /\ Go(t, "empty")
    BY <1>12, <1>a DEF PopMessage, At, InHand
  <2> DEFINE new == [core[c] EXCEPT !.queue = @ - 1]
  <2>1. new.root_dir = core[c].root_dir /\ new.stale = core[c].stale
    BY <1>b, <2>0 DEF Server
  <2>2. core' = [core EXCEPT ![c] = new]
    BY <2>0
  <2> HIDE DEF new
  <2>3. DOMAIN core' = DOMAIN core /\ \A k \in DOMAIN core : OldCore(t, k)
    BY <2>1, <2>2 DEF OldCore
  <2>4. QED
    BY <1>d, <2>0, <2>3, ReachGo DEF Places
<1>13. CASE Rebuild(t)
  <2> DEFINE local == [thread[t] EXCEPT !.pc = "delete", !.request = Second]
  <2>0. /\ UNCHANGED <<servers, told>> /\ r \in Roots /\ thread[t].pc = "rebuild"
    BY <1>13, <1>a DEF Rebuild, At
  <2>1. /\ local \in Locals /\ local.server = c /\ local.pc # "idle" /\ local.root = r
        /\ local.alone = thread[t].alone
    BY <1>0 DEF Locals, Places
  <2>2. CASE core[c].root_dir = None
    <3>1. Set(t, local) /\ UNCHANGED <<core, disk>>
      BY <1>13, <2>2 DEF Rebuild
    <3> HIDE DEF local
    <3>2. QED
      BY <1>c, <1>d, <2>0, <2>1, <3>1, ReachSet
  <2>3. CASE core[c].root_dir # None
    <3>1. /\ folder' = [folder EXCEPT ![r] = FALSE] /\ cache' = [cache EXCEPT ![r] = None]
          /\ core' = [d \in DOMAIN core |-> [core[d] EXCEPT !.stale = @ \/ core[d].root_dir = r]]
          /\ thread' = [u \in Threads |->
               IF u = t THEN local
               ELSE IF At(u, "save") /\ thread[u].root = r
               THEN [thread[u] EXCEPT !.state = "stale"] ELSE thread[u]]
          /\ overlapped' = IF Others(t, r) = {} THEN overlapped \ {r} ELSE overlapped \cup {r}
      BY <1>13, <2>3 DEF Rebuild
    <3>2. thread'[t] = local
      BY <3>1
    <3> HIDE DEF local
    <3>3. ASSUME NEW u \in Threads \ {t}
          PROVE  /\ Undisturbed(u) /\ thread'[u].alone = thread[u].alone
                 /\ thread'[u].raised = thread[u].raised
                 /\ thread'[u].state = thread[u].state \/ thread[u].root = r
      BY <1>0, <3>1 DEF Undisturbed, Locals
    <3>4. DOMAIN core' = DOMAIN core
      BY <3>1
    <3>5. ASSUME NEW k \in DOMAIN core' PROVE OldCore(t, k)
      <4>1. core[k] \in Server /\ k \in DOMAIN core
        BY <1>0, <3>4
      <4> DEFINE new == [core[k] EXCEPT !.stale = @ \/ core[k].root_dir = r]
      <4>2. /\ new.root_dir = core[k].root_dir /\ new.queue = core[k].queue
            /\ new.stale => core[k].stale \/ core[k].root_dir = r
        BY <4>1 DEF Server
      <4>3. core'[k] = new
        BY <3>1, <4>1
      <4> HIDE DEF new
      <4>4. QED
        BY <2>0, <4>1, <4>2, <4>3 DEF OldCore
    <3>6. \A q \in Roots \ {r} :
             folder'[q] = folder[q] /\ cache'[q] = cache[q] /\ (q \in overlapped' <=> q \in overlapped)
      BY <1>0, <3>1 DEF DiskOK
    <3>7. QED
      BY <2>0, <2>1, <3>2, <3>3, <3>5, <3>6 DEF Reach
  <2>4. QED
    BY <2>2, <2>3
<1>14. CASE DeleteServer(t)
  <2>0. r \in Roots /\ servers' = [servers EXCEPT ![r] = 0]
        /\ \A q \in Roots \ {r} :
             folder'[q] = folder[q] /\ cache'[q] = cache[q] /\ (q \in overlapped' <=> q \in overlapped)
    BY <1>14, <1>a DEF DeleteServer, At
  <2>1. CASE Reply(t, "KeyError", core)
    BY <1>0, <2>0, <2>1, ReachReply DEF Exceptions
  <2>2. CASE Leave(t, "lookup")
    <3>1. \A q \in Roots : servers'[q] \in {servers[q], c, 0}
      BY <1>0, <2>0
    <3>2. QED
      BY <1>0, <2>0, <2>2, <3>1, ReachLeaves DEF Places
  <2>3. QED
    BY <1>14, <2>1, <2>2 DEF DeleteServer
<1>15. CASE Answer(t)
  BY <1>15 DEF Answer, cores
<1>16. QED
  BY <1>1, <1>2, <1>3, <1>4, <1>5, <1>6, <1>7, <1>8, <1>9, <1>10, <1>11, <1>12, <1>13, <1>14, <1>15
  DEF Step

-----------------------------------------------------------------------------
(* The fallback has nothing that a rebuild could make stale. *)
FallbackIsFresh == \A c \in DOMAIN core : core[c].root_dir = None => ~ core[c].stale

(* No two projects have a core in common. *)
OwnedByOne ==
  /\ \A r, s \in Roots : servers[r] # 0 /\ servers[r] = servers[s] => r = s
  /\ \A t \in Threads, r \in Roots :
       servers[r] # 0 /\ thread[t].server = servers[r] => thread[t].root = r
  /\ \A t, u \in Threads :
       thread[t].server # 0 /\ thread[t].server = thread[u].server => thread[t].root = thread[u].root

Owned == Typed /\ FallbackIsFresh /\ OwnedByOne

LEMMA AnswerFacts ==
  ASSUME Typed, NEW t \in Threads, Answer(t)
  PROVE  /\ thread'[t] = Idle /\ thread[t].server = 0
         /\ \A u \in Threads \ {t} : thread'[u] = thread[u]
         /\ UNCHANGED <<exists, servers, core, told, folder, cache, overlapped>>
BY DEF Answer, Set, At, cores, disk, Typed, TypeOK, InHandOK, LocalOK, InHand, Creating

LEMMA OwnedStep ==
  ASSUME Owned, NEW t \in Threads, Reach(t)
  PROVE  FallbackIsFresh' /\ OwnedByOne'
<1> DEFINE r == thread[t].root
<1> DEFINE c == thread[t].server
<1>1. FallbackIsFresh'
  <2> SUFFICES ASSUME NEW k \in DOMAIN core', core'[k].root_dir = None PROVE ~ core'[k].stale
    BY DEF FallbackIsFresh
  <2>1. NewInHand(t, k) \/ OldCore(t, k)
    BY DEF Reach
  <2>2. r # None
    BY NoneAssumption DEF Reach
  <2>3. QED
    BY <2>1, <2>2 DEF NewInHand, OldCore, Owned, FallbackIsFresh
<1>2. \A u \in Threads \ {t} : thread'[u].server = thread[u].server /\ thread'[u].root = thread[u].root
  BY DEF Reach, Undisturbed
<1>3. thread'[t].server # 0 => thread'[t].root = r
  BY DEF Reach
<1>4. \/ UNCHANGED servers
      \/ /\ thread'[t].server = 0 /\ servers'[r] \in {0, c}
         /\ \A q \in Roots \ {r} : servers'[q] = servers[q]
  BY DEF Reach
<1>5. thread'[t].server # 0 =>
       \/ thread'[t].server = c
       \/ thread'[t].server = servers[r]
       \/ /\ \A q \in Roots : servers[q] # thread'[t].server
          /\ \A u \in Threads \ {t} : thread[u].server # thread'[t].server
  BY DEF Reach, NewInHand
<1>6. r \in Roots
  BY DEF Reach
<1>o. OwnedByOne
  BY DEF Owned
<1>7. ASSUME NEW q \in Roots, NEW s \in Roots, servers'[q] # 0, servers'[q] = servers'[s] PROVE q = s
  BY <1>4, <1>6, <1>7, <1>o DEF OwnedByOne
<1>8. ASSUME NEW u \in Threads, NEW q \in Roots, servers'[q] # 0, thread'[u].server = servers'[q]
      PROVE  thread'[u].root = q
  <2>1. CASE u = t
    <3>1. UNCHANGED servers /\ thread'[t].root = r
      BY <1>3, <1>4, <1>8, <2>1
    <3>2. QED
      BY <1>5, <1>6, <1>8, <1>o, <2>1, <3>1 DEF OwnedByOne
  <2>2. CASE u # t
    BY <1>2, <1>4, <1>6, <1>8, <1>o, <2>2 DEF OwnedByOne
  <2>3. QED
    BY <2>1, <2>2
<1>9. ASSUME NEW u \in Threads \ {t}, thread'[t].server # 0, thread'[t].server = thread'[u].server
      PROVE  thread'[t].root = thread'[u].root
  BY <1>2, <1>3, <1>5, <1>6, <1>9, <1>o DEF OwnedByOne
<1>10. ASSUME NEW u \in Threads, NEW v \in Threads,
              thread'[u].server # 0, thread'[u].server = thread'[v].server
       PROVE  thread'[u].root = thread'[v].root
  BY <1>2, <1>9, <1>10, <1>o DEF OwnedByOne
<1>11. QED
  BY <1>1, <1>7, <1>8, <1>10 DEF OwnedByOne

LEMMA OwnedNext == Owned /\ [Next]_vars => Owned'
<1> SUFFICES ASSUME Owned, [Next]_vars PROVE Owned'
  OBVIOUS
<1>1. Typed /\ Typed'
  BY TypedNext DEF Owned
<1>2. ASSUME NEW r \in Roots, Edit(r) PROVE FallbackIsFresh' /\ OwnedByOne'
  BY <1>2 DEF Edit, cores, Owned, FallbackIsFresh, OwnedByOne
<1>3. ASSUME NEW t \in Threads, NEW r \in Roots, NEW request \in Requests, Request(t, r, request)
      PROVE  FallbackIsFresh' /\ OwnedByOne'
  <2>1. /\ UNCHANGED <<servers, core>> /\ thread'[t].server = 0
        /\ \A u \in Threads \ {t} : thread'[u].server = thread[u].server /\ thread'[u].root = thread[u].root
    BY <1>1, <1>3, Arrives DEF cores, Undisturbed
  <2>2. QED
    BY <2>1 DEF Owned, FallbackIsFresh, OwnedByOne
<1>4. ASSUME NEW t \in Threads, Step(t) PROVE FallbackIsFresh' /\ OwnedByOne'
  <2>1. CASE Reach(t)
    BY <2>1, OwnedStep
  <2>2. CASE Answer(t)
    <3>1. /\ UNCHANGED <<servers, core>> /\ thread'[t].server = 0
          /\ \A u \in Threads \ {t} : thread'[u] = thread[u]
      BY <1>1, <2>2, AnswerFacts DEF Idle
    <3>2. QED
      BY <3>1 DEF Owned, FallbackIsFresh, OwnedByOne
  <2>3. QED
    BY <1>1, <1>4, <2>1, <2>2, ReachStep
<1>5. ASSUME UNCHANGED vars PROVE FallbackIsFresh' /\ OwnedByOne'
  BY <1>5 DEF vars, cores, Owned, FallbackIsFresh, OwnedByOne
<1>6. FallbackIsFresh' /\ OwnedByOne'
  BY <1>2, <1>3, <1>4, <1>5 DEF Next
<1>7. QED
  BY <1>1, <1>6 DEF Owned

LEMMA OwnedInit == Init => Owned
<1> SUFFICES ASSUME Init PROVE FallbackIsFresh /\ OwnedByOne
  BY TypedInit DEF Owned
<1>1. DOMAIN core = {} /\ \A t \in Threads : thread[t].server = 0
  BY DEF Init, Idle
<1>2. \A r \in Roots : servers[r] = 0
  BY DEF Init
<1>3. QED
  BY <1>1, <1>2 DEF FallbackIsFresh, OwnedByOne

-----------------------------------------------------------------------------
(* A request that is alone finds things as it left them. *)
InDict == {"get", "lint", "save", "empty", "pop", "rebuild", "delete"}

AsLeft(t) ==
  LET r == thread[t].root IN
  /\ thread[t].pc \in InDict => servers[r] # 0
  /\ thread[t].pc = "makedirs" => ~ folder[r]
  /\ thread[t].pc = "pop" => core[thread[t].server].queue # 0

Unmet(t) == \A u \in Threads \ {t} : thread[u].pc # "idle" => thread[u].root # thread[t].root

AloneOK ==
  \A t \in Threads : thread[t].alone =>
    /\ thread[t].raised \notin {"KeyError", "FileExistsError"}
    /\ thread[t].pc # "idle" => Unmet(t) /\ AsLeft(t)

AloneInv == Owned /\ AloneOK

(* Another request's step is no matter to it. *)
LEMMA AloneOthers ==
  ASSUME AloneInv, Owned', NEW t \in Threads, thread[t].pc # "idle", Reach(t),
         NEW u \in Threads \ {t}, thread'[u].alone
  PROVE  /\ thread'[u].raised \notin {"KeyError", "FileExistsError"}
         /\ thread'[u].pc # "idle" => Unmet(u)' /\ AsLeft(u)'
<1>1. /\ thread'[u].pc = thread[u].pc /\ thread'[u].root = thread[u].root
      /\ thread'[u].server = thread[u].server /\ thread'[u].alone = thread[u].alone
      /\ thread'[u].raised = thread[u].raised
  BY DEF Reach, Undisturbed
<1>2. thread'[u].raised \notin {"KeyError", "FileExistsError"}
  BY <1>1 DEF AloneInv, AloneOK
<1>3. ASSUME thread[u].pc # "idle" PROVE Unmet(u)' /\ AsLeft(u)'
  <2>1. Unmet(u) /\ AsLeft(u) /\ thread[t].root # thread[u].root /\ thread[u].root \in Roots
    BY <1>1, <1>3 DEF AloneInv, AloneOK, Unmet, Owned, Typed, InHandOK, LocalOK
  <2>2. Unmet(u)'
    <3> SUFFICES ASSUME NEW v \in Threads \ {u}, thread'[v].pc # "idle"
                 PROVE  thread'[v].root # thread'[u].root
      BY DEF Unmet
    <3>1. CASE v = t
      BY <1>1, <2>1, <3>1 DEF Reach
    <3>2. CASE v # t
      BY <1>1, <2>1, <3>2 DEF Reach, Undisturbed, Unmet
    <3>3. QED
      BY <3>1, <3>2
  <2>3. servers'[thread[u].root] = servers[thread[u].root] /\ folder'[thread[u].root] = folder[thread[u].root]
    BY <2>1 DEF Reach
  <2>4. ASSUME thread[u].pc = "pop"
        PROVE  core'[thread[u].server].queue = core[thread[u].server].queue
    <3> DEFINE k == thread[u].server
    <3>1. k # 0 /\ k \in DOMAIN core'
      <4>1. k # 0
        BY <2>4 DEF AloneInv, Owned, Typed, InHandOK, LocalOK, InHand
      <4>2. k \in Live' /\ DOMAIN core' = Live' \ {0}
        BY <1>1 DEF Live, Owned, Typed, TypeOK
      <4>3. QED
        BY <4>1, <4>2
    <3>2. k # thread[t].server
      BY <2>1, <3>1 DEF AloneInv, Owned, OwnedByOne
    <3>3. ~ NewInHand(t, k)
      BY DEF NewInHand
    <3>4. QED
      BY <3>1, <3>2, <3>3 DEF Reach, OldCore
  <2>5. AsLeft(u)'
    BY <1>1, <2>1, <2>3, <2>4 DEF AsLeft
  <2>6. QED
    BY <2>2, <2>5
<1>4. QED
  BY <1>1, <1>2, <1>3

(* Where its own step takes it. *)
LEMMA Went ==
  ASSUME Typed, NEW t \in Threads, NEW place \in Places, Go(t, place)
  PROVE  /\ thread'[t].pc = place /\ thread'[t].raised = thread[t].raised
         /\ thread'[t].server = thread[t].server /\ thread'[t].root = thread[t].root
         /\ thread'[t].request = thread[t].request
<1>1. thread \in [Threads -> Locals]
  BY DEF Typed, TypeOK
<1>2. thread'[t] = [thread[t] EXCEPT !.pc = place]
  BY <1>1, GoesOn
<1>3. QED
  BY <1>1, <1>2 DEF Locals

LEMMA Replied ==
  ASSUME NEW t \in Threads, thread \in [Threads -> Locals], NEW e, NEW some, Reply(t, e, some)
  PROVE  thread'[t].pc = "answer" /\ thread'[t].raised = e
BY DEF Reply, Set, Idle

LEMMA Made ==
  ASSUME Typed, NEW t \in Threads, NEW dir, NEW changed \in Locals, Construct(t, dir, changed)
  PROVE  /\ thread'[t].pc = changed.pc /\ thread'[t].raised = changed.raised
         /\ thread'[t].request = changed.request
<1>1. TypeOK
  BY DEF Typed
<1>2. PICK c \in Cores : Constructed(t, dir, changed, c)
  BY <1>1, Constructs
<1>3. QED
  BY <1>2 DEF Constructed, Locals

LEMMA Failed ==
  ASSUME Typed, NEW t \in Threads, NEW e \in Exceptions, OSError(t, e)
  PROVE  thread'[t].pc = "store" /\ thread'[t].raised = e
<1> DEFINE local == [thread[t] EXCEPT !.pc = "store", !.raised = e]
<1>1. thread[t] \in Locals
  BY DEF Typed, TypeOK
<1>2. local \in Locals /\ local.pc = "store" /\ local.raised = e
  BY <1>1 DEF Locals, Places
<1>3. Construct(t, None, local)
  BY DEF OSError
<1> HIDE DEF local
<1>4. QED
  BY <1>2, <1>3, Made

LEMMA AloneItself ==
  ASSUME AloneInv, NEW t \in Threads, thread[t].pc # "idle", thread[t].alone, Step(t), ~ Answer(t)
  PROVE  /\ thread'[t].raised \notin {"KeyError", "FileExistsError"}
         /\ thread'[t].root = thread[t].root => AsLeft(t)'
<1> DEFINE r == thread[t].root
<1> DEFINE c == thread[t].server
<1> DEFINE bad == {"KeyError", "FileExistsError"}
<1> DEFINE goal == /\ thread'[t].raised \notin bad
                   /\ thread'[t].root = r => AsLeft(t)'
<1>0. /\ Typed /\ TypeOK /\ thread \in [Threads -> Locals] /\ thread[t] \in Locals
      /\ LocalOK(thread[t], core) /\ thread[t].raised \notin bad /\ AsLeft(t) /\ r \in Roots
  BY DEF AloneInv, AloneOK, Owned, Typed, TypeOK, InHandOK, LocalOK
<1>a. ASSUME NEW e \in Exceptions \ bad, NEW some, Reply(t, e, some) PROVE goal
  BY <1>0, <1>a, Replied DEF AsLeft, InDict
<1>b. ASSUME NEW place \in {"get", "lint", "save", "empty", "rebuild", "delete"}, Go(t, place),
             UNCHANGED servers, servers[r] # 0
      PROVE  goal
  BY <1>0, <1>b, Went DEF AsLeft, Places
<1>c. ASSUME NEW place \in {"setup", "clean", "recover", "config", "store", "lookup"}, Go(t, place)
      PROVE  goal
  BY <1>0, <1>c, Went DEF AsLeft, Places, InDict
<1>1. CASE Lookup(t)
  <2>1. CASE Construct(t, r, [thread[t] EXCEPT !.pc = "setup"])
    <3> DEFINE local == [thread[t] EXCEPT !.pc = "setup"]
    <3>1. /\ local \in Locals /\ local.pc = "setup" /\ local.raised = thread[t].raised
      BY <1>0 DEF Locals, Places
    <3> HIDE DEF local
    <3>2. Construct(t, r, local)
      BY <2>1 DEF local
    <3>3. QED
      BY <1>0, <3>1, <3>2, Made DEF AsLeft, InDict
  <2>2. QED
    BY <1>1, <1>b, <2>1 DEF Lookup
<1>2. CASE GetServer(t)
  <2>1. servers[r] # 0 /\ UNCHANGED servers
    BY <1>0, <1>2 DEF GetServer, At, AsLeft, InDict
  <2>2. CASE Reply(t, thread[t].raised, core)
    BY <1>0, <1>a, <2>2 DEF Locals
  <2>3. ASSUME thread[t].request # Second,
          Set(t, [thread[t] EXCEPT !.server = servers[r],
            !.pc = [lint |-> "lint", get_ui_messages |-> "empty",
                    rebuild_project |-> "rebuild"][thread[t].request]])
        PROVE goal
    <3> DEFINE place == [lint |-> "lint", get_ui_messages |-> "empty",
                         rebuild_project |-> "rebuild"][thread[t].request]
    <3>1. place \in {"lint", "empty", "rebuild"}
      BY <1>0, <2>3 DEF Locals, Requests
    <3> HIDE DEF place
    <3>2. thread'[t] = [thread[t] EXCEPT !.server = servers[r], !.pc = place]
      BY <1>0, <2>3 DEF Set, place
    <3>3. thread'[t].pc = place /\ thread'[t].raised = thread[t].raised
      BY <1>0, <3>2 DEF Locals
    <3>4. QED
      BY <1>0, <2>1, <3>1, <3>3 DEF AsLeft
  <2>4. QED
    BY <1>2, <2>1, <2>2, <2>3 DEF GetServer
<1>3. CASE Store(t)
  <2>1. /\ servers' = [servers EXCEPT ![r] = c] /\ Leave(t, "get") /\ thread[t].pc = "store"
        /\ servers \in [Roots -> Cores \cup {0}]
    BY <1>0, <1>3 DEF Store, At, TypeOK
  <2>2. \A q \in Roots : servers'[q] \in {servers[q], c, 0}
    BY <2>1
  <2>3. thread'[t] = [thread[t] EXCEPT !.pc = "get", !.server = 0]
    BY <1>0, <2>1 DEF Leave, Set
  <2>4. thread'[t].pc = "get" /\ thread'[t].raised = thread[t].raised
    BY <1>0, <2>3 DEF Locals
  <2>5. servers'[r] # 0
    BY <1>0, <2>1 DEF LocalOK, InHand
  <2>6. QED
    BY <1>0, <2>4, <2>5 DEF AsLeft
<1>4. CASE Setup(t)
  BY <1>4, <1>c DEF Setup
<1>5. CASE Clean(t)
  <2>1. Go(t, "makedirs") /\ folder' = [folder EXCEPT ![r] = FALSE] /\ folder \in [Roots -> BOOLEAN]
    BY <1>0, <1>5 DEF Clean, TypeOK
  <2>2. QED
    BY <1>0, <2>1, Went DEF AsLeft, Places, InDict
<1>6. CASE MakeDirs(t)
  <2>1. ~ folder[r]
    BY <1>0, <1>6 DEF MakeDirs, At, AsLeft
  <2>2. QED
    BY <1>6, <1>c, <2>1 DEF MakeDirs
<1>7. CASE Recover(t)
  BY <1>7, <1>c DEF Recover
<1>8. CASE SetConfig(t)
  <2>1. CASE OSError(t, "FileNotFoundError")
    BY <1>0, <2>1, Failed DEF AsLeft, InDict, Exceptions
  <2>2. QED
    BY <1>8, <1>a, <1>c, <2>1 DEF SetConfig, Exceptions
<1>9. CASE Lint(t)
  <2>0. servers[r] # 0 /\ UNCHANGED servers
    BY <1>0, <1>9 DEF Lint, At, AsLeft, InDict
  <2>1. CASE Reply(t, thread[t].raised, core)
    BY <1>0, <1>a, <2>1 DEF Locals
  <2>2. CASE Reply(t, IF exists[r] THEN "BadConfig" ELSE "FileNotFoundError", Renewed(t))
    <3>1. (IF exists[r] THEN "BadConfig" ELSE "FileNotFoundError") \in Exceptions \ bad
      BY DEF Exceptions
    <3>2. QED
      BY <1>a, <2>2, <3>1
  <2>3. ASSUME NEW state, Set(t, [thread[t] EXCEPT !.pc = "save", !.state = state])
        PROVE goal
    <3>1. thread'[t] = [thread[t] EXCEPT !.pc = "save", !.state = state]
      BY <1>0, <2>3 DEF Set
    <3>2. thread'[t].pc = "save" /\ thread'[t].raised = thread[t].raised
      BY <1>0, <3>1 DEF Locals
    <3>3. QED
      BY <1>0, <2>0, <3>2 DEF AsLeft
  <2>4. QED
    BY <1>9, <2>1, <2>2, <2>3 DEF Lint
<1>10. CASE Save(t)
  BY <1>0, <1>10, <1>a DEF Save, Locals
<1>11. CASE Empty(t)
  <2>0. servers[r] # 0 /\ UNCHANGED servers
    BY <1>0, <1>11 DEF Empty, At, AsLeft, InDict
  <2>1. CASE Reply(t, thread[t].raised, core)
    BY <1>0, <1>a, <2>1 DEF Locals
  <2>2. CASE core[c].queue # 0 /\ Go(t, "pop") /\ UNCHANGED core
    BY <1>0, <2>0, <2>2, Went DEF AsLeft, Places
  <2>3. QED
    BY <1>11, <2>1, <2>2 DEF Empty
<1>12. CASE PopMessage(t)
  <2>1. servers[r] # 0 /\ UNCHANGED servers /\ Go(t, "empty")
    BY <1>0, <1>12 DEF PopMessage, At, AsLeft, InDict
  <2>2. QED
    BY <1>b, <2>1
<1>13. CASE Rebuild(t)
  <2>1. servers[r] # 0 /\ UNCHANGED servers
    BY <1>0, <1>13 DEF Rebuild, At, AsLeft, InDict
  <2> DEFINE local == [thread[t] EXCEPT !.pc = "delete", !.request = Second]
  <2>2. thread'[t] = local
    BY <1>0, <1>13 DEF Rebuild, Set
  <2>3. thread'[t].pc = "delete" /\ thread'[t].raised = thread[t].raised
    BY <1>0, <2>2 DEF Locals
  <2>4. QED
    BY <1>0, <2>1, <2>3 DEF AsLeft
<1>14. CASE DeleteServer(t)
  <2>1. servers[r] # 0 /\ Leave(t, "lookup")
    BY <1>0, <1>14 DEF DeleteServer, At, AsLeft, InDict
  <2>2. thread'[t] = [thread[t] EXCEPT !.pc = "lookup", !.server = 0]
    BY <1>0, <2>1 DEF Leave, Set
  <2>3. thread'[t].pc = "lookup" /\ thread'[t].raised = thread[t].raised
    BY <1>0, <2>2 DEF Locals
  <2>4. QED
    BY <1>0, <2>3 DEF AsLeft, InDict
<1>15. QED
  BY <1>1, <1>2, <1>3, <1>4, <1>5, <1>6, <1>7, <1>8, <1>9, <1>10, <1>11, <1>12, <1>13, <1>14
  DEF Step

LEMMA Busy == \A t \in Threads : Step(t) => thread[t].pc # "idle"
BY DEF Step, Lookup, GetServer, Store, Setup, Clean, MakeDirs, Recover, SetConfig, Lint, Save,
       Empty, PopMessage, Rebuild, DeleteServer, Answer, At

LEMMA AloneNext == AloneInv /\ [Next]_vars => AloneInv'
<1> SUFFICES ASSUME AloneInv, [Next]_vars PROVE AloneInv'
  OBVIOUS
<1>0. Typed /\ Owned /\ Owned'
  BY OwnedNext DEF AloneInv, Owned
<1>1. ASSUME NEW r \in Roots, Edit(r) PROVE AloneOK'
  BY <1>1 DEF Edit, cores, disk, AloneInv, AloneOK, Unmet, AsLeft
<1>2. ASSUME NEW t \in Threads, NEW r \in Roots, NEW request \in Requests, Request(t, r, request)
      PROVE  AloneOK'
  <2> SUFFICES ASSUME NEW u \in Threads, thread'[u].alone
               PROVE  /\ thread'[u].raised \notin {"KeyError", "FileExistsError"}
                      /\ thread'[u].pc # "idle" => Unmet(u)' /\ AsLeft(u)'
    BY DEF AloneOK
  <2>1. /\ thread'[t].pc = "lookup" /\ thread'[t].root = r /\ thread'[t].raised = "none"
        /\ thread'[t].alone = (Others(t, r) = {})
        /\ \A v \in Threads \ {t} :
              /\ Undisturbed(v)
              /\ thread'[v].raised = thread[v].raised
              /\ thread'[v].alone = (thread[v].alone /\ v \notin Others(t, r))
        /\ UNCHANGED <<servers, folder, core>>
    BY <1>0, <1>2, Arrives DEF cores, disk
  <2>2. CASE u = t
    <3>1. Others(t, r) = {}
      BY <2>1, <2>2
    <3>2. Unmet(t)'
      BY <2>1, <3>1 DEF Unmet, Others, Undisturbed, At
    <3>3. QED
      BY <2>1, <2>2, <3>2 DEF AsLeft, InDict
  <2>3. CASE u # t
    <3>1. thread[u].alone /\ u \notin Others(t, r)
      BY <2>1, <2>3
    <3>2. /\ thread[u].raised \notin {"KeyError", "FileExistsError"}
          /\ thread[u].pc # "idle" => Unmet(u) /\ AsLeft(u) /\ thread[u].root # r
      BY <2>3, <3>1 DEF AloneInv, AloneOK, Others, At
    <3>3. ASSUME thread[u].pc # "idle" PROVE Unmet(u)' /\ AsLeft(u)'
      BY <2>1, <2>3, <3>2, <3>3 DEF Unmet, AsLeft, Undisturbed
    <3>4. QED
      BY <2>1, <2>3, <3>2, <3>3 DEF Undisturbed
  <2>4. QED
    BY <2>2, <2>3
<1>3. ASSUME NEW t \in Threads, Step(t) PROVE AloneOK'
  <2> SUFFICES ASSUME NEW u \in Threads, thread'[u].alone
               PROVE  /\ thread'[u].raised \notin {"KeyError", "FileExistsError"}
                      /\ thread'[u].pc # "idle" => Unmet(u)' /\ AsLeft(u)'
    BY DEF AloneOK
  <2>0. thread[t].pc # "idle"
    BY <1>3, Busy
  <2>1. CASE Answer(t)
    <3>1. /\ UNCHANGED <<servers, folder, core>> /\ thread'[t] = Idle
          /\ \A v \in Threads \ {t} : thread'[v] = thread[v]
      BY <1>0, <2>1, AnswerFacts
    <3>2. Idle.pc = "idle" /\ Idle.raised = "none"
      BY DEF Idle
    <3>3. CASE u = t
      BY <3>1, <3>2, <3>3
    <3>4. CASE u # t
      <4>1. /\ thread[u].raised \notin {"KeyError", "FileExistsError"}
            /\ thread[u].pc # "idle" => Unmet(u) /\ AsLeft(u)
        BY <3>1, <3>4 DEF AloneInv, AloneOK
      <4>2. QED
        BY <3>1, <3>2, <3>4, <4>1 DEF Unmet, AsLeft
    <3>5. QED
      BY <3>3, <3>4
  <2>2. CASE ~ Answer(t)
    <3>1. Reach(t)
      BY <1>0, <1>3, <2>2, ReachStep
    <3>2. CASE u = t
      <4>1. CASE thread'[t].pc = "idle"
        <5>1. FALSE
          BY <3>1, <4>1 DEF Reach
        <5>2. QED
          BY <5>1
      <4>2. CASE thread'[t].pc # "idle"
        <5>1. thread[t].alone /\ thread'[t].root = thread[t].root
          BY <3>1, <3>2, <4>2 DEF Reach
        <5>2. Unmet(t)'
          BY <2>0, <3>1, <5>1 DEF AloneInv, AloneOK, Unmet, Reach, Undisturbed
        <5>3. QED
          BY <1>3, <2>0, <2>2, <3>2, <5>1, <5>2, AloneItself
      <4>3. QED
        BY <4>1, <4>2
    <3>3. CASE u # t
      BY <1>0, <2>0, <3>1, <3>3, AloneOthers
    <3>4. QED
      BY <3>2, <3>3
  <2>3. QED
    BY <2>1, <2>2
<1>4. ASSUME UNCHANGED vars PROVE AloneOK'
  BY <1>4 DEF vars, cores, disk, AloneInv, AloneOK, Unmet, AsLeft
<1>5. AloneOK'
  BY <1>1, <1>2, <1>3, <1>4 DEF Next
<1>6. QED
  BY <1>0, <1>5 DEF AloneInv

-----------------------------------------------------------------------------
(* A core that knows what was known before the last rebuild of its folder. *)
Obsolete(r, k) == k \in DOMAIN core /\ core[k].root_dir = r /\ core[k].stale

(* It may be in use only while the request that did the rebuild has still  *)
(* to delete it from the dict; until then nothing brings the folder back.  *)
Doomed(r, k) ==
  /\ \E u \in Threads : thread[u].pc = "delete" /\ thread[u].root = r
  /\ \A t \in Threads : thread[t].server = k => thread[t].pc = "delete" \/ servers[r] = k
  /\ servers[r] = k =>
       /\ ~ folder[r]
       /\ \A t \in Threads : thread[t].root = r =>
            /\ thread[t].pc \notin Creating \cup {"store", "save"}
            /\ thread[t].pc \in {"lint", "empty", "pop", "rebuild"} => thread[t].server = k

FreshAt(r) ==
  /\ cache[r] # "stale"
  /\ \A t \in Threads : thread[t].root = r /\ thread[t].pc = "save" => thread[t].state = "fresh"
  /\ \A k \in DOMAIN core : Obsolete(r, k) => Doomed(r, k)

RebuildOK == \A r \in Roots \ overlapped : FreshAt(r)

RebuildInv == Owned /\ RebuildOK

(* Steps for another root do not disturb it. *)
LEMMA FreshElsewhere ==
  ASSUME RebuildInv, NEW t \in Threads, Reach(t), NEW r \in Roots \ overlapped, r # thread[t].root
  PROVE  FreshAt(r)'
<1>0. /\ FreshAt(r) /\ TypeOK /\ LocalOK(thread[t], core) /\ r # None /\ thread[t].root \in Roots
  BY NoneAssumption DEF RebuildInv, RebuildOK, Owned, Typed, InHandOK, Reach
<1>1. /\ servers'[r] = servers[r] /\ folder'[r] = folder[r] /\ cache'[r] = cache[r]
      /\ thread'[t].root # r
  BY <1>0 DEF Reach
<1>2. \A u \in Threads \ {t} :
       /\ thread'[u].pc = thread[u].pc /\ thread'[u].server = thread[u].server
       /\ thread'[u].root = thread[u].root
       /\ thread[u].root = r => thread'[u].state = thread[u].state
  BY DEF Reach, Undisturbed
<1>3. \A u \in Threads : thread'[u].root = r /\ thread'[u].pc = "save" => thread'[u].state = "fresh"
  BY <1>0, <1>1, <1>2 DEF FreshAt
<1>4. ASSUME NEW k \in DOMAIN core', Obsolete(r, k)' PROVE Doomed(r, k)'
  <2>1. OldCore(t, k)
    BY <1>0, <1>4 DEF Reach, NewInHand, Obsolete
  <2>2. Obsolete(r, k)
    BY <1>0, <1>4, <2>1 DEF OldCore, Obsolete
  <2>3. Doomed(r, k)
    BY <1>0, <2>2 DEF FreshAt, Obsolete
  <2>4. thread'[t].server # k
    <3>1. thread[t].server # k
      BY <1>0, <2>2, InUse DEF LocalOK, Obsolete
    <3>2. servers[thread[t].root] # k
      BY <1>0, <2>2, InUse DEF TypeOK, Obsolete
    <3>3. ~ NewInHand(t, k)
      BY <1>0, <1>4 DEF NewInHand, Obsolete
    <3>4. k # 0
      BY <1>0, <2>2, InUse DEF Obsolete
    <3>5. QED
      BY <3>1, <3>2, <3>3, <3>4 DEF Reach
  <2>5. PICK u \in Threads : thread[u].pc = "delete" /\ thread[u].root = r
    BY <2>3 DEF Doomed
  <2>6. thread'[u].pc = "delete" /\ thread'[u].root = r
    BY <1>0, <1>2, <2>5
  <2>7. \A v \in Threads : thread'[v].server = k => thread'[v].pc = "delete" \/ servers'[r] = k
    BY <1>1, <1>2, <2>3, <2>4 DEF Doomed
  <2>8. ASSUME servers'[r] = k
        PROVE  /\ ~ folder'[r]
               /\ \A v \in Threads : thread'[v].root = r =>
                    /\ thread'[v].pc \notin Creating \cup {"store", "save"}
                    /\ thread'[v].pc \in {"lint", "empty", "pop", "rebuild"} => thread'[v].server = k
    BY <1>1, <1>2, <2>3, <2>8 DEF Doomed
  <2>9. QED
    BY <2>6, <2>7, <2>8 DEF Doomed
<1>5. QED
  BY <1>0, <1>1, <1>3, <1>4 DEF FreshAt

(* Nor do the steps of a request for the root but for rebuild_project's    *)
(* own, if they bring nothing stale back.                                  *)
Keeps(t, r, k) ==
  /\ thread'[t].server = k => servers'[r] = k
  /\ servers[r] = k => servers'[r] = k
  /\ servers'[r] = k =>
       /\ servers[r] = k /\ folder'[r] = folder[r]
       /\ thread'[t].pc \notin Creating \cup {"store", "save"}
       /\ thread'[t].pc \in {"lint", "empty", "pop", "rebuild"} => thread'[t].server = k

LEMMA FreshHere ==
  ASSUME RebuildInv, NEW t \in Threads, Reach(t), NEW r \in Roots \ overlapped, r = thread[t].root,
         thread[t].pc \notin {"rebuild", "delete"}, cache'[r] # "stale",
         thread'[t].pc = "save" => thread'[t].state = "fresh",
         \A k \in DOMAIN core : Obsolete(r, k) /\ Obsolete(r, k)' => Keeps(t, r, k)
  PROVE  FreshAt(r)'
<1>0. /\ FreshAt(r) /\ TypeOK /\ r # None /\ thread'[t].root = r
  BY NoneAssumption DEF RebuildInv, RebuildOK, Owned, Typed, Reach
<1>1. \A u \in Threads \ {t} :
       /\ thread'[u].pc = thread[u].pc /\ thread'[u].server = thread[u].server
       /\ thread'[u].root = thread[u].root /\ thread'[u].state = thread[u].state
  BY DEF Reach, Undisturbed
<1>2. \A u \in Threads : thread'[u].root = r /\ thread'[u].pc = "save" => thread'[u].state = "fresh"
  BY <1>0, <1>1 DEF FreshAt
<1>3. ASSUME NEW k \in DOMAIN core', Obsolete(r, k)' PROVE Doomed(r, k)'
  <2>1. NewInHand(t, k) \/ OldCore(t, k)
    BY DEF Reach
  <2>2. Obsolete(r, k)
    BY <1>0, <1>3, <2>1 DEF NewInHand, OldCore, Obsolete, FreshAt
  <2>3. Doomed(r, k)
    BY <1>0, <2>2 DEF FreshAt, Obsolete
  <2>4. Keeps(t, r, k)
    BY <1>3, <2>2 DEF Obsolete
  <2>5. PICK u \in Threads : thread[u].pc = "delete" /\ thread[u].root = r
    BY <2>3 DEF Doomed
  <2>6. thread'[u].pc = "delete" /\ thread'[u].root = r
    BY <1>1, <2>5
  <2>7. \A v \in Threads : thread'[v].server = k => thread'[v].pc = "delete" \/ servers'[r] = k
    BY <1>1, <2>3, <2>4 DEF Doomed, Keeps
  <2>8. ASSUME servers'[r] = k
        PROVE  /\ ~ folder'[r]
               /\ \A v \in Threads : thread'[v].root = r =>
                    /\ thread'[v].pc \notin Creating \cup {"store", "save"}
                    /\ thread'[v].pc \in {"lint", "empty", "pop", "rebuild"} => thread'[v].server = k
    BY <1>1, <2>3, <2>4, <2>8 DEF Doomed, Keeps
  <2>9. QED
    BY <2>6, <2>7, <2>8 DEF Doomed
<1>4. QED
  BY <1>2, <1>3 DEF FreshAt

LEMMA FreshOwn ==
  ASSUME RebuildInv, Owned', NEW t \in Threads, Step(t), Reach(t), NEW r \in Roots, r \notin overlapped',
         r = thread[t].root
  PROVE  FreshAt(r)'
<1> DEFINE c == thread[t].server
<1>0. /\ Typed /\ TypeOK /\ thread \in [Threads -> Locals] /\ thread[t] \in Locals
      /\ LocalOK(thread[t], core) /\ r # None /\ servers \in [Roots -> Cores \cup {0}]
      /\ cache \in [Roots -> {None, "stale", "fresh"}]
  BY NoneAssumption DEF RebuildInv, Owned, Typed, TypeOK, InHandOK
<1>1. r \notin overlapped => FreshAt(r)
  BY DEF RebuildInv, RebuildOK
<1>a. ASSUME r \notin overlapped, NEW k, Obsolete(r, k)
      PROVE  Doomed(r, k) /\ k # 0
  BY <1>0, <1>1, <1>a, InUse DEF FreshAt, Obsolete
<1>b. ASSUME r \notin overlapped, thread[t].pc \in Creating, UNCHANGED servers,
             cache'[r] \in {cache[r], None}, thread'[t].pc # "save"
      PROVE  FreshAt(r)'
  <2>1. ASSUME NEW k, Obsolete(r, k), Obsolete(r, k)' PROVE Keeps(t, r, k)
    <3>1. Doomed(r, k) /\ k # 0
      BY <1>a, <1>b, <2>1
    <3>2. servers[r] # k
      BY <1>b, <3>1 DEF Doomed
    <3>3. c # k
      BY <1>b, <3>1, <3>2 DEF Doomed, Creating
    <3>4. ~ NewInHand(t, k)
      BY <2>1 DEF NewInHand, Obsolete
    <3>5. thread'[t].server # k
      BY <3>1, <3>2, <3>3, <3>4 DEF Reach
    <3>6. QED
      BY <1>b, <3>2, <3>5 DEF Keeps
  <2>2. cache'[r] # "stale"
    BY <1>1, <1>b, NoneAssumption DEF FreshAt
  <2>3. thread[t].pc \notin {"rebuild", "delete"}
    BY <1>b DEF Creating
  <2>4. QED
    BY <1>b, <2>1, <2>2, <2>3, FreshHere
<1>c. ASSUME r \notin overlapped, thread[t].pc \notin {"rebuild", "delete"}, UNCHANGED servers,
             UNCHANGED folder, UNCHANGED cache,
             thread'[t].pc \in {"get", "lint", "empty", "pop", "rebuild", "answer"},
             thread'[t].server \in {0, servers[r]} \/ thread'[t].server = thread[t].server,
             thread'[t].pc \in {"lint", "empty", "pop", "rebuild"} =>
               thread'[t].server = servers[r] \/
               (thread[t].pc \in {"lint", "empty", "pop", "rebuild"} /\ thread'[t].server = thread[t].server)
      PROVE  FreshAt(r)'
  <2>1. ASSUME NEW k, Obsolete(r, k), Obsolete(r, k)' PROVE Keeps(t, r, k)
    <3>1. Doomed(r, k) /\ k # 0
      BY <1>a, <1>c, <2>1
    <3>2. thread'[t].server = k => servers[r] = k
      BY <1>c, <3>1 DEF Doomed
    <3>3. ASSUME servers[r] = k, thread'[t].pc \in {"lint", "empty", "pop", "rebuild"}
          PROVE  thread'[t].server = k
      BY <1>c, <3>1, <3>3 DEF Doomed
    <3>4. thread'[t].pc \notin Creating \cup {"store", "save"}
      BY <1>c DEF Creating
    <3>5. QED
      BY <1>c, <3>2, <3>3, <3>4 DEF Keeps
  <2>2. cache'[r] # "stale"
    BY <1>1, <1>c DEF FreshAt
  <2>3. QED
    BY <1>c, <2>1, <2>2, FreshHere
<1>2. CASE Lookup(t)
  <2>0. r \notin overlapped /\ thread[t].pc = "lookup" /\ UNCHANGED <<servers, disk>>
    BY <1>2 DEF Lookup, At, disk
  <2>1. CASE servers[r] # 0 /\ Go(t, "get")
    BY <1>0, <1>c, <2>0, <2>1, Went DEF Places, disk
  <2>2. CASE servers[r] = 0 /\ Construct(t, r, [thread[t] EXCEPT !.pc = "setup"])
    <3> DEFINE local == [thread[t] EXCEPT !.pc = "setup"]
    <3>1. local \in Locals /\ local.pc = "setup"
      BY <1>0 DEF Locals, Places
    <3> HIDE DEF local
    <3>2. Construct(t, r, local)
      BY <2>2 DEF local
    <3>3. thread'[t].pc = "setup"
      BY <1>0, <3>1, <3>2, Made
    <3>4. ASSUME NEW k, Obsolete(r, k), Obsolete(r, k)' PROVE Keeps(t, r, k)
      <4>1. Doomed(r, k) /\ k # 0
        BY <1>a, <2>0, <3>4
      <4>2. c = 0
        BY <1>0, <2>0 DEF LocalOK, InHand, Creating
      <4>3. ~ NewInHand(t, k)
        BY <3>4 DEF NewInHand, Obsolete
      <4>4. thread'[t].server # k
        BY <2>2, <4>1, <4>2, <4>3 DEF Reach
      <4>5. QED
        BY <2>0, <2>2, <4>1, <4>4 DEF Keeps
    <3>5. cache'[r] # "stale"
      BY <1>1, <2>0 DEF FreshAt, disk
    <3>6. QED
      BY <2>0, <3>3, <3>4, <3>5, FreshHere
  <2>3. QED
    BY <1>2, <2>1, <2>2 DEF Lookup
<1>3. CASE GetServer(t)
  <2>0. r \notin overlapped /\ thread[t].pc = "get" /\ UNCHANGED <<servers, disk>>
    BY <1>3 DEF GetServer, At, disk
  <2>1. ASSUME NEW e, Reply(t, e, core) PROVE FreshAt(r)'
    <3>1. thread'[t].pc = "answer" /\ thread'[t].server = 0
      BY <1>0, <2>1 DEF Reply, Set, Idle
    <3>2. QED
      BY <1>c, <2>0, <3>1 DEF disk
  <2>2. ASSUME thread[t].request # Second,
          Set(t, [thread[t] EXCEPT !.server = servers[r],
            !.pc = [lint |-> "lint", get_ui_messages |-> "empty",
                    rebuild_project |-> "rebuild"][thread[t].request]])
        PROVE FreshAt(r)'
    <3> DEFINE place == [lint |-> "lint", get_ui_messages |-> "empty",
                         rebuild_project |-> "rebuild"][thread[t].request]
    <3>1. place \in {"lint", "empty", "rebuild"}
      BY <1>0, <2>2 DEF Locals, Requests
    <3> HIDE DEF place
    <3>2. thread'[t] = [thread[t] EXCEPT !.server = servers[r], !.pc = place]
      BY <1>0, <2>2 DEF Set, place
    <3>3. thread'[t].pc = place /\ thread'[t].server = servers[r]
      BY <1>0, <3>2 DEF Locals
    <3>4. QED
      BY <1>c, <2>0, <3>1, <3>3 DEF disk
  <2>3. QED
    BY <1>3, <2>1, <2>2 DEF GetServer
<1>4. CASE Store(t)
  <2>0. /\ r \notin overlapped /\ thread[t].pc = "store" /\ UNCHANGED disk
        /\ servers' = [servers EXCEPT ![r] = c] /\ Leave(t, "get")
    BY <1>4 DEF Store, At, disk
  <2>1. thread'[t] = [thread[t] EXCEPT !.pc = "get", !.server = 0]
    BY <1>0, <2>0 DEF Leave, Set
  <2>2. thread'[t].pc = "get" /\ thread'[t].server = 0
    BY <1>0, <2>1 DEF Locals
  <2>3. ASSUME NEW k, Obsolete(r, k) PROVE Keeps(t, r, k)
    <3>1. Doomed(r, k) /\ k # 0
      BY <1>a, <2>0, <2>3
    <3>2. servers[r] # k
      BY <2>0, <3>1 DEF Doomed
    <3>3. c # k
      BY <2>0, <3>1, <3>2 DEF Doomed
    <3>4. servers'[r] = c
      BY <1>0, <2>0
    <3>5. QED
      BY <2>2, <3>1, <3>2, <3>3, <3>4 DEF Keeps
  <2>4. cache'[r] # "stale"
    BY <1>1, <2>0 DEF FreshAt, disk
  <2>5. QED
    BY <2>0, <2>2, <2>3, <2>4, FreshHere
<1>5. CASE Setup(t)
  <2>1. /\ r \notin overlapped /\ thread[t].pc \in Creating /\ UNCHANGED <<servers, disk>>
        /\ \E place \in {"recover", "clean"} : Go(t, place)
    BY <1>5 DEF Setup, At, Creating, disk
  <2>2. thread'[t].pc # "save"
    BY <1>0, <2>1, Went DEF Places
  <2>3. QED
    BY <1>b, <2>1, <2>2 DEF disk
<1>6. CASE Clean(t)
  <2>1. /\ r \notin overlapped /\ thread[t].pc \in Creating /\ UNCHANGED servers
        /\ Go(t, "makedirs") /\ cache'[r] = None
    BY <1>0, <1>6 DEF Clean, At, Creating
  <2>2. thread'[t].pc # "save"
    BY <1>0, <2>1, Went DEF Places
  <2>3. QED
    BY <1>b, <2>1, <2>2
<1>7. CASE MakeDirs(t)
  <2>1. /\ r \notin overlapped /\ thread[t].pc \in Creating /\ cache'[r] = cache[r]
        /\ OSError(t, "FileExistsError") \/ (Go(t, "recover") /\ UNCHANGED servers)
    BY <1>7 DEF MakeDirs, At, Creating
  <2>2. thread'[t].pc # "save" /\ UNCHANGED servers
    <3>1. CASE OSError(t, "FileExistsError")
      <4>1. UNCHANGED servers
        BY <3>1 DEF OSError, Construct
      <4>2. QED
        BY <1>0, <3>1, <4>1, Failed DEF Exceptions
    <3>2. CASE Go(t, "recover") /\ UNCHANGED servers
      BY <1>0, <3>2, Went DEF Places
    <3>3. QED
      BY <2>1, <3>1, <3>2
  <2>3. QED
    BY <1>b, <2>1, <2>2
<1>8. CASE Recover(t)
  <2>1. /\ r \notin overlapped /\ thread[t].pc \in Creating /\ UNCHANGED <<servers, cache>>
        /\ Go(t, "config")
    BY <1>8 DEF Recover, At, Creating, disk
  <2>2. thread'[t].pc # "save"
    BY <1>0, <2>1, Went DEF Places
  <2>3. QED
    BY <1>b, <2>1, <2>2
<1>9. CASE SetConfig(t)
  <2>1. /\ r \notin overlapped /\ thread[t].pc \in Creating /\ UNCHANGED <<servers, cache>>
    BY <1>9 DEF SetConfig, At, Creating
  <2>2. thread'[t].pc # "save"
    <3>1. CASE OSError(t, "FileNotFoundError")
      BY <1>0, <3>1, Failed DEF Exceptions
    <3>2. CASE Go(t, "store")
      BY <1>0, <3>2, Went DEF Places
    <3>3. CASE Reply(t, "BadConfig", core)
      BY <1>0, <3>3, Replied
    <3>4. QED
      BY <1>9, <3>1, <3>2, <3>3 DEF SetConfig
  <2>3. QED
    BY <1>b, <2>1, <2>2
<1>10. CASE Lint(t)
  <2>0. /\ r \notin overlapped /\ thread[t].pc = "lint" /\ UNCHANGED <<servers, cache>>
        /\ c # 0 /\ c \in DOMAIN core
    BY <1>0, <1>10, InUse DEF Lint, At, LocalOK, InHand
  <2>1. CASE Reply(t, thread[t].raised, core) /\ UNCHANGED folder
    <3>1. thread'[t].pc = "answer" /\ thread'[t].server = 0
      BY <1>0, <2>1 DEF Reply, Set, Idle
    <3>2. QED
      BY <1>c, <2>0, <2>1, <3>1
  <2>2. ASSUME NEW k, Obsolete(r, k) PROVE k # c \/ ~ folder[r]
    <3>1. Doomed(r, k)
      BY <1>a, <2>0, <2>2
    <3>2. QED
      BY <2>0, <3>1 DEF Doomed
  <2>3. ASSUME NEW k, Obsolete(r, k) PROVE k = c \/ servers[r] # k
    <3>1. Doomed(r, k)
      BY <1>a, <2>0, <2>3
    <3>2. QED
      BY <2>0, <3>1 DEF Doomed
  <2>4. \A k \in DOMAIN core : Renewed(t)[k].stale => core[k].stale /\ (k = c => folder[r])
    BY <1>0, <2>0, RenewedOK
  <2>5. ~ Renewed(t)[c].stale
    <3>1. core[c].root_dir \in {r, None}
      BY <1>0, <2>0 DEF LocalOK
    <3>2. CASE core[c].root_dir = None
      BY <2>0, <2>4, <3>2 DEF RebuildInv, Owned, FallbackIsFresh
    <3>3. CASE core[c].root_dir = r
      BY <2>0, <2>2, <2>4, <3>3 DEF Obsolete
    <3>4. QED
      BY <3>1, <3>2, <3>3
  <2>6. ASSUME NEW k, Obsolete(r, k), thread'[t].server \in {0, c}, k # c PROVE Keeps(t, r, k)
    <3>1. Doomed(r, k) /\ k # 0 /\ servers[r] # k
      BY <1>a, <2>0, <2>3, <2>6
    <3>2. QED
      BY <2>0, <2>6, <3>1 DEF Keeps
  <2>7. cache'[r] # "stale"
    BY <1>1, <2>0 DEF FreshAt
  <2>8. ASSUME NEW e, Reply(t, e, Renewed(t)) PROVE FreshAt(r)'
    <3>1. /\ thread'[t].pc = "answer" /\ thread'[t].server = 0
          /\ core' = [k \in DOMAIN Renewed(t) \cap Live' |-> Renewed(t)[k]]
      BY <1>0, <2>8 DEF Reply, Set, Idle, Collect
    <3>2. \A k : Obsolete(r, k)' => k # c
      BY <2>5, <3>1 DEF Obsolete
    <3>3. QED
      BY <2>0, <2>6, <2>7, <3>1, <3>2, FreshHere
  <2>9. CASE Tell(Renewed(t), c) /\ Set(t, [thread[t] EXCEPT !.pc = "save", !.state =
                     IF Renewed(t)[c].stale THEN "stale" ELSE "fresh"])
    <3>1. \A k \in DOMAIN core : core'[k].stale = Renewed(t)[k].stale
      BY <1>0, <2>0, <2>9, RenewedOK, Tells
    <3>2. thread'[t] = [thread[t] EXCEPT !.pc = "save", !.state =
                           IF Renewed(t)[c].stale THEN "stale" ELSE "fresh"]
      BY <1>0, <2>9 DEF Set
    <3>3. thread'[t].state = "fresh" /\ thread'[t].server = c
      BY <1>0, <2>5, <3>2 DEF Locals
    <3>4. \A k : Obsolete(r, k)' => k # c
      BY <2>0, <2>5, <3>1 DEF Obsolete
    <3>5. QED
      BY <2>0, <2>6, <2>7, <3>3, <3>4, FreshHere
  <2>10. QED
    BY <1>10, <2>1, <2>8, <2>9 DEF Lint
<1>11. CASE Save(t)
  <2>0. /\ r \notin overlapped /\ thread[t].pc = "save" /\ UNCHANGED servers
        /\ cache' = [cache EXCEPT ![r] = thread[t].state] /\ Reply(t, thread[t].raised, core)
    BY <1>11 DEF Save, At
  <2>1. thread'[t].pc = "answer" /\ thread'[t].server = 0
    BY <1>0, <2>0 DEF Reply, Set, Idle
  <2>2. ASSUME NEW k, Obsolete(r, k) PROVE Keeps(t, r, k)
    <3>1. Doomed(r, k) /\ k # 0
      BY <1>a, <2>0, <2>2
    <3>2. servers[r] # k
      BY <2>0, <3>1 DEF Doomed
    <3>3. QED
      BY <2>0, <2>1, <3>1, <3>2 DEF Keeps
  <2>3. cache'[r] # "stale"
    BY <1>0, <1>1, <2>0 DEF FreshAt
  <2>4. QED
    BY <2>0, <2>1, <2>2, <2>3, FreshHere
<1>12. CASE Empty(t)
  <2>0. r \notin overlapped /\ thread[t].pc = "empty" /\ UNCHANGED <<servers, disk>>
    BY <1>12 DEF Empty, At, disk
  <2>1. CASE Reply(t, thread[t].raised, core)
    <3>1. thread'[t].pc = "answer" /\ thread'[t].server = 0
      BY <1>0, <2>1 DEF Reply, Set, Idle
    <3>2. QED
      BY <1>c, <2>0, <3>1 DEF disk
  <2>2. CASE Go(t, "pop")
    BY <1>0, <1>c, <2>0, <2>2, Went DEF Places, disk
  <2>3. QED
    BY <1>12, <2>1, <2>2 DEF Empty
<1>13. CASE PopMessage(t)
  <2>0. r \notin overlapped /\ thread[t].pc = "pop" /\ UNCHANGED <<servers, disk>> /\ Go(t, "empty")
    BY <1>13 DEF PopMessage, At, disk
  <2>1. QED
    BY <1>0, <1>c, <2>0, Went DEF Places, disk
<1>14. CASE Rebuild(t)
  <2> DEFINE local == [thread[t] EXCEPT !.pc = "delete", !.request = Second]
  <2>0. /\ thread[t].pc = "rebuild" /\ UNCHANGED servers /\ thread'[t].root = r
    BY <1>14 DEF Rebuild, At, Reach
  <2>1. thread'[t] = local
    BY <1>0, <1>14 DEF Rebuild, Set
  <2>2. thread'[t].pc = "delete" /\ thread'[t].server = c
    BY <1>0, <2>1 DEF Locals
  <2>3. CASE core[c].root_dir = None
    <3>1. /\ \A u \in Threads \ {t} : thread'[u] = thread[u]
          /\ UNCHANGED <<core, folder, cache>> /\ r \notin overlapped
      BY <1>0, <1>14, <2>3 DEF Rebuild, Set, disk
    <3>2. ASSUME NEW k \in DOMAIN core, Obsolete(r, k) PROVE Doomed(r, k)'
      <4>1. Doomed(r, k)
        BY <1>a, <3>1, <3>2
      <4>2. \E u \in Threads : thread'[u].pc = "delete" /\ thread'[u].root = r
        BY <2>0, <2>2
      <4>3. \A v \in Threads : thread'[v].server = k => thread'[v].pc = "delete" \/ servers'[r] = k
        BY <2>0, <2>2, <3>1, <4>1 DEF Doomed
      <4>4. ASSUME servers'[r] = k
            PROVE  /\ ~ folder'[r]
                   /\ \A v \in Threads : thread'[v].root = r =>
                        /\ thread'[v].pc \notin Creating \cup {"store", "save"}
                        /\ thread'[v].pc \in {"lint", "empty", "pop", "rebuild"} =>
                             thread'[v].server = k
        BY <2>0, <2>2, <3>1, <4>1, <4>4 DEF Doomed, Creating
      <4>5. QED
        BY <4>2, <4>3, <4>4 DEF Doomed
    <3>3. \A u \in Threads : thread'[u].root = r /\ thread'[u].pc = "save" => thread'[u].state = "fresh"
      BY <1>1, <2>2, <3>1 DEF FreshAt
    <3>4. QED
      BY <1>1, <3>1, <3>2, <3>3 DEF FreshAt, Obsolete
  <2>4. CASE core[c].root_dir # None
    <3>1. /\ folder' = [folder EXCEPT ![r] = FALSE] /\ cache' = [cache EXCEPT ![r] = None]
          /\ DOMAIN core' = DOMAIN core
          /\ overlapped' = IF Others(t, r) = {} THEN overlapped \ {r} ELSE overlapped \cup {r}
      BY <1>14, <2>4 DEF Rebuild
    <3>2. ~ folder'[r] /\ cache'[r] # "stale" /\ Others(t, r) = {}
      BY <1>0, <3>1, NoneAssumption DEF TypeOK
    <3>3. \A u \in Threads \ {t} : thread'[u].root = r => thread'[u].pc = "idle"
      BY <3>2 DEF Others, At, Reach, Undisturbed
    <3>4. ASSUME NEW k \in DOMAIN core', Obsolete(r, k)' PROVE Doomed(r, k)'
      <4>1. core[k].root_dir = r /\ k # 0
        BY <1>0, <2>0, <3>1, <3>4, InUse DEF Reach, OldCore, NewInHand, Obsolete
      <4>2. ASSUME NEW v \in Threads \ {t}, thread'[v].server = k PROVE FALSE
        <5>1. thread[v].server = k /\ LocalOK(thread[v], core) /\ thread'[v].root = thread[v].root
              /\ thread'[v].pc = thread[v].pc
          BY <1>0, <4>2 DEF Reach, Undisturbed, Typed, InHandOK
        <5>2. thread[v].root = r /\ thread[v].pc # "idle"
          BY <1>0, <4>1, <5>1 DEF LocalOK, InHand, Creating
        <5>3. QED
          BY <3>3, <5>1, <5>2
      <4>3. QED
        BY <2>0, <2>2, <3>2, <3>3, <4>1, <4>2 DEF Doomed, Creating
    <3>5. QED
      BY <2>2, <3>2, <3>3, <3>4 DEF FreshAt
  <2>5. QED
    BY <2>3, <2>4
<1>15. CASE DeleteServer(t)
  <2>0. /\ thread[t].pc = "delete" /\ servers' = [servers EXCEPT ![r] = 0]
        /\ r \notin overlapped /\ Others(t, r) = {} /\ cache'[r] = cache[r]
        /\ Reply(t, "KeyError", core) \/ Leave(t, "lookup")
    BY <1>15 DEF DeleteServer, At
  <2>1. thread'[t].server = 0 /\ thread'[t].pc # "save"
    <3>1. CASE Reply(t, "KeyError", core)
      BY <1>0, <3>1 DEF Reply, Set, Idle
    <3>2. CASE Leave(t, "lookup")
      <4>1. thread'[t] = [thread[t] EXCEPT !.pc = "lookup", !.server = 0]
        BY <1>0, <3>2 DEF Leave, Set
      <4>2. QED
        BY <1>0, <4>1 DEF Locals
    <3>3. QED
      BY <2>0, <3>1, <3>2
  <2>2. \A u \in Threads \ {t} : thread'[u].root = r => thread'[u].pc = "idle"
    BY <2>0 DEF Others, At, Reach, Undisturbed
  <2>3. ASSUME NEW k \in DOMAIN core', Obsolete(r, k)' PROVE FALSE
    <3>0. Typed' /\ TypeOK'
      BY DEF Owned, Typed
    <3>1. k # 0 /\ k \in Live'
      BY <3>0 DEF TypeOK
    <3>2. ASSUME NEW q \in Roots, servers'[q] = k PROVE FALSE
      BY <1>0, <2>0, <2>3, <3>0, <3>1, <3>2 DEF TypeOK, Obsolete
    <3>3. ASSUME NEW v \in Threads, thread'[v].server = k PROVE FALSE
      <4>1. v # t
        BY <2>1, <3>1, <3>3
      <4>2. LocalOK(thread'[v], core')
        BY <3>0 DEF Typed, InHandOK, LocalOK
      <4>3. thread'[v].root = r /\ thread'[v].pc # "idle"
        BY <1>0, <2>3, <3>1, <3>3, <4>2 DEF LocalOK, InHand, Creating, Obsolete
      <4>4. QED
        BY <2>2, <4>1, <4>3
    <3>4. QED
      BY <3>1, <3>2, <3>3 DEF Live
  <2>4. cache'[r] # "stale"
    BY <1>1, <2>0 DEF FreshAt
  <2>5. QED
    BY <2>1, <2>2, <2>3, <2>4 DEF FreshAt
<1>16. CASE Answer(t)
  <2>1. FALSE
    BY <1>0, <1>16, AnswerFacts DEF Reach, Idle
  <2>2. QED
    BY <2>1
<1>17. QED
  BY <1>2, <1>3, <1>4, <1>5, <1>6, <1>7, <1>8, <1>9, <1>10, <1>11, <1>12, <1>13, <1>14, <1>15, <1>16
  DEF Step

LEMMA RebuildNext == RebuildInv /\ [Next]_vars => RebuildInv'
<1> SUFFICES ASSUME RebuildInv, [Next]_vars PROVE RebuildInv'
  OBVIOUS
<1>0. Typed /\ Owned /\ Owned'
  BY OwnedNext DEF RebuildInv, Owned
<1>a. ASSUME NEW t \in Threads, NEW r \in Roots \ overlapped, thread'[t].root # r \/ thread'[t].pc = "lookup",
             thread'[t].server = 0, thread[t].pc \in {"idle", "answer"},
             UNCHANGED <<servers, core, folder, cache>>,
             \A u \in Threads \ {t} : Undisturbed(u) /\ thread'[u].state = thread[u].state
      PROVE  FreshAt(r)'
  <2>0. FreshAt(r)
    BY DEF RebuildInv, RebuildOK
  <2>1. \A u \in Threads : thread'[u].root = r /\ thread'[u].pc = "save" => thread'[u].state = "fresh"
    BY <1>a, <2>0 DEF FreshAt, Undisturbed
  <2>2. ASSUME NEW k \in DOMAIN core, Obsolete(r, k) PROVE Doomed(r, k)'
    <3>1. Doomed(r, k)
      BY <2>0, <2>2 DEF FreshAt
    <3>2. k # 0
      BY <1>0, InUse DEF Typed
    <3>3. PICK u \in Threads : thread[u].pc = "delete" /\ thread[u].root = r
      BY <3>1 DEF Doomed
    <3>4. thread'[u].pc = "delete" /\ thread'[u].root = r
      BY <1>a, <3>3 DEF Undisturbed
    <3>5. \A v \in Threads : thread'[v].server = k => thread'[v].pc = "delete" \/ servers'[r] = k
      BY <1>a, <3>1, <3>2 DEF Doomed, Undisturbed
    <3>6. ASSUME servers'[r] = k
          PROVE  /\ ~ folder'[r]
                 /\ \A v \in Threads : thread'[v].root = r =>
                      /\ thread'[v].pc \notin Creating \cup {"store", "save"}
                      /\ thread'[v].pc \in {"lint", "empty", "pop", "rebuild"} => thread'[v].server = k
      BY <1>a, <3>1, <3>6 DEF Doomed, Undisturbed, Creating
    <3>7. QED
      BY <3>4, <3>5, <3>6 DEF Doomed
  <2>3. QED
    BY <1>a, <2>0, <2>1, <2>2 DEF FreshAt, Obsolete
<1>1. ASSUME NEW q \in Roots, Edit(q) PROVE RebuildOK'
  BY <1>1 DEF Edit, cores, disk, RebuildInv, RebuildOK, FreshAt, Obsolete, Doomed
<1>2. ASSUME NEW t \in Threads, NEW q \in Roots, NEW request \in Requests, Request(t, q, request)
      PROVE  RebuildOK'
  <2>1. /\ thread'[t].pc = "lookup" /\ thread'[t].server = 0 /\ thread[t].pc = "idle"
        /\ UNCHANGED <<servers, core, folder, cache, overlapped>>
        /\ \A u \in Threads \ {t} : Undisturbed(u) /\ thread'[u].state = thread[u].state
    <3>1. /\ thread'[t].pc = "lookup" /\ thread'[t].server = 0
          /\ \A u \in Threads \ {t} : Undisturbed(u) /\ thread'[u].state = thread[u].state
      BY <1>0, <1>2, Arrives
    <3>2. thread[t].pc = "idle" /\ UNCHANGED <<servers, core, folder, cache, overlapped>>
      BY <1>2 DEF Request, At, cores, disk
    <3>3. QED
      BY <3>1, <3>2
  <2>2. QED
    BY <1>a, <2>1 DEF RebuildOK
<1>3. ASSUME NEW t \in Threads, Step(t) PROVE RebuildOK'
  <2>1. CASE Answer(t)
    <3>1. /\ thread'[t].server = 0 /\ thread'[t].root = None /\ thread[t].pc = "answer"
          /\ UNCHANGED <<servers, core, folder, cache, overlapped>>
          /\ \A u \in Threads \ {t} : Undisturbed(u) /\ thread'[u].state = thread[u].state
      <4>1. /\ thread'[t] = Idle /\ \A u \in Threads \ {t} : thread'[u] = thread[u]
            /\ UNCHANGED <<servers, core, folder, cache, overlapped>>
        BY <1>0, <2>1, AnswerFacts
      <4>2. thread[t].pc = "answer" /\ Idle.server = 0 /\ Idle.root = None
        BY <2>1 DEF Answer, At, Idle
      <4>3. \A u \in Threads \ {t} : Undisturbed(u) /\ thread'[u].state = thread[u].state
        BY <4>1 DEF Undisturbed
      <4>4. QED
        BY <4>1, <4>2, <4>3
    <3>2. QED
      BY <1>a, <3>1, NoneAssumption DEF RebuildOK
  <2>2. CASE ~ Answer(t)
    <3>1. Reach(t)
      BY <1>0, <1>3, <2>2, ReachStep
    <3>2. ASSUME NEW r \in Roots, r \notin overlapped' PROVE FreshAt(r)'
      <4>1. CASE r = thread[t].root
        BY <1>0, <1>3, <3>1, <3>2, <4>1, FreshOwn
      <4>2. CASE r # thread[t].root
        <5>1. r \notin overlapped
          BY <3>1, <3>2, <4>2 DEF Reach
        <5>2. QED
          BY <3>1, <4>2, <5>1, FreshElsewhere
      <4>3. QED
        BY <4>1, <4>2
    <3>3. QED
      BY <3>2 DEF RebuildOK
  <2>3. QED
    BY <2>1, <2>2
<1>4. ASSUME UNCHANGED vars PROVE RebuildOK'
  BY <1>4 DEF vars, cores, disk, RebuildInv, RebuildOK, FreshAt, Obsolete, Doomed
<1>5. RebuildOK'
  BY <1>1, <1>2, <1>3, <1>4 DEF Next
<1>6. QED
  BY <1>0, <1>5 DEF RebuildInv

-----------------------------------------------------------------------------
(* For any number of threads and projects: a request that meets a          *)
(* KeyError, finds the folder made under its hands or has to wait for a    *)
(* message has met another one for its project (handlers.py:86-98, 240,    *)
(* 66-67; core.py:343).                                                    *)
THEOREM NothingFailsAlone == Spec => []AloneNothingFails
<1>1. Init => AloneInv
  <2>1. Init => AloneOK
    BY DEF Init, Idle, AloneOK
  <2>2. QED
    BY <2>1, OwnedInit DEF AloneInv
<1>2. AloneInv => AloneNothingFails
  <2> SUFFICES ASSUME AloneInv, NEW t \in Threads, thread[t].alone
               PROVE  ~ Robbed(t) /\ thread[t].raised \notin {"KeyError", "FileExistsError"}
    BY DEF AloneNothingFails
  <2>1. QED
    BY DEF AloneInv, AloneOK, AsLeft, Robbed, At
<1>3. QED
  BY <1>1, <1>2, AloneNext, PTL DEF Spec

(* For any number of threads and projects: once a rebuild_project that no  *)
(* other request for the folder overlapped is done with the dict, no core  *)
(* of the dict knows what was known before it (handlers.py:237-241).       *)
THEOREM RebuiltIsFresh == Spec => []RebuildIsFresh
<1>1. Init => RebuildInv
  <2>1. Init => RebuildOK
    BY NoneAssumption DEF Init, Idle, RebuildOK, FreshAt
  <2>2. QED
    BY <2>1, OwnedInit DEF RebuildInv
<1>2. RebuildInv => RebuildIsFresh
  <2> SUFFICES ASSUME RebuildInv, NEW r \in Roots, servers[r] # 0, core[servers[r]].root_dir = r,
                      r \notin overlapped,
                      \A t \in Threads : thread[t].request = Second => thread[t].root # r,
                      core[servers[r]].stale
               PROVE  FALSE
    BY DEF RebuildIsFresh
  <2>1. Obsolete(r, servers[r]) /\ servers[r] \in DOMAIN core
    BY InUse DEF RebuildInv, Owned, Typed, Obsolete
  <2>2. Doomed(r, servers[r])
    BY <2>1 DEF RebuildInv, RebuildOK, FreshAt
  <2>3. QED
    BY <2>2 DEF Doomed, RebuildInv, Owned, Typed, InHandOK, LocalOK
<1>3. QED
  BY <1>1, <1>2, RebuildNext, PTL DEF Spec
=============================================================================
