------------------------ MODULE LanguageServerProofs ------------------------
(***************************************************************************)
(* Proofs about the debounced lint of a document, for any number of calls, *)
(* and about the language server around it.  The server implements the     *)
(* debounced lint: whatever the client sends and whichever checker a lint  *)
(* takes, the calls and timers of a document do what Debounce says, and    *)
(* what is proved there holds here.                                        *)
(***************************************************************************)
EXTENDS LanguageServer, TLAPS

(* The types hold in every reachable state; in particular the entry of the *)
(* dict is never a timer that has been cancelled (utils.py:494-500).       *)
THEOREM TypeCorrect == Spec => []TypeOK
<1>1. Init => TypeOK
  BY MaxCallsAssumption DEF Init, TypeOK, Calls, None, ThreadStates
<1>2. TypeOK /\ [Next]_vars => TypeOK'
  <2> SUFFICES ASSUME TypeOK, [Next]_vars PROVE TypeOK'
    OBVIOUS
  <2>1. ASSUME NEW saved \in BOOLEAN, Call(saved) PROVE TypeOK'
    <3> USE MaxCallsAssumption DEF Call, Edit, Becomes
    <3>1. calls + 1 \in Calls /\ calls' = calls + 1 /\ disk' \in 0 .. calls' /\ calls' \in 0 .. MaxCalls
      BY <2>1 DEF TypeOK, Calls
    <3>2. is_saved' \in [Calls -> BOOLEAN] /\ thread' \in [Calls -> ThreadStates]
      BY <2>1 DEF TypeOK, ThreadStates
    <3>3. cancelled' \subseteq 1 .. calls
      BY <2>1 DEF TypeOK, None
    <3>4. timers' \in (0 .. calls') \ cancelled' /\ cancelled' \subseteq 1 .. calls'
      BY <2>1, <3>1, <3>3 DEF TypeOK
    <3>5. seen' \in [Calls -> 0 .. calls']
      BY <2>1, <3>1 DEF TypeOK
    <3>6. QED
      BY <3>1, <3>2, <3>4, <3>5 DEF TypeOK
  <2>2. ASSUME NEW c \in Calls, Timer(c) PROVE TypeOK'
    <3> USE DEF TypeOK, Becomes, ThreadStates
    <3>1. CASE Fire(c) \/ Stop(c) \/ Publish(c)
      BY <3>1 DEF Fire, Stop, Publish
    <3>2. CASE DeleteEntry(c) \/ MissEntry(c)
      <4>1. calls \in Nat
        BY MaxCallsAssumption
      <4>2. None \in (0 .. calls) \ cancelled
        BY <4>1 DEF None
      <4>3. timers' \in (0 .. calls') \ cancelled'
        BY <3>2, <4>2 DEF DeleteEntry, MissEntry
      <4>4. thread' \in [Calls -> ThreadStates]
        BY <3>2 DEF DeleteEntry, MissEntry
      <4>5. QED
        BY <3>2, <4>3, <4>4 DEF DeleteEntry, MissEntry
    <3>3. CASE ReadText(c)
      <4>1. (IF is_saved[c] THEN disk ELSE calls) \in 0 .. calls
        OBVIOUS
      <4>2. QED
        BY <3>3, <4>1 DEF ReadText
    <3>4. QED
      BY <2>2, <3>1, <3>2, <3>3 DEF Timer
  <2>3. CASE UNCHANGED vars
    BY <2>3 DEF TypeOK, vars
  <2>4. QED
    BY <2>1, <2>2, <2>3 DEF Next
<1>3. QED
  BY <1>1, <1>2, PTL DEF Spec

(* A call stores a timer that nobody has cancelled. *)
LEMMA CallLeavesTimer ==
  ASSUME TypeOK, NEW saved \in BOOLEAN, Call(saved)
  PROVE  timers' # None /\ Pending' # {}
<1>1. calls + 1 \in Calls /\ calls + 1 # None
  BY MaxCallsAssumption DEF Call, Edit, TypeOK, Calls, None
<1>2. calls + 1 \notin cancelled'
  BY DEF Call, TypeOK, None
<1>3. thread'[calls + 1] = "waiting"
  BY <1>1 DEF Call, Becomes, TypeOK
<1>4. QED
  BY <1>1, <1>2, <1>3 DEF Call, Pending

(* A save always has a lint to come that will read it, or has been read,   *)
(* whichever timer takes the entry of the dict (utils.py:482-500).         *)
THEOREM SaveCovered == Spec => []LatestSaveIsCovered
<1>1. Init => LatestSaveIsCovered
  BY DEF Init, LatestSaveIsCovered
<1>2. TypeOK /\ LatestSaveIsCovered /\ [Next]_vars => LatestSaveIsCovered'
  <2> SUFFICES ASSUME TypeOK, LatestSaveIsCovered, [Next]_vars PROVE LatestSaveIsCovered'
    OBVIOUS
  <2>1. ASSUME NEW saved \in BOOLEAN, Call(saved) PROVE LatestSaveIsCovered'
    BY <2>1, CallLeavesTimer DEF LatestSaveIsCovered
  <2>2. ASSUME NEW c \in Calls, Fire(c) \/ Stop(c) PROVE LatestSaveIsCovered'
    <3>1. Pending' = Pending
      BY <2>2 DEF Fire, Stop, Becomes, Pending, TypeOK
    <3>2. \A d \in Calls : thread[d] = "running" => thread'[d] = "running"
      BY <2>2 DEF Fire, Stop, Becomes, TypeOK
    <3>3. QED
      BY <2>2, <3>1, <3>2 DEF Fire, Stop, LatestSaveIsCovered
  <2>3. ASSUME NEW c \in Calls, DeleteEntry(c) PROVE LatestSaveIsCovered'
    <3>1. thread'[c] = "running"
      BY <2>3 DEF DeleteEntry, Becomes, TypeOK
    <3>2. QED
      BY <3>1 DEF LatestSaveIsCovered
  <2>4. ASSUME NEW c \in Calls, MissEntry(c) PROVE LatestSaveIsCovered'
    <3>1. \A d \in Calls : thread[d] = "running" => thread'[d] = "running"
      BY <2>4 DEF MissEntry, Becomes, TypeOK
    <3>2. QED
      BY <2>4, <3>1 DEF MissEntry, LatestSaveIsCovered
  <2>5. ASSUME NEW c \in Calls, ReadText(c) PROVE LatestSaveIsCovered'
    <3>1. (IF is_saved[c] THEN disk ELSE calls) >= disk
      BY DEF TypeOK
    <3>2. seen'[c] >= disk'
      BY <2>5, <3>1 DEF ReadText, TypeOK
    <3>3. QED
      BY <3>2 DEF LatestSaveIsCovered
  <2>6. ASSUME NEW c \in Calls, Publish(c) PROVE LatestSaveIsCovered'
    <3>1. Pending' = Pending
      BY <2>6 DEF Publish, Becomes, Pending, TypeOK
    <3>2. \A d \in Calls : thread[d] = "running" => thread'[d] = "running"
      BY <2>6 DEF Publish, Becomes, TypeOK
    <3>3. QED
      BY <2>6, <3>1, <3>2 DEF Publish, LatestSaveIsCovered
  <2>7. CASE UNCHANGED vars
    BY <2>7 DEF vars, LatestSaveIsCovered, Pending
  <2>8. QED
    BY <2>1, <2>2, <2>3, <2>4, <2>5, <2>6, <2>7 DEF Next, Timer
<1>3. QED
  BY <1>1, <1>2, TypeCorrect, PTL DEF Spec

-----------------------------------------------------------------------------
(* Every step of the server is a step of the debounced lint or leaves it   *)
(* alone (lsp.py:198-245, 263-307).                                        *)
LEMMA StepSimulation == [ServerNext]_all => [Next]_vars
<1> SUFFICES ASSUME [ServerNext]_all PROVE [Next]_vars
  OBVIOUS
<1>1. CASE ConfigUpdate
  BY <1>1 DEF ConfigUpdate, NewChecker, SetConfig
<1>2. ASSUME NEW saved \in BOOLEAN, Receive(saved) PROVE [Next]_vars
  BY <1>2 DEF Receive, Next
<1>3. ASSUME NEW c \in Calls, Lint(c) PROVE Timer(c) \/ UNCHANGED vars
  <2>1. CASE Wait(c)
    BY <2>1 DEF Wait, Timer
  <2>2. CASE Begin(c)
    BY <2>2 DEF Begin, Timer
  <2>3. CASE TakeText(c) \/ OpenFile(c)
    BY <2>3 DEF TakeText, OpenFile, Timer
  <2>4. CASE TakeChecker(c)
    BY <2>4 DEF TakeChecker
  <2>5. CASE PublishDiags(c)
    BY <2>5 DEF PublishDiags, Timer
  <2>6. QED
    BY <1>3, <2>1, <2>2, <2>3, <2>4, <2>5 DEF Lint
<1>4. CASE UNCHANGED all
  BY <1>4 DEF all
<1>5. QED
  BY <1>1, <1>2, <1>3, <1>4 DEF ServerNext, Next

(* The language server implements the debounced lint (lsp.py:263).         *)
THEOREM ServerImplementsDebounce == ServerSpec => Spec
<1>1. ServerInit => Init
  BY DEF ServerInit
<1>2. QED
  BY <1>1, StepSimulation, PTL DEF ServerSpec, Spec

(* Hence no save is left without a lint to come or a lint that read it,    *)
(* whatever settings arrive in between (lsp.py:202, utils.py:482-500).     *)
THEOREM ServerCoversSaves == ServerSpec => [](TypeOK /\ LatestSaveIsCovered)
BY ServerImplementsDebounce, TypeCorrect, SaveCovered, PTL

-----------------------------------------------------------------------------
(* The entry is that of the last call. *)
EntryIsLatest == timers \in {None, calls}

(* A thread has been born by a call, the file on disk is at least as new   *)
(* as each save, and a lint reads nothing older than its call.             *)
ReadsItsCall ==
  \A d \in Calls :
    /\ thread[d] # "unborn" => d <= calls
    /\ is_saved[d] => d <= disk
    /\ thread[d] \in {"checking", "finished"} => d <= seen[d]

OverlapsAreKnown == \A c, d \in UnderWay : c # d => c \in overlapped

(* A lint that took the entry of its own call began when no call was newer,*)
(* hence after whatever was linted alone.                                  *)
BeganLast ==
  \A d \in UnderWay \ mixed_up : \A c \in Finished \ overlapped : seen[c] <= d

ShownIsFinished == Finished # {} => shown \in Finished

OrderInv ==
  /\ TypeOK /\ EntryIsLatest /\ ReadsItsCall /\ OverlapsAreKnown /\ BeganLast
  /\ ShownIsFinished /\ TextGoesBackForAReason

LEMMA OrderInit == ServerInit => OrderInv
<1> SUFFICES ASSUME ServerInit PROVE OrderInv
  OBVIOUS
<1>1. TypeOK
  BY MaxCallsAssumption DEF ServerInit, Init, TypeOK, Calls, None, ThreadStates
<1>2. UnderWay = {} /\ Finished = {} /\ \A c \in Calls : thread[c] = "unborn" /\ ~ is_saved[c]
  BY DEF ServerInit, Init, UnderWay, Finished
<1>3. timers = None
  BY DEF ServerInit, Init
<1>4. QED
  BY <1>1, <1>2, <1>3 DEF OrderInv, EntryIsLatest, ReadsItsCall, OverlapsAreKnown, BeganLast,
                          ShownIsFinished, TextGoesBackForAReason

(* What a call, a timer or a lint changes of the threads. *)
LEMMA OneThread ==
  ASSUME TypeOK, NEW c \in Calls, NEW from, NEW to, Becomes(c, from, to)
  PROVE  /\ thread[c] = from /\ thread'[c] = to
         /\ \A d \in Calls \ {c} : thread'[d] = thread[d]
BY DEF Becomes, TypeOK

LEMMA OrderCall ==
  ASSUME OrderInv, TypeOK', NEW saved \in BOOLEAN, Receive(saved)
  PROVE  OrderInv'
<1> DEFINE n == calls + 1
<1>0. TypeOK /\ calls \in Nat /\ disk \in Nat /\ n \in Calls /\ seen \in [Calls -> 0 .. calls]
      /\ is_saved \in [Calls -> BOOLEAN]
  BY MaxCallsAssumption DEF OrderInv, TypeOK, Receive, Call, Edit, Calls
<1>1. /\ calls' = n /\ timers' = n /\ UNCHANGED <<seen, shown, overlapped, mixed_up>>
      /\ disk' = (IF saved THEN n ELSE disk) /\ is_saved' = [is_saved EXCEPT ![n] = saved]
      /\ Becomes(n, "unborn", "waiting")
  BY DEF Receive, Call, Edit, history
<1>2. /\ thread[n] = "unborn" /\ thread'[n] = "waiting"
      /\ \A d \in Calls \ {n} : thread'[d] = thread[d]
  BY <1>0, <1>1, OneThread
<1>3. UnderWay' = UnderWay /\ Finished' = Finished
  BY <1>0, <1>2 DEF UnderWay, Finished
<1>4. EntryIsLatest'
  BY <1>1 DEF EntryIsLatest
<1>5. ReadsItsCall'
  <2> SUFFICES ASSUME NEW d \in Calls
               PROVE  /\ thread'[d] # "unborn" => d <= calls'
                      /\ is_saved'[d] => d <= disk'
                      /\ thread'[d] \in {"checking", "finished"} => d <= seen'[d]
    BY DEF ReadsItsCall
  <2>1. d \in Nat /\ disk <= calls
    BY <1>0 DEF Calls, TypeOK
  <2>2. CASE d = n
    BY <1>0, <1>1, <1>2, <2>2
  <2>3. CASE d # n
    <3>1. /\ thread[d] # "unborn" => d <= calls
          /\ is_saved[d] => d <= disk
          /\ thread[d] \in {"checking", "finished"} => d <= seen[d]
      BY DEF OrderInv, ReadsItsCall
    <3>2. thread'[d] = thread[d] /\ is_saved'[d] = is_saved[d]
      BY <1>0, <1>1, <1>2, <2>3
    <3>3. QED
      BY <1>0, <1>1, <2>1, <3>1, <3>2
  <2>4. QED
    BY <2>2, <2>3
<1>6. QED
  BY <1>1, <1>3, <1>4, <1>5 DEF OrderInv, OverlapsAreKnown, BeganLast, ShownIsFinished,
                                TextGoesBackForAReason

LEMMA OrderBegin ==
  ASSUME OrderInv, TypeOK', NEW c \in Calls, Begin(c)
  PROVE  OrderInv'
<1>0. TypeOK /\ calls \in Nat /\ seen \in [Calls -> 0 .. calls]
  BY MaxCallsAssumption DEF OrderInv, TypeOK
<1>1. /\ UNCHANGED <<calls, disk, is_saved, seen, shown>> /\ timers # None /\ timers' = None
      /\ Becomes(c, "firing", "running")
      /\ overlapped' = IF UnderWay = {} THEN overlapped ELSE overlapped \cup UnderWay \cup {c}
      /\ mixed_up' = IF timers = c THEN mixed_up ELSE mixed_up \cup {timers, c}
  BY DEF Begin, DeleteEntry
<1>2. /\ thread[c] = "firing" /\ thread'[c] = "running"
      /\ \A d \in Calls \ {c} : thread'[d] = thread[d]
  BY <1>0, <1>1, OneThread
<1>3. UnderWay' = UnderWay \cup {c} /\ Finished' = Finished /\ c \notin Finished
  BY <1>0, <1>2 DEF UnderWay, Finished
<1>4. EntryIsLatest' /\ ReadsItsCall'
  BY <1>1, <1>2 DEF OrderInv, EntryIsLatest, ReadsItsCall
<1>5. OverlapsAreKnown'
  BY <1>1, <1>3 DEF OrderInv, OverlapsAreKnown
<1>6. BeganLast'
  <2> SUFFICES ASSUME NEW d \in (UnderWay \cup {c}) \ mixed_up', NEW e \in Finished \ overlapped
               PROVE  seen[e] <= d
    BY <1>1, <1>3 DEF BeganLast
  <2>1. CASE d = c
    <3>1. timers = c /\ timers = calls
      BY <1>1, <2>1 DEF OrderInv, EntryIsLatest
    <3>2. e \in Calls
      BY DEF Finished
    <3>3. QED
      BY <1>0, <2>1, <3>1, <3>2
  <2>2. CASE d # c
    BY <1>1, <2>2 DEF OrderInv, BeganLast
  <2>3. QED
    BY <2>1, <2>2
<1>7. ShownIsFinished' /\ TextGoesBackForAReason'
  BY <1>1, <1>3 DEF OrderInv, ShownIsFinished, TextGoesBackForAReason
<1>8. QED
  BY <1>4, <1>5, <1>6, <1>7 DEF OrderInv

LEMMA OrderRead ==
  ASSUME OrderInv, TypeOK', NEW c \in Calls, ReadText(c), UNCHANGED server
  PROVE  OrderInv'
<1>0. TypeOK /\ calls \in Nat /\ disk \in Nat /\ c \in Nat
  BY MaxCallsAssumption DEF OrderInv, TypeOK, Calls
<1>1. /\ UNCHANGED <<calls, disk, is_saved, timers, shown, overlapped, mixed_up>>
      /\ Becomes(c, "running", "checking")
      /\ seen' = [seen EXCEPT ![c] = IF is_saved[c] THEN disk ELSE calls]
  BY DEF ReadText, server
<1>2. /\ thread[c] = "running" /\ thread'[c] = "checking"
      /\ \A d \in Calls \ {c} : thread'[d] = thread[d]
  BY <1>0, <1>1, OneThread
<1>3. UnderWay' = UnderWay /\ Finished' = Finished /\ c \notin Finished
  BY <1>2 DEF UnderWay, Finished
<1>4. \A d \in Calls \ {c} : seen'[d] = seen[d]
  BY <1>0, <1>1 DEF TypeOK
<1>5. c <= seen'[c]
  <2>1. c <= calls /\ (is_saved[c] => c <= disk)
    BY <1>2 DEF OrderInv, ReadsItsCall
  <2>2. seen'[c] = IF is_saved[c] THEN disk ELSE calls
    BY <1>0, <1>1 DEF TypeOK
  <2>3. QED
    BY <2>1, <2>2
<1>6. EntryIsLatest' /\ ReadsItsCall'
  BY <1>1, <1>2, <1>4, <1>5 DEF OrderInv, EntryIsLatest, ReadsItsCall
<1>7. \A d \in Finished : seen'[d] = seen[d]
  BY <1>3, <1>4 DEF Finished
<1>8. OverlapsAreKnown' /\ BeganLast' /\ ShownIsFinished'
  BY <1>1, <1>3, <1>7 DEF OrderInv, OverlapsAreKnown, BeganLast, ShownIsFinished
<1>9. TextGoesBackForAReason'
  BY <1>1, <1>3, <1>7 DEF OrderInv, ShownIsFinished, TextGoesBackForAReason
<1>10. QED
  BY <1>6, <1>8, <1>9 DEF OrderInv

LEMMA OrderPublish ==
  ASSUME OrderInv, TypeOK', NEW c \in Calls, PublishDiags(c)
  PROVE  OrderInv'
<1>0. TypeOK /\ seen \in [Calls -> 0 .. calls] /\ calls \in Nat
  BY MaxCallsAssumption DEF OrderInv, TypeOK
<1>1. /\ UNCHANGED <<calls, disk, is_saved, timers, seen, overlapped, mixed_up>>
      /\ Becomes(c, "checking", "finished") /\ shown' = c
  BY DEF PublishDiags, Publish, history
<1>2. /\ thread[c] = "checking" /\ thread'[c] = "finished"
      /\ \A d \in Calls \ {c} : thread'[d] = thread[d]
  BY <1>0, <1>1, OneThread
<1>3. UnderWay' = UnderWay \ {c} /\ Finished' = Finished \cup {c} /\ c \in UnderWay
  BY <1>2 DEF UnderWay, Finished
<1>4. EntryIsLatest' /\ ReadsItsCall' /\ OverlapsAreKnown' /\ ShownIsFinished'
  BY <1>1, <1>2, <1>3 DEF OrderInv, EntryIsLatest, ReadsItsCall, OverlapsAreKnown, ShownIsFinished
<1>5. BeganLast'
  BY <1>1, <1>3 DEF OrderInv, OverlapsAreKnown, BeganLast
<1>6. TextGoesBackForAReason'
  <2> SUFFICES ASSUME NEW e \in (Finished \cup {c}) \ overlapped, c \notin mixed_up
               PROVE  seen[c] >= seen[e]
    BY <1>1, <1>3 DEF TextGoesBackForAReason
  <2>1. e \in Calls /\ seen[e] \in Nat /\ seen[c] \in Nat /\ c \in Nat
    BY <1>0, MaxCallsAssumption DEF Finished, Calls
  <2>2. CASE e = c
    BY <2>1, <2>2
  <2>3. CASE e # c
    <3>1. seen[e] <= c
      BY <1>3, <2>3 DEF OrderInv, BeganLast
    <3>2. c <= seen[c]
      BY <1>2 DEF OrderInv, ReadsItsCall
    <3>3. QED
      BY <2>1, <3>1, <3>2
  <2>4. QED
    BY <2>2, <2>3
<1>7. QED
  BY <1>4, <1>5, <1>6 DEF OrderInv

(* Steps of a timer that is not linting. *)
LEMMA OrderWait ==
  ASSUME OrderInv, TypeOK', NEW c \in Calls, Wait(c)
  PROVE  OrderInv'
<1>0. TypeOK
  BY DEF OrderInv
<1>1. UNCHANGED <<calls, disk, is_saved, timers, seen, shown, overlapped, mixed_up>>
  BY DEF Wait, Fire, Stop, MissEntry, server
<1>2. PICK from \in {"waiting", "firing"}, to \in {"firing", "stopped", "KeyError"} : Becomes(c, from, to)
  BY DEF Wait, Fire, Stop, MissEntry
<1>3. /\ thread[c] = from /\ thread'[c] = to
      /\ \A d \in Calls \ {c} : thread'[d] = thread[d]
  BY <1>0, <1>2, OneThread
<1>4. UnderWay' = UnderWay /\ Finished' = Finished
  BY <1>2, <1>3 DEF UnderWay, Finished
<1>5. EntryIsLatest' /\ ReadsItsCall'
  BY <1>1, <1>2, <1>3 DEF OrderInv, EntryIsLatest, ReadsItsCall
<1>6. QED
  BY <1>1, <1>4, <1>5 DEF OrderInv, OverlapsAreKnown, BeganLast, ShownIsFinished,
                          TextGoesBackForAReason

LEMMA OrderStep ==
  ASSUME OrderInv, TypeOK', [ServerNext]_all
  PROVE  OrderInv'
<1>1. ASSUME UNCHANGED <<vars, shown, overlapped, mixed_up>> PROVE OrderInv'
  BY <1>1 DEF vars, OrderInv, EntryIsLatest, ReadsItsCall, OverlapsAreKnown, BeganLast,
              ShownIsFinished, TextGoesBackForAReason, UnderWay, Finished
<1>2. CASE ConfigUpdate \/ UNCHANGED all
  BY <1>1, <1>2 DEF ConfigUpdate, NewChecker, SetConfig, all, server, history
<1>3. ASSUME NEW saved \in BOOLEAN, Receive(saved) PROVE OrderInv'
  BY <1>3, OrderCall
<1>4. ASSUME NEW c \in Calls, Lint(c) PROVE OrderInv'
  <2>1. CASE Wait(c)
    BY <2>1, OrderWait
  <2>2. CASE Begin(c)
    BY <2>2, OrderBegin
  <2>3. CASE TakeText(c) \/ OpenFile(c)
    BY <2>3, OrderRead DEF TakeText, OpenFile
  <2>4. CASE TakeChecker(c)
    BY <1>1, <2>4 DEF TakeChecker, history
  <2>5. CASE PublishDiags(c)
    BY <2>5, OrderPublish
  <2>6. QED
    BY <1>4, <2>1, <2>2, <2>3, <2>4, <2>5 DEF Lint
<1>5. QED
  BY <1>2, <1>3, <1>4 DEF ServerNext

(* What the client shows is never older than a text that was linted alone, *)
(* but for lints that overlapped and timers that took each other's entries *)
(* (lsp.py:263-287, utils.py:488-500): for any number of calls, settings   *)
(* and threads under way.                                                  *)
THEOREM TextGoesBackOnlyForAReason == ServerSpec => []TextGoesBackForAReason
<1>1. OrderInv /\ TypeOK' /\ [ServerNext]_all => OrderInv'
  BY OrderStep
<1>2. OrderInv => TextGoesBackForAReason
  BY DEF OrderInv
<1>3. ServerSpec => []TypeOK
  BY ServerImplementsDebounce, TypeCorrect, PTL
<1>4. QED
  BY <1>1, <1>2, <1>3, OrderInit, PTL DEF ServerSpec
=============================================================================
