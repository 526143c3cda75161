------------------------------ MODULE Debounce ------------------------------
(***************************************************************************)
(* The debounced lint of one document: utils.debounce around               *)
(* HdlCheckerLanguageServer.lint, keyed by the document's uri.             *)
(*                                                                         *)
(* Every didChange, didSave or didOpen of the document is a call.  A call  *)
(* cancels the timer the dict "timers" holds and stores a new one, all     *)
(* under a lock.  A timer is a thread of its own: threading.Timer waits    *)
(* for the interval, then looks at its cancelled flag, and only then runs  *)
(* "run", which takes the lock to delete the dict's entry and calls lint   *)
(* outside the lock.  Between the look at the flag and the lock a call can *)
(* slip in; cancelling is then too late.                                   *)
(*                                                                         *)
(* Lint reads the document when it runs, not when it was called: the file  *)
(* on disk if the call was for a save, the editor's text otherwise.        *)
(***************************************************************************)
EXTENDS Naturals, FiniteSets

CONSTANT MaxCalls    (* bound: calls made in one behaviour *)
ASSUME MaxCallsAssumption == MaxCalls \in Nat \ {0}

Calls == 1 .. MaxCalls
None == 0

VARIABLES
  calls,      (* number of calls made; also the version of the editor's text *)
  disk,       (* version of the text on disk                                *)
  is_saved,   (* argument of each call                                      *)
  timers,     (* the dict's entry for the uri: a call, or None              *)
  cancelled,  (* calls whose timer has been cancelled                       *)
  thread,     (* what the timer thread of each call is doing                *)
  seen        (* version of the text that the lint of a call has read       *)

vars == <<calls, disk, is_saved, timers, cancelled, thread, seen>>

ThreadStates ==
  {"unborn", "waiting", "firing", "running", "checking", "finished", "stopped", "KeyError"}

Init ==
  /\ calls = 0 /\ disk = 0
  /\ is_saved = [c \in Calls |-> FALSE]
  /\ timers = None
  /\ cancelled = {}
  /\ thread = [c \in Calls |-> "unborn"]
  /\ seen = [c \in Calls |-> 0]

Becomes(c, from, to) ==
  /\ thread[c] = from
  /\ thread' = [thread EXCEPT ![c] = to]

(* The document has changed, or has been saved or opened, before the       *)
(* handler is called.                                                      *)
Edit(saved) ==
  /\ calls < MaxCalls
  /\ calls' = calls + 1
  /\ disk' = IF saved THEN calls + 1 ELSE disk
  /\ is_saved' = [is_saved EXCEPT ![calls + 1] = saved]

(* Slip: the timer cancelled is the one just stored. *)
CallCancelingItself(saved) ==
  /\ Edit(saved)
  /\ timers' = calls + 1
  /\ cancelled' = cancelled \cup {timers'}
  /\ Becomes(calls + 1, "unborn", "waiting")
  /\ UNCHANGED seen

(* debounced(uri, is_saved), under the lock. *)
Call(saved) ==
  /\ Edit(saved)
  /\ cancelled' = cancelled \cup ({timers} \ {None})
  /\ timers' = calls + 1
  /\ Becomes(calls + 1, "unborn", "waiting")
  /\ UNCHANGED seen

(* The interval is over and the timer has not been cancelled. *)
Fire(c) ==
  /\ c \notin cancelled
  /\ Becomes(c, "waiting", "firing")
  /\ UNCHANGED <<calls, disk, is_saved, timers, cancelled, seen>>

(* The timer finds itself cancelled. *)
Stop(c) ==
  /\ c \in cancelled
  /\ Becomes(c, "waiting", "stopped")
  /\ UNCHANGED <<calls, disk, is_saved, timers, cancelled, seen>>

(* run, under the lock: del timers[key], whatever timer the entry holds. *)
DeleteEntry(c) ==
  /\ timers # None
  /\ timers' = None
  /\ Becomes(c, "firing", "running")
  /\ UNCHANGED <<calls, disk, is_saved, cancelled, seen>>

(* del timers[key] without an entry: KeyError ends the thread. *)
MissEntry(c) ==
  /\ timers = None
  /\ Becomes(c, "firing", "KeyError")
  /\ UNCHANGED <<calls, disk, is_saved, timers, cancelled, seen>>

(* Slip: the text is taken for the file and the file for the text. *)
ReadTextSwapped(c) ==
  /\ Becomes(c, "running", "checking")
  /\ seen' = [seen EXCEPT ![c] = IF is_saved[c] THEN calls ELSE disk]
  /\ UNCHANGED <<calls, disk, is_saved, timers, cancelled>>

(* lint: get the text to check. *)
ReadText(c) ==
  /\ Becomes(c, "running", "checking")
  /\ seen' = [seen EXCEPT ![c] = IF is_saved[c] THEN disk ELSE calls]
  /\ UNCHANGED <<calls, disk, is_saved, timers, cancelled>>

(* The text has been checked and its diagnostics published. *)
Publish(c) ==
  /\ Becomes(c, "checking", "finished")
  /\ UNCHANGED <<calls, disk, is_saved, timers, cancelled, seen>>

Timer(c) ==
  Fire(c) \/ Stop(c) \/ DeleteEntry(c) \/ MissEntry(c) \/ ReadText(c) \/ Publish(c)

Next == (\E saved \in BOOLEAN : Call(saved)) \/ \E c \in Calls : Timer(c)

Spec == Init /\ [][Next]_vars

(* Threads run on; the user need not type. *)
FairSpec == Spec /\ \A c \in Calls : WF_vars(Timer(c))

-----------------------------------------------------------------------------
(* Types; the dict never holds a cancelled timer. *)
TypeOK ==
  /\ calls \in 0 .. MaxCalls /\ disk \in 0 .. calls
  /\ is_saved \in [Calls -> BOOLEAN]
  /\ timers \in (0 .. calls) \ cancelled
  /\ cancelled \subseteq 1 .. calls
  /\ thread \in [Calls -> ThreadStates]
  /\ seen \in [Calls -> 0 .. calls]

(* A timer that can still take the entry away. *)
Pending == {c \in Calls : thread[c] \in {"waiting", "firing"} /\ c \notin cancelled}

(* A save is never left without a lint to come: there is a timer for the   *)
(* entry, or a run that has yet to read the text, or the text has been     *)
(* read.  The run may be that of an older call, whose timer took the entry *)
(* of the newer one (utils.py:488-500).                                    *)
LatestSaveIsCovered ==
  disk > 0 =>
    \/ \E c \in Calls : thread[c] = "running"
    \/ timers # None /\ Pending # {}
    \/ \E c \in Calls : seen[c] >= disk

(* "Debounce calls to this function until interval_s seconds have passed"  *)
(* (utils.py:470): once the user stops typing the last text should be      *)
(* linted. The one way in which it is not: the timer of an earlier call,   *)
(* past its look at the cancelled flag when the change arrives, deletes    *)
(* the entry of the change and lints what its own call was about; the      *)
(* timer of the change then dies of a KeyError.                            *)
ChangeLostOnlyToKeyError ==
  \A v \in Calls : (calls >= v) ~>
    \E c \in Calls : seen[c] >= v \/ (c >= v /\ thread[c] = "KeyError")
=============================================================================
