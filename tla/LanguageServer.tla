--------------------------- MODULE LanguageServer ---------------------------
(***************************************************************************)
(* The language server around the debounced lint of a document: the        *)
(* checker a lint works with, the diagnostics it publishes and what the    *)
(* client shows of them, while the client sends new settings.              *)
(*                                                                         *)
(* The document's calls and timers are those of Debounce, whose variables  *)
(* every step here leaves alone or changes as an action there says.  New   *)
(* settings make a new checker (a Server on the same folder), and they are *)
(* handled by the thread that handles the changes of documents: while one  *)
(* is being set up no call arrives, but timers keep firing.                *)
(*                                                                         *)
(* A lint of text takes the text before it takes the checker, the lint of  *)
(* a saved file takes the checker and reads the file when the checker lets *)
(* it.  Its diagnostics replace those the client shows for the document.   *)
(***************************************************************************)
EXTENDS Debounce

CONSTANT MaxUpdates      (* bound: settings sent in one behaviour *)
ASSUME MaxUpdatesAssumption == MaxUpdates \in Nat

Checkers == 1 .. MaxUpdates + 1

VARIABLES
  checker,      (* _checker: which of the checkers made so far              *)
  in_force,     (* the last checker whose configuration was set             *)
  update,       (* where onConfigUpdate is                                  *)
  asked_of,     (* in_force when a call was made                            *)
  chosen,       (* checker taken by the lint of each call, None before      *)
  overlapped,   (* history: lints under way at the same time as another     *)
  mixed_up,     (* history: calls whose timer deleted the entry of another  *)
                (* one, and those whose entry was deleted that way          *)
  shown         (* the call whose diagnostics the client shows              *)

server == <<checker, in_force, update, asked_of, chosen, overlapped, mixed_up, shown>>
history == <<overlapped, mixed_up>>
all    == <<vars, server>>

ServerInit ==
  /\ Init
  /\ checker = 1 /\ in_force = 1 /\ update = "none"
  /\ asked_of = [c \in Calls |-> None]
  /\ chosen = [c \in Calls |-> None]
  /\ overlapped = {} /\ mixed_up = {}
  /\ shown = None

UnderWay == {c \in Calls : thread[c] \in {"running", "checking"}}

-----------------------------------------------------------------------------
(* onConfigUpdate: a new Server takes the place of the checker, and what   *)
(* it was told last time is recovered from its cache.                      *)
NewChecker ==
  /\ update = "none" /\ checker <= MaxUpdates
  /\ checker' = checker + 1
  /\ update' = "configuring"
  /\ UNCHANGED <<vars, in_force, asked_of, chosen, history, shown>>

(* setConfig reads the project file, or the one generated from the sources *)
(* found in the workspace when there is none.  A parameter nobody knows    *)
(* ends the update with the checker as it is.                              *)
SetConfig ==
  /\ update = "configuring"
  /\ update' = "none" /\ in_force' \in {in_force, checker}
  /\ UNCHANGED <<vars, checker, asked_of, chosen, history, shown>>

-----------------------------------------------------------------------------
(* didChange, didSave or didOpen. *)
Receive(saved) ==
  /\ update = "none"
  /\ Call(saved)
  /\ asked_of' = [asked_of EXCEPT ![calls + 1] = in_force]
  /\ UNCHANGED <<checker, in_force, update, chosen, history, shown>>

(* The timer thread up to the call of lint. *)
Wait(c) ==
  /\ Fire(c) \/ Stop(c) \/ MissEntry(c)
  /\ UNCHANGED server

Begin(c) ==
  /\ DeleteEntry(c)
  /\ overlapped' = IF UnderWay = {} THEN overlapped ELSE overlapped \cup UnderWay \cup {c}
  /\ mixed_up' = IF timers = c THEN mixed_up ELSE mixed_up \cup {timers, c}
  /\ UNCHANGED <<checker, in_force, update, asked_of, chosen, shown>>

(* _getDiags gets the text of the document from the workspace. *)
TakeText(c) ==
  /\ ~ is_saved[c]
  /\ ReadText(c)
  /\ UNCHANGED server

(* Slip: the checker is the one the server started with. *)
TakeCheckerOfCall(c) ==
  /\ chosen[c] = None
  /\ thread[c] = IF is_saved[c] THEN "running" ELSE "checking"
  /\ chosen' = [chosen EXCEPT ![c] = 1]
  /\ UNCHANGED <<vars, checker, in_force, update, asked_of, history, shown>>

(* It looks up the checker: for text with the text at hand, for a saved    *)
(* file before getMessagesByPath opens it.                                 *)
TakeChecker(c) ==
  /\ chosen[c] = None
  /\ thread[c] = IF is_saved[c] THEN "running" ELSE "checking"
  /\ chosen' = [chosen EXCEPT ![c] = checker]
  /\ UNCHANGED <<vars, checker, in_force, update, asked_of, history, shown>>

OpenFile(c) ==
  /\ is_saved[c] /\ chosen[c] # None
  /\ ReadText(c)
  /\ UNCHANGED server

(* The document has been checked, and publish_diagnostics is called for it *)
(* in any case, so that an empty list removes what was shown.              *)
PublishDiags(c) ==
  /\ chosen[c] # None
  /\ Publish(c)
  /\ shown' = c
  /\ UNCHANGED <<checker, in_force, update, asked_of, chosen, history>>

Lint(c) ==
  Wait(c) \/ Begin(c) \/ TakeText(c) \/ TakeChecker(c) \/ OpenFile(c) \/ PublishDiags(c)

ConfigUpdate == NewChecker \/ SetConfig

ServerNext ==
  \/ ConfigUpdate
  \/ \E saved \in BOOLEAN : Receive(saved)
  \/ \E c \in Calls : Lint(c)

ServerSpec == ServerInit /\ [][ServerNext]_all

(* Threads run on, and an update that has begun goes on; the user need     *)
(* neither type nor send settings.                                         *)
FairServerSpec ==
  ServerSpec /\ (\A c \in Calls : WF_all(Lint(c))) /\ WF_all(SetConfig)

-----------------------------------------------------------------------------
Finished == {c \in Calls : thread[c] = "finished"}

(* What the client shows for a document is never older than a text that    *)
(* was linted while no other lint of it was under way. An older text comes *)
(* back only when its lint overlapped with that of a newer one, which the  *)
(* debouncing does not prevent, or when timers took each other's entries:  *)
(* a lint then runs although a later call should have cancelled it         *)
(* (lsp.py:263-287, utils.py:488-500).                                     *)
TextGoesBackForAReason ==
  \A c \in Finished \ overlapped :
    seen[shown] >= seen[c] \/ shown \in mixed_up

(* Each save gets linted, or a newer text does, with the configuration in  *)
(* force when it was saved, or a newer one, although a lint may hold an    *)
(* older checker, and the timer that lints may be that of another call     *)
(* (lsp.py:202, 303).                                                      *)
SavesMeetTheConfiguration ==
  \A v \in Calls : (disk >= v) ~>
    \E c \in Finished : seen[c] >= v /\ chosen[c] >= asked_of[v]
=============================================================================
