----------------------------- MODULE TaskPolling -----------------------------
(***************************************************************************)
(* One caller of a task-augmented tool call (src/client/tasks.ts): it      *)
(* creates a task, or is given one, polls `tasks/get` until the task needs *)
(* something or is over, and fetches `tasks/result`.  The server moves the *)
(* task as it likes, answers a request some time after it has read the     *)
(* task, and forgets a task that is over.  The caller's signal may fire at *)
(* any time, also inside the caller's own `onUpdate`.                      *)
(*                                                                         *)
(* One action is the code between two awaits.  The interval of a poll has  *)
(* no length: its timer may fire at any time, or late.                     *)
(***************************************************************************)
EXTENDS Naturals

VARIABLES
  task,     \* the task at the server: its status, "none" before, "gone" after
  wait,     \* the await the call is suspended at; its outcome
  answer,   \* what the server has read for the request in flight
  signal    \* options.signal: given?  aborted?

vars == <<task, wait, answer, signal>>

Terminal == {"completed", "failed", "cancelled"}   \* MCP_TASK_TERMINAL_STATUSES
Statuses == {"working", "input_required"} \cup Terminal
Requests == {"creating", "getting", "fetching"}
Outcomes == {"none", "result", "ended", "error", "reason"}

At(place) == [at |-> place, outcome |-> "none"]
Over(outcome) == [at |-> "done", outcome |-> outcome]

Init ==
  /\ task \in {"none"} \cup Statuses
  /\ wait = At("idle")
  /\ answer = "none"
  /\ signal \in {s \in [given: BOOLEAN, aborted: BOOLEAN] : s.aborted => s.given}

-----------------------------------------------------------------------------
(* preferAbortReason: what a request was rejected with, or why it was.     *)
Rejected_AsRaised(s) == Over("error")
Rejected(s) == Over(IF s.aborted THEN "reason" ELSE "error")

(* The head of the loop: throwIfAborted, then `tasks/get`.                 *)
Polls(s) == IF s.aborted THEN Over("reason") ELSE At("getting")

(* sleep(): a signal that has fired already is answered here, since its    *)
(* `abort` listener never would be.                                        *)
Asleep_Deaf(s) == At("sleeping")
Asleep(s) == IF s.aborted THEN Over("reason") ELSE At("sleeping")

(* What follows the update of a poll.                                      *)
Advised(status, s) ==
  CASE status \in {"completed", "input_required"} -> At("fetching")
    [] status \in {"failed", "cancelled"}         -> Over("ended")
    [] status = "working"                         -> Asleep(s)

(* onUpdate runs the caller's code, which may fire its own signal.         *)
Updated(s) == {s} \cup IF s.given THEN {[s EXCEPT !.aborted = TRUE]} ELSE {}

-----------------------------------------------------------------------------
(* callToolViaTask; the SDK rejects a request that is made on, or under, a *)
(* signal that has fired (RequestFails).                                   *)
CallToolViaTask ==
  /\ wait.at = "idle" /\ task = "none"
  /\ wait' = At("creating") /\ answer' = "none"
  /\ UNCHANGED <<task, signal>>

WaitForTask ==
  /\ wait.at = "idle" /\ task # "none"
  /\ wait' = Polls(signal) /\ answer' = "none"
  /\ UNCHANGED <<task, signal>>

(* The created task is the first update, and then it is waited for.        *)
Created ==
  /\ wait.at = "creating" /\ answer # "none"
  /\ signal' \in Updated(signal)
  /\ wait' = Polls(signal') /\ answer' = "none"
  /\ UNCHANGED task

Polled ==
  /\ wait.at = "getting" /\ answer # "none"
  /\ signal' \in Updated(signal)
  /\ wait' = Advised(answer, signal') /\ answer' = "none"
  /\ UNCHANGED task

Fetched ==
  /\ wait.at = "fetching" /\ answer # "none"
  /\ wait' = Over("result") /\ answer' = "none"
  /\ UNCHANGED <<task, signal>>

SleepEnds ==
  /\ wait.at = "sleeping"
  /\ wait' = Polls(signal)
  /\ UNCHANGED <<task, answer, signal>>

(* No task verb on this connection, a refusal, a timeout, or a session     *)
(* that is gone.                                                           *)
RequestFails ==
  /\ wait.at \in Requests
  /\ wait' = Rejected(signal) /\ answer' = "none"
  /\ UNCHANGED <<task, signal>>

(* The signal fires: a sleep ends at once.                                 *)
Abort ==
  /\ signal.given /\ ~signal.aborted /\ wait.at \notin {"idle", "done"}
  /\ signal' = [signal EXCEPT !.aborted = TRUE]
  /\ wait' = IF wait.at = "sleeping" THEN Over("reason") ELSE wait
  /\ UNCHANGED <<task, answer>>

-----------------------------------------------------------------------------
(* The server: it reads the task for a `tasks/get`, and holds a            *)
(* `tasks/result` back until the task is over.                             *)
Reads ==
  /\ answer = "none"
  /\ \/ wait.at = "creating" /\ task' = "working" /\ answer' = "working"
     \/ wait.at = "getting" /\ task \in Statuses /\ answer' = task /\ UNCHANGED task
     \/ wait.at = "fetching" /\ task = "completed" /\ answer' = task /\ UNCHANGED task
  /\ UNCHANGED <<wait, signal>>
TaskMoves ==
  /\ task \in {"working", "input_required"}
  /\ task' \in Statuses \ {task}
  /\ UNCHANGED <<wait, answer, signal>>
TaskForgotten ==
  /\ task \in Terminal /\ task' = "gone"
  /\ UNCHANGED <<wait, answer, signal>>

Next ==
  \/ CallToolViaTask \/ WaitForTask \/ Created \/ Polled \/ Fetched
  \/ SleepEnds \/ RequestFails \/ Abort
  \/ Reads \/ TaskMoves \/ TaskForgotten

Spec == Init /\ [][Next]_vars

(* The server answers, and refuses a task it has no more, or no result of; *)
(* the SDK rejects what is aborted.  The interval goes by, but nobody      *)
(* promises an aborted caller when.                                        *)
Refuses ==
  /\ answer = "none"
  /\ \/ task = "gone"
     \/ wait.at = "fetching" /\ task \in {"failed", "cancelled"}
  /\ RequestFails
Aborted == signal.aborted /\ RequestFails
Answers == Created \/ Polled \/ Fetched \/ Reads \/ Refuses
Paced == ~signal.aborted /\ SleepEnds

-----------------------------------------------------------------------------
TypeOK ==
  /\ task \in {"none", "gone"} \cup Statuses
  /\ wait \in [at: {"idle", "sleeping", "done"} \cup Requests, outcome: Outcomes]
  /\ answer \in {"none"} \cup Statuses
  /\ signal \in [given: BOOLEAN, aborted: BOOLEAN]

(* "a caller who supplied a reason should still see that reason": a call   *)
(* does not end with the transport's error once its signal has fired.      *)
OwnReason == wait.outcome = "error" => ~signal.aborted

(* A wait for a task that is over, or forgotten, comes to an end, and so    *)
(* does one that is aborted, wherever that lands and without a poll         *)
(* interval to sit out ("aborts the loop AND the request in flight").       *)
WaitEnds ==
  /\ wait.at # "idle"
  /\ signal.aborted \/ task \in {"gone"} \cup Terminal
  ~> wait.at = "done"
=============================================================================
