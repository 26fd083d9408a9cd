----------------------------- MODULE Followers -----------------------------
(* What is kept in step with something else: a file with a resource         *)
(* (ResourceFileSync), a host with its config file (ConfigWatch), the wait  *)
(* for a task with the task (TaskPolling), and the clients of a projected   *)
(* server with the connection behind it (ProjectedServer).  The parts are   *)
(* independent: a behaviour is one of one part, while the others stay as    *)
(* they began.                                                              *)
EXTENDS Naturals, Sequences

CONSTANTS
    Parts,            \* the parts to explore
    None,
    Callers, MaxOnline,               \* ResourceFileSync; MaxOnline: its sessions
    MaxDirs, MaxQueue,                \* ConfigWatch
    MaxVersions, MaxGap,              \* both: contents, and changes nobody sees
    Tools, Projected, MaxGenerations  \* ProjectedServer

(* There is a first content, session and directory, and a read may wait.    *)
ASSUME FollowersAssumption ==
    /\ {MaxOnline, MaxDirs, MaxQueue, MaxVersions} \subseteq Nat \ {0}
    /\ {MaxGap, MaxGenerations} \subseteq Nat

VARIABLES
    part,
    version, session, note, file, run, pending, generation, lastError, resub, stage, again, caller,
    gap,                                                                   \* ResourceFileSync
    disk, handle, poll, timer, queue, digest, delivered, phase, options, missed, \* ConfigWatch
    task, wait, answer, signal,                                            \* TaskPolling
    behind, bridge, client, invoked                                    \* ProjectedServer

Sync == INSTANCE ResourceFileSync WITH MaxSessions <- MaxOnline
Watch == INSTANCE ConfigWatch WITH gap <- missed, told <- delivered
Polling == INSTANCE TaskPolling
Front == INSTANCE ProjectedServer WITH upstream <- behind

syncVars == <<version, session, note, file, run, pending, generation, lastError, resub, stage, again,
              caller, gap>>
watchVars == <<disk, handle, poll, timer, queue, digest, delivered, phase, options, missed>>
taskVars == <<task, wait, answer, signal>>
frontVars == <<behind, bridge, client, invoked>>
followVars == <<syncVars, watchVars, taskVars, frontVars>>

FollowersInit ==
    /\ part \in Parts
    /\ Sync!Init /\ Watch!Init /\ Polling!Init /\ Front!Init
    /\ part # "watch" =>
         /\ disk = [dir |-> 1, version |-> 1, kind |-> "good"]
         /\ options = [initial |-> FALSE, poll |-> FALSE]
    /\ part # "task" => task = "none" /\ ~signal.given

FollowersNext ==
    /\ UNCHANGED part
    /\ \/ part = "sync" /\ Sync!Next /\ UNCHANGED <<watchVars, taskVars, frontVars>>
       \/ part = "watch" /\ Watch!Next /\ UNCHANGED <<syncVars, taskVars, frontVars>>
       \/ part = "task" /\ Polling!Next /\ UNCHANGED <<syncVars, watchVars, frontVars>>
       \/ part = "front" /\ Front!Next /\ UNCHANGED <<syncVars, watchVars, taskVars>>

(* The fairness of each part, asked for in its behaviours.                  *)
SyncFairness ==
    /\ WF_syncVars(part = "sync" /\ Sync!Progress)
    /\ WF_syncVars(part = "sync" /\ Sync!Online)
WatchFairness ==
    /\ WF_watchVars(part = "watch" /\ Watch!FileEvent)
    /\ WF_watchVars(part = "watch" /\ Watch!SelfEvent)
    /\ WF_watchVars(part = "watch" /\ Watch!PollStarts)
    /\ WF_watchVars(part = "watch" /\ Watch!PollTick)
    /\ WF_watchVars(part = "watch" /\ Watch!TimerFires)
    /\ WF_watchVars(part = "watch" /\
                    \E i \in 1 .. MaxQueue : i <= Len(queue) /\ (Watch!EmitReads(i) \/ Watch!EmitEnds(i)))
TaskFairness ==
    /\ WF_taskVars(part = "task" /\ Polling!Answers)
    /\ WF_taskVars(part = "task" /\ Polling!Aborted)
    /\ WF_taskVars(part = "task" /\ Polling!Paced)
FrontFairness ==
    /\ WF_frontVars(part = "front" /\ Front!Fire)
    /\ WF_frontVars(part = "front" /\ Front!Told)
    /\ WF_frontVars(part = "front" /\ (Front!Lists \/ Front!Listed))
FollowersFairness == SyncFairness /\ WatchFairness /\ TaskFairness /\ FrontFairness

FollowersSpec == FollowersInit /\ [][FollowersNext]_<<part, followVars>> /\ FollowersFairness

-----------------------------------------------------------------------------
(* The parts, typed.  ResourceFileSync and ConfigWatch: an answered sync()  *)
(* read the resource no earlier than it was called, no read begins after    *)
(* stop(), and once the stop() that ended the sync, or close(), has         *)
(* resolved nothing runs that could write the file or call back.            *)
(* ProjectedServer: nothing is notified after an unsubscribe, and a  *)
(* handler reaches what it was projected from.  TaskPolling: an aborted     *)
(* wait ends with the reason of its caller.                                 *)
Final ==
    /\ Sync!TypeOK /\ Sync!SyncIsFresh /\ Sync!StopIsFinal
    /\ Watch!TypeOK /\ Watch!SilentWhenClosed
    /\ Front!TypeOK /\ Front!SilentWhenClosed /\ Front!HandlersFenced
    /\ Polling!TypeOK /\ Polling!OwnReason
StopIsFinal == Final /\ [][Final' /\ Sync!NothingBegins]_<<part, followVars>>

(* ConfigWatch: onChange is called with a newer content every time.         *)
NewerEveryTime == Watch!NewerEveryTime
=============================================================================
