---------------------------- MODULE ConfigWatch ----------------------------
(* watchMcpConfigs of src/node/config.ts for one config file and the        *)
(* directory it lives in, which other programs edit, delete and replace.    *)
(*                                                                          *)
(* A content is a version and its kind; what the digest tells apart.  The   *)
(* operating system is what the code uses of it: a handle reports on the    *)
(* directory it was opened on, whatever its path names later; a poll        *)
(* compares the file with what it saw last.                                 *)
EXTENDS Naturals, Sequences

CONSTANTS
    MaxVersions,  \* bound: contents of the file
    MaxDirs,      \* bound: directories that get the path, one after the other
    MaxQueue,     \* bound: reads that wait in the queue
    MaxGap        \* bound: changes of the disk that no watcher was there for

VARIABLES
    disk,    \* [dir, version, kind]: the directory at the path (0: none), the file in it
    handle,  \* [on, identity, events]: the live watcher (on 0: none)
    poll,    \* [at, version, kind]: watchFile, and what it saw last
    timer,   \* the debounce timer of the file runs
    queue,   \* the chained emits: [at, version, kind]
    digest,  \* the digest recorded: a version, 0 for no file, NoDigest for none
    told,    \* [calls, version]: onChange calls, and the version of the last
    phase,   \* where the watch is, from the start to the end of close()
    options, \* [initial, poll]
    gap      \* changes no watcher was there for

vars == <<disk, handle, poll, timer, queue, digest, told, phase, options, gap>>

Kinds == {"good", "bad", "denied", "absent"}
NoDigest == MaxVersions + 1
Digests == 0 .. NoDigest
NoHandle == [on |-> 0, identity |-> 0, events |-> {}]
NoPoll == [at |-> "off", version |-> 0, kind |-> "absent"]
Copy(at) == [at |-> at, version |-> disk.version, kind |-> disk.kind]

TypeOK ==
    /\ disk \in [dir : 0 .. MaxDirs, version : 0 .. MaxVersions, kind : Kinds]
    /\ disk.dir = 0 => disk.kind = "absent"
    /\ handle \in [on : 0 .. MaxDirs, identity : 0 .. MaxDirs, events : SUBSET {"file", "self"}]
    /\ poll \in [at : {"off", "starting", "on"}, version : 0 .. MaxVersions, kind : Kinds]
    /\ timer \in BOOLEAN
    /\ queue \in Seq([at : {"queued", "read"}, version : 0 .. MaxVersions, kind : Kinds])
    /\ Len(queue) <= MaxQueue
    /\ digest \in Digests
    /\ told \in [calls : Nat, version : 0 .. MaxVersions]
    /\ phase \in {"start", "primed", "open", "closing", "closed"}
    /\ options \in [initial : BOOLEAN, poll : BOOLEAN]
    /\ gap \in 0 .. MaxGap

Init ==
    /\ disk \in {[dir |-> 0, version |-> 1, kind |-> "absent"],
                 [dir |-> 1, version |-> 1, kind |-> "absent"],
                 [dir |-> 1, version |-> 1, kind |-> "good"]}
    /\ handle = NoHandle /\ poll = NoPoll /\ timer = FALSE /\ queue = <<>>
    /\ digest = NoDigest /\ told = [calls |-> 0, version |-> 0]
    /\ phase = "start" /\ options \in [initial : BOOLEAN, poll : BOOLEAN]
    /\ gap = 0

Open == phase = "open"

-----------------------------------------------------------------------------
(* The disk, and what the watchers of the moment notice of a change.        *)
HandleSees == handle.on # 0 /\ handle.on = disk.dir
(* A poll that finds no file again does not know that there was one.        *)
ShortLived == poll.kind = "absent" /\ disk.kind # "absent" /\ disk'.kind = "absent"
Watched == HandleSees \/ "self" \in handle.events \/ (poll.at = "on" /\ ~ShortLived)
Noticed(events) ==
    /\ handle' = (IF HandleSees
                  THEN [handle EXCEPT !.events = @ \cup events] ELSE handle)
    /\ IF phase \in {"start", "closing", "closed"} \/ Watched \/ timer THEN UNCHANGED gap
       ELSE gap < MaxGap /\ gap' = gap + 1

Edit(kind) ==
    /\ disk.dir # 0 /\ disk.version < MaxVersions /\ ~(kind = "absent" /\ disk.kind = "absent")
    /\ disk' = [disk EXCEPT !.version = @ + 1, !.kind = kind]
    /\ Noticed({"file"})
    /\ UNCHANGED <<poll, timer, queue, digest, told, phase, options>>

(* A rewrite with the same bytes, or an event that is replayed.             *)
Touched ==
    /\ disk.kind # "absent" /\ handle.on = disk.dir
    /\ Noticed({"file"})
    /\ UNCHANGED <<disk, poll, timer, queue, digest, told, phase, options>>

DirGone ==
    /\ disk.dir # 0 /\ (disk.kind # "absent" => disk.version < MaxVersions)
    /\ disk' = [dir |-> 0, kind |-> "absent",
                version |-> IF disk.kind = "absent" THEN disk.version ELSE disk.version + 1]
    /\ Noticed({"file", "self"})
    /\ UNCHANGED <<poll, timer, queue, digest, told, phase, options>>

(* The directory is made again before anybody looked: a different one.      *)
DirBack(next) ==
    /\ disk.dir = 0 /\ next \in 1 .. MaxDirs /\ next > handle.on
    /\ disk' = [disk EXCEPT !.dir = next]
    /\ UNCHANGED <<handle, poll, timer, queue, digest, told, phase, options, gap>>

-----------------------------------------------------------------------------
(* trigger() and the ways of watching.                                      *)
Triggers == timer' = TRUE
Polling == IF poll.at = "off" THEN Copy("starting") ELSE poll
Opened == [on |-> disk.dir, identity |-> disk.dir, events |-> {}]

(* The synchronous start, in two parts another process can get between.     *)
DigestOf(file) == IF file.kind = "absent" THEN 0 ELSE file.version
Prime ==
    /\ phase = "start"
    /\ digest' = (IF options.initial \/ disk.kind = "denied" THEN NoDigest ELSE DigestOf(disk))
    /\ told' = [told EXCEPT !.version = IF options.initial THEN 0 ELSE disk.version]
    /\ phase' = "primed"
    /\ UNCHANGED <<disk, handle, poll, timer, queue, options, gap>>
Arm ==
    /\ phase = "primed" /\ phase' = "open"
    /\ IF options.poll \/ disk.dir = 0 THEN poll' = Polling /\ UNCHANGED handle
       ELSE handle' = Opened /\ UNCHANGED poll
    /\ queue' = IF options.initial THEN <<Copy("queued")>> ELSE <<>>
    /\ UNCHANGED <<disk, timer, digest, told, options, gap>>

FileEvent ==
    /\ Open /\ "file" \in handle.events
    /\ handle' = [handle EXCEPT !.events = @ \ {"file"}]
    /\ Triggers
    /\ UNCHANGED <<disk, poll, queue, digest, told, phase, options, gap>>

(* recheck(): the path still names the directory of the handle, none, or    *)
(* another one.                                                             *)
SameDirectory_Exists == disk.dir # 0
SameDirectory == disk.dir # 0 /\ disk.dir = handle.identity
SelfEvent ==
    /\ Open /\ "self" \in handle.events
    /\ IF SameDirectory
       THEN handle' = [handle EXCEPT !.events = @ \ {"self"}] /\ UNCHANGED <<timer, poll>>
       ELSE /\ Triggers
            /\ handle' = (IF disk.dir = 0 THEN NoHandle ELSE Opened)
            /\ poll' = (IF disk.dir = 0 THEN Polling ELSE poll)
    /\ UNCHANGED <<disk, queue, digest, told, phase, options, gap>>

(* The platform drops the handle, and what it had not said yet.             *)
WatchError ==
    /\ Open /\ handle.on # 0
    /\ IF handle.events = {} THEN UNCHANGED gap ELSE gap < MaxGap /\ gap' = gap + 1
    /\ handle' = NoHandle /\ poll' = Polling
    /\ UNCHANGED <<disk, timer, queue, digest, told, phase, options>>

PollStarts ==
    /\ poll.at = "starting"
    /\ poll' = Copy("on")
    /\ UNCHANGED <<disk, handle, timer, queue, digest, told, phase, options, gap>>
PollTick ==
    /\ poll.at = "on" /\ poll.version # disk.version
    /\ poll' = Copy("on")
    /\ IF poll.kind = "absent" /\ disk.kind = "absent" THEN UNCHANGED timer ELSE Triggers
    /\ UNCHANGED <<disk, handle, queue, digest, told, phase, options, gap>>

-----------------------------------------------------------------------------
(* emit(): the timer appends it to the queue, which runs one at a time.     *)
TimerFires ==
    /\ timer /\ timer' = FALSE
    /\ Len(queue) < MaxQueue
    /\ queue' = Append(queue, [at |-> "queued", version |-> 0, kind |-> "absent"])
    /\ UNCHANGED <<disk, handle, poll, digest, told, phase, options, gap>>

Runs_Unchained(i) == TRUE
Runs(i) == i = 1
Without(i) == SubSeq(queue, 1, i - 1) \o SubSeq(queue, i + 1, Len(queue))
EmitReads(i) ==
    /\ Runs(i) /\ queue[i].at = "queued"
    /\ queue' = IF Open THEN [queue EXCEPT ![i] = Copy("read")] ELSE Without(i)
    /\ UNCHANGED <<disk, handle, poll, timer, digest, told, phase, options, gap>>

EmitEnds(i) ==
    /\ Runs(i) /\ queue[i].at = "read"
    /\ queue' = Without(i)
    /\ LET e == queue[i]
           new == e.kind # "denied" /\ digest # DigestOf(e)
       IN  /\ digest' = (IF new THEN DigestOf(e) ELSE digest)
           /\ told' = IF new /\ e.kind # "bad" /\ Open
                      THEN [calls |-> told.calls + 1, version |-> e.version] ELSE told
    /\ UNCHANGED <<disk, handle, poll, timer, phase, options, gap>>

Close ==
    /\ Open /\ phase' = "closing"
    /\ timer' = FALSE /\ handle' = NoHandle /\ poll' = NoPoll
    /\ UNCHANGED <<disk, queue, digest, told, options, gap>>
Drained_AtOnce == TRUE
Drained == queue = <<>>
Closes ==
    /\ phase = "closing" /\ Drained /\ phase' = "closed"
    /\ UNCHANGED <<disk, handle, poll, timer, queue, digest, told, options, gap>>

Next ==
    \/ \E kind \in Kinds : Edit(kind)
    \/ Touched \/ DirGone \/ (\E d \in 1 .. MaxDirs : DirBack(d))
    \/ Prime \/ Arm \/ FileEvent \/ SelfEvent \/ WatchError \/ PollStarts \/ PollTick
    \/ TimerFires \/ (\E i \in 1 .. Len(queue) : EmitReads(i) \/ EmitEnds(i))
    \/ Close \/ Closes

Spec == Init /\ [][Next]_vars

(* Events are delivered, timers fire, the poll ticks and reads end.         *)
Fairness ==
    /\ WF_vars(FileEvent) /\ WF_vars(SelfEvent) /\ WF_vars(PollStarts) /\ WF_vars(PollTick)
    /\ WF_vars(TimerFires)
    /\ WF_vars(\E i \in 1 .. Len(queue) : EmitReads(i) \/ EmitEnds(i))

-----------------------------------------------------------------------------
(* The watch ends up at what the file holds, through edits, deletions, a    *)
(* directory that goes and comes back as another one, and a watcher that    *)
(* fails: the last readable content has been handed over or reported.       *)
WatchFollows ==
    <>[](Open /\ disk.kind # "denied") => <>[](digest = DigestOf(disk))

(* onChange is called with a newer content every time: never out of order,  *)
(* never twice for one rewrite of the same bytes, and not for the content   *)
(* that was primed ("two quick edits can never deliver out of order").      *)
NewerEveryTime ==
    [][told'.calls # told.calls => told'.version > told.version]_vars

(* When close() has resolved nothing is left that could call back.          *)
SilentWhenClosed ==
    phase = "closed" => queue = <<>> /\ ~timer /\ handle.on = 0 /\ poll.at = "off"
=============================================================================
