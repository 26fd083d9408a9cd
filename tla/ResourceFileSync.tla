-------------------------- MODULE ResourceFileSync --------------------------
(* syncResourceToFile of src/node/resources.ts: a file kept in step with a  *)
(* resource of one connection, while the resource changes, sessions come    *)
(* and go, callers ask for a sync and somebody stops it.                    *)
(*                                                                          *)
(* A content is the version of the resource it was read from.  The manager  *)
(* is what the code uses of it: a session that is up or not, a subscription *)
(* that lasts as long as its session, events, and calls that need a session *)
(* and may fail on one.  A write is the atomic rename of a temporary file.  *)
EXTENDS Naturals, FiniteSets

CONSTANTS
    Callers,        \* calls of sync(), one each
    MaxVersions,    \* bound: versions of the resource
    MaxSessions,    \* bound: generations of the connection
    MaxGap,         \* bound: updates and sessions between the first read and the listener
    None

VARIABLES
    version,      \* the version of the resource, at the server
    session,      \* [generation, up, subscribed]
    note,         \* a resource.updated event is on its way to the listener
    file,         \* the version the file holds, 0 when there is none
    run,          \* inFlight: [at, read, waiting] or None
    pending,      \* the callers of the coalesced follow-up, or None
    generation,   \* the generation subscribed to last, as the code keeps it
    lastError,    \* the last run or renewal failed (what of, is left out)
    resub,        \* resubscribing: "none", "sent", "done", "refused"
    stage,        \* where the sync is, from its start to its stop; "stranded":
                  \* stopped, and the server did not drop the subscription
    again,        \* history: a stop() made after the first has resolved
    caller,       \* [phase, asked, got] of a sync() call: the version when it was
                  \* made and the one it was answered with, 0 when its read failed
    gap           \* updates and sessions that nobody listened to

vars == <<version, session, note, file, run, pending, generation, lastError, resub, stage, again,
          caller, gap>>

Sessions == [generation : 1 .. MaxSessions, up : BOOLEAN, subscribed : BOOLEAN]
TypeOK ==
    /\ version \in 1 .. MaxVersions
    /\ session \in Sessions /\ note \in BOOLEAN
    /\ file \in 0 .. MaxVersions
    /\ run \in {None} \cup [at : {"reading", "read"}, read : 0 .. MaxVersions,
                            waiting : SUBSET Callers]
    /\ pending \in {None} \cup SUBSET Callers
    /\ generation \in 1 .. MaxSessions
    /\ lastError \in BOOLEAN /\ again \in BOOLEAN
    /\ resub \in {"none", "sent", "done", "refused"}
    /\ stage \in {"start", "reading", "read", "following", "stopping", "dropping",
                  "stopped", "stranded", "failed"}
    /\ caller \in [Callers -> [phase : {"idle", "waiting", "answered"},
                               asked : 0 .. MaxVersions, got : 0 .. MaxVersions]]
    /\ gap \in 0 .. MaxGap

Init ==
    /\ version = 1 /\ file = 0 /\ gap = 0
    /\ session = [generation |-> 1, up |-> TRUE, subscribed |-> FALSE]
    /\ note = FALSE /\ run = None /\ pending = None
    /\ generation = 1 /\ lastError = FALSE /\ resub = "none"
    /\ stage = "start" /\ again = FALSE
    /\ caller = [c \in Callers |-> [phase |-> "idle", asked |-> 0, got |-> 0]]

Following == stage = "following"
Starting == stage \in {"start", "reading", "read"}
Resolved == stage \in {"stopped", "stranded"}    \* the stop() that ended the sync
Stopped == stage \in {"stopping", "dropping"} \/ Resolved

-----------------------------------------------------------------------------
(* The server and the connection.                                           *)
(* What happens between the first read and the listener is heard by nobody. *)
Unheard ==
    IF stage \in {"reading", "read"} THEN gap < MaxGap /\ gap' = gap + 1 ELSE UNCHANGED gap

Updated ==
    /\ version < MaxVersions
    /\ version' = version + 1
    /\ Unheard
    /\ note' = (note \/ (Following /\ session.subscribed))
    /\ UNCHANGED <<session, file, run, pending, generation, lastError, resub, stage, again, caller>>

Lost ==
    /\ session.up
    /\ session' = [session EXCEPT !.up = FALSE, !.subscribed = FALSE]
    /\ note' = FALSE
    /\ UNCHANGED <<version, file, run, pending, generation, lastError, resub, stage, again, caller, gap>>

(* A new session: the listener renews its subscription once per generation. *)
Renews == Following /\ session.generation + 1 # generation
Online ==
    /\ ~session.up /\ session.generation < MaxSessions
    /\ Unheard
    /\ session' = [generation |-> session.generation + 1, up |-> TRUE, subscribed |-> FALSE]
    /\ IF Renews THEN /\ resub' = "sent" /\ generation' = session.generation + 1
       ELSE UNCHANGED <<resub, generation>>
    /\ UNCHANGED <<version, note, file, run, pending, lastError, stage, again, caller>>

-----------------------------------------------------------------------------
(* run(): one read at a time; a call made meanwhile is answered by the      *)
(* follow-up, which reads after it.                                         *)
Joins_Shares(callers) ==
    run' = (IF run = None THEN [at |-> "reading", read |-> 0, waiting |-> callers]
            ELSE [run EXCEPT !.waiting = @ \cup callers]) /\ UNCHANGED pending
Begun(callers) == [at |-> "reading", read |-> 0, waiting |-> callers]
Joins(callers) ==
    IF run = None THEN run' = Begun(callers) /\ UNCHANGED pending
    ELSE /\ pending' = (IF pending = None THEN callers ELSE pending \cup callers)
         /\ UNCHANGED run

Noted ==
    /\ note /\ note' = FALSE
    /\ IF Following THEN Joins({}) ELSE UNCHANGED <<run, pending>>
    /\ UNCHANGED <<version, session, file, generation, lastError, resub, stage, again, caller, gap>>

Sync(c) ==
    /\ caller[c].phase = "idle" /\ (Following \/ Stopped)
    /\ IF Stopped
       THEN /\ caller' = [caller EXCEPT ![c].phase = "answered"] /\ UNCHANGED <<run, pending>>
       ELSE /\ caller' = [caller EXCEPT ![c] = [phase |-> "waiting", asked |-> version, got |-> 0]]
            /\ Joins({c})
    /\ UNCHANGED <<version, session, note, file, generation, lastError, resub, stage, again, gap>>

Read ==
    /\ ~Starting /\ run # None /\ run.at = "reading" /\ session.up
    /\ run' = [run EXCEPT !.at = "read", !.read = version]
    /\ UNCHANGED <<version, session, note, file, pending, generation, lastError, resub, stage, again,
                   caller, gap>>

(* The end of a run: its callers resolve, and the follow-up starts unless   *)
(* the sync was stopped, which resolves it at once.                         *)
Answered(callers, got) ==
    [c \in Callers |->
       IF c \in callers THEN [caller[c] EXCEPT !.phase = "answered", !.got = got]
       ELSE IF Stopped /\ pending # None /\ c \in pending
            THEN [caller[c] EXCEPT !.phase = "answered"]
       ELSE caller[c]]
FollowUp_Never == pending' = None /\ run' = None
FollowUp_Runs == pending' = None /\ run' = IF pending = None THEN None ELSE Begun(pending)
FollowUp ==
    /\ pending' = None
    /\ run' = IF pending = None \/ Stopped THEN None ELSE Begun(pending)
EndOf(got) == FollowUp /\ caller' = Answered(run.waiting, got)
(* What onSynced throws is reported as an error of the sync, too.           *)
Written(onSyncedThrows) ==
    /\ ~Starting /\ run # None /\ run.at = "read"
    /\ file' = run.read /\ lastError' = onSyncedThrows
    /\ EndOf(run.read)
    /\ UNCHANGED <<version, session, note, generation, resub, stage, again, gap>>
(* A read fails, or decoding or writing what was read; nothing tries again. *)
RunFails ==
    /\ ~Starting /\ run # None
    /\ lastError' = TRUE
    /\ EndOf(0)
    /\ UNCHANGED <<version, session, note, file, generation, resub, stage, again, gap>>

(* The renewed subscription, and the run behind it.                         *)
Resubscribed ==
    /\ resub = "sent" /\ session.up
    /\ session' = [session EXCEPT !.subscribed = TRUE]
    /\ resub' = "done"
    /\ IF Stopped THEN UNCHANGED <<run, pending>> ELSE Joins({})
    /\ UNCHANGED <<version, note, file, generation, lastError, stage, again, caller, gap>>
ResubscribeFails ==
    /\ resub = "sent"
    /\ resub' = "refused" /\ lastError' = (lastError \/ ~Stopped)
    /\ UNCHANGED <<version, session, note, file, run, pending, generation, stage, again, caller, gap>>

-----------------------------------------------------------------------------
(* The start: subscribe, read, write, and only then listen.                 *)
Subscribe ==
    /\ stage = "start" /\ session.up
    /\ session' = [session EXCEPT !.subscribed = TRUE]
    /\ stage' = "reading"
    /\ UNCHANGED <<version, note, file, run, pending, generation, lastError, resub, again, caller, gap>>
FirstRead ==
    /\ stage = "reading" /\ session.up
    /\ stage' = "read" /\ run' = [at |-> "read", read |-> version, waiting |-> {}]
    /\ UNCHANGED <<version, session, note, file, pending, generation, lastError, resub, again, caller, gap>>
FirstWritten ==
    /\ stage = "read"
    /\ stage' = "following" /\ file' = run.read /\ run' = None
    /\ UNCHANGED <<version, session, note, pending, generation, lastError, resub, again, caller, gap>>
FirstFails ==
    /\ Starting
    /\ stage' = "failed" /\ run' = None
    /\ \/ UNCHANGED file
       \/ stage = "read" /\ file' = run.read      \* onSynced throws
    /\ session' = [session EXCEPT !.subscribed = FALSE]
    /\ UNCHANGED <<version, note, pending, generation, lastError, resub, again, caller, gap>>

(* stop(), of a caller or of a removed connection: it waits for the run and *)
(* for the renewal, and then drops the subscription.  One that is made      *)
(* later resolves at once.                                                  *)
Stop ==
    /\ Following
    /\ stage' = "stopping"
    /\ UNCHANGED <<version, session, note, file, run, pending, generation, lastError, resub, again,
                   caller, gap>>
StopAgain ==
    /\ Stopped /\ ~again
    /\ again' = TRUE
    /\ UNCHANGED <<version, session, note, file, run, pending, generation, lastError, resub, stage,
                   caller, gap>>
Quiet_RunOnly == run = None
Quiet == run = None /\ resub # "sent"
Dropping ==
    /\ stage = "stopping" /\ Quiet
    /\ stage' = IF session.up THEN "dropping" ELSE "stopped"
    /\ UNCHANGED <<version, session, note, file, run, pending, generation, lastError, resub, again,
                   caller, gap>>
Unsubscribed(refused) ==
    /\ stage = "dropping"
    /\ stage' = IF refused THEN "stranded" ELSE "stopped"
    /\ session' = [session EXCEPT !.subscribed = @ /\ refused]
    /\ UNCHANGED <<version, note, file, run, pending, generation, lastError, resub, again, caller, gap>>

Next ==
    \/ Updated \/ Lost \/ Online \/ Noted \/ Read \/ RunFails
    \/ \E throws \in BOOLEAN : Written(throws)
    \/ Resubscribed \/ ResubscribeFails
    \/ Subscribe \/ FirstRead \/ FirstWritten \/ FirstFails
    \/ Stop \/ StopAgain \/ Dropping
    \/ \E refused \in BOOLEAN : Unsubscribed(refused)
    \/ \E c \in Callers : Sync(c)

Spec == Init /\ [][Next]_vars

(* The manager answers, delivers and connects again; the resource, the      *)
(* losses of the session, the callers and stop() are free.                  *)
Ends == \E given \in BOOLEAN : Written(given) \/ Unsubscribed(given)
Progress ==
    Noted \/ Read \/ RunFails \/ Resubscribed \/ ResubscribeFails
          \/ Subscribe \/ FirstRead \/ FirstWritten \/ Dropping \/ Ends
Fairness == WF_vars(Progress) /\ WF_vars(Online)

-----------------------------------------------------------------------------
(* While the sync follows a connection that can come back, the file ends up *)
(* at the last version, however updates, losses of the session, runs and    *)
(* renewals of the subscription overlap ("rewrites it on every              *)
(* resource.updated event", "re-subscribes after the connection comes back  *)
(* on a new generation"), unless the last run failed, which is told ("a     *)
(* later failure is reported through onError and lastError"), or the        *)
(* renewal of this generation was refused, which is not tried again.        *)
FileFollows ==
    <>[](Following /\ session.up) =>
        <>[](file = version \/ lastError \/ resub = "refused")

(* A sync() that is answered while the sync follows and reads do not fail   *)
(* has brought the file to a read taken no earlier than the call.           *)
SyncIsFresh ==
    \A c \in Callers :
        caller[c].phase = "answered" /\ caller[c].got > 0 => caller[c].got >= caller[c].asked

(* Once the stop() that ended the sync has resolved nothing writes the      *)
(* file, and no subscription of this sync stays open at a server that drops *)
(* it when asked, not even one being renewed when it was called.            *)
StopIsFinal ==
    /\ Resolved => run = None /\ resub # "sent"
    /\ stage = "stopped" /\ session.up => ~session.subscribed

(* From the first stop() on no read begins: the run in flight is the last   *)
(* to write, whatever was coalesced behind it and whoever asks.             *)
Ending ==
    \/ run' \in {None, run} /\ (pending' # pending => run' = None)
    \/ /\ run # None /\ run.at = "reading" /\ pending' = pending
       /\ run' = [run EXCEPT !.at = "read", !.read = version]
NothingBegins == Stopped => Ending

(* The first stop() is for all: a later one resolves when it has ended      *)
(* ("Stops following updates and drops the subscription", resources.ts:112).*)
(* False: a later one resolves at once, with a write still in flight.       *)
EveryStopIsFinal == again => run = None

(* A sync that will not hear of updates any more goes on saying so.  False: *)
(* a sync() that succeeds clears the error of a renewal that was refused.   *)
FailureStays == Following /\ session.up /\ resub = "refused" => lastError
=============================================================================
