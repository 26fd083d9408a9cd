--------------------------- MODULE ServerRuntime ---------------------------
(* A serving entry and the server instances it materializes: the lifespan   *)
(* of src/authoring/lifespan.ts around an HTTP server of src/node/serve.ts, *)
(* and the runtimes of src/authoring/server-definition.ts with a composed   *)
(* setup hook.  Every await may fail; close() may be called at any time and *)
(* by several callers.                                                      *)
EXTENDS Naturals, Sequences

CONSTANTS
    Materializations,  \* of the definition
    Closers            \* calls of close() on the entry and on each runtime

VARIABLES
    entry,    \* [phase, thrown, reported, stops, listening, mcp]
    runtime,  \* per materialization [phase, server, held, did, thrown, error]
    closers   \* the callers of the entry's close(): "idle", "waiting", "answered"

runtimeVars == <<entry, runtime, closers>>

Failures == {"start", "serve", "close", "mcp", "stop"}
Hooks == {"parent", "child"}
Steps == {"server"} \cup Hooks

(* What can fail of a materialization: `thrown` is what has, `error` what   *)
(* instantiate() or close() rejects with.                                   *)
Faults == {"admit", "install", "close"} \cup Hooks \cup {"parent cleanup", "child cleanup"}
RuntimeTypeOK ==
    /\ entry \in [phase : {"down", "starting", "failing", "up", "closing", "closing mcp",
                           "stopping", "closed", "failed"},
                  thrown : SUBSET Failures, reported : SUBSET Failures, stops : 0 .. 1,
                  listening : BOOLEAN, mcp : {"none", "open", "closed"}]
    /\ runtime \in [Materializations ->
          [phase : {"idle", "admitting", "parent setup", "child setup", "undoing", "discarding",
                    "ready", "closing", "child cleanup", "parent cleanup", "closed", "failed"},
           server : {"none", "open", "closed"}, held : SUBSET Hooks, did : Seq(Steps),
           thrown : SUBSET Faults, error : SUBSET Faults]]
    /\ closers \in [Closers -> {"idle", "waiting", "answered"}]

RuntimeInit ==
    /\ entry = [phase |-> "down", thrown |-> {}, reported |-> {}, stops |-> 0,
                listening |-> FALSE, mcp |-> "none"]
    /\ runtime = [i \in Materializations |->
                    [phase |-> "idle", server |-> "none", held |-> {}, did |-> <<>>,
                     thrown |-> {}, error |-> {}]]
    /\ closers = [c \in Closers |-> "idle"]

Thrown(what, fails) == IF fails THEN entry.thrown \cup {what} ELSE entry.thrown
-----------------------------------------------------------------------------
(* serveWithLifespan around serveMcpHttp.                                   *)
StartLifespan(fails) ==
    /\ entry.phase = "down"
    /\ entry' = IF fails
                THEN [entry EXCEPT !.phase = "failed", !.thrown = {"start"}, !.reported = {"start"}]
                ELSE [entry EXCEPT !.phase = "starting"]
    /\ UNCHANGED <<runtime, closers>>
AfterServe_Bare(fails) == IF fails THEN "failed" ELSE "up"
AfterServe(fails) == IF fails THEN "failing" ELSE "up"
Serve(fails) ==
    /\ entry.phase = "starting"
    /\ entry' = [entry EXCEPT !.phase = AfterServe(fails),
                              !.thrown = Thrown("serve", fails),
                              !.mcp = "open", !.listening = ~fails]
    /\ UNCHANGED <<runtime, closers>>

(* What a failed start or a finished close rejects with: the stop's error,  *)
(* and the one that was there before it.                                    *)
Rejection_LastOnly(thrown) == IF "stop" \in thrown THEN {"stop"} ELSE thrown
Rejection(thrown) == thrown
Stopped(fails, to) ==
    [entry EXCEPT !.phase = to, !.stops = @ + 1, !.thrown = Thrown("stop", fails),
                  !.reported = Rejection(Thrown("stop", fails))]
StopAfterFailure(fails) ==
    /\ entry.phase = "failing"
    /\ entry' = Stopped(fails, "failed")
    /\ UNCHANGED <<runtime, closers>>

(* close(): the first call closes, the others get its promise.              *)
CloseEntry(c) ==
    /\ closers[c] = "idle" /\ entry.phase \notin {"down", "starting", "failing", "failed"}
    /\ closers' = [closers EXCEPT ![c] = IF entry.phase = "closed" THEN "answered" ELSE "waiting"]
    /\ entry' = IF entry.phase = "up" THEN [entry EXCEPT !.phase = "closing"] ELSE entry
    /\ UNCHANGED runtime
(* The HTTP server first; the MCP handler behind it only when that worked.  *)
ServerCloses(fails) ==
    /\ entry.phase = "closing"
    /\ entry' = [entry EXCEPT !.phase = IF fails THEN "stopping" ELSE "closing mcp",
                              !.thrown = Thrown("close", fails), !.listening = FALSE]
    /\ UNCHANGED <<runtime, closers>>
McpCloses(fails) ==
    /\ entry.phase = "closing mcp"
    /\ entry' = [entry EXCEPT !.phase = "stopping", !.mcp = "closed",
                              !.thrown = Thrown("mcp", fails)]
    /\ UNCHANGED <<runtime, closers>>
EntryStops(fails) ==
    /\ entry.phase = "stopping"
    /\ entry' = Stopped(fails, "closed")
    /\ closers' = [c \in Closers |-> IF closers[c] = "waiting" THEN "answered" ELSE closers[c]]
    /\ UNCHANGED runtime

-----------------------------------------------------------------------------
(* An error on the way out joins the one before it, in an AggregateError,   *)
(* or takes the place of others that are lost with it.                      *)
Joined_Last(error, what) == {what}
Joined(error, what) == error \cup {what}
Fails(r, what) == [r EXCEPT !.thrown = @ \cup {what}, !.error = Joined(@, what)]
FailsFor(r, what, lost) == [r EXCEPT !.thrown = @ \cup {what}, !.error = (@ \ lost) \cup {what}]

(* instantiate(): admission, then the setup hooks in order.                 *)
Sets(i, r) == runtime' = [runtime EXCEPT ![i] = r] /\ UNCHANGED <<entry, closers>>
Materialize(i) ==
    /\ runtime[i].phase = "idle" /\ entry.phase = "up"
    /\ Sets(i, [runtime[i] EXCEPT !.phase = "admitting"])
Admitted(i, fails) ==
    /\ runtime[i].phase = "admitting"
    /\ Sets(i, IF fails THEN Fails([runtime[i] EXCEPT !.phase = "failed"], "admit")
               ELSE [runtime[i] EXCEPT !.phase = "parent setup", !.server = "open"])
InstallFails(i) ==
    /\ runtime[i].phase = "admitting"
    /\ Sets(i, Fails([runtime[i] EXCEPT !.phase = "discarding", !.server = "open"], "install"))
(* A hook that fails holds nothing; the child's failure undoes the parent.  *)
AfterSetup(hook, fails) ==
    CASE ~fails /\ hook = "parent" -> "child setup"
      [] ~fails /\ hook = "child" -> "ready"
      [] fails /\ hook = "child" -> "undoing"
      [] OTHER -> "discarding"
SetUp(i, hook, fails) ==
    LET r == [runtime[i] EXCEPT !.phase = AfterSetup(hook, fails)]
    IN  /\ runtime[i].phase = IF hook = "parent" THEN "parent setup" ELSE "child setup"
        /\ Sets(i, IF fails THEN Fails(r, hook) ELSE [r EXCEPT !.held = @ \cup {hook}])
(* The failure of the parent's cleanup is thrown instead of the child's.    *)
Undo(i, fails) ==
    LET r == [runtime[i] EXCEPT !.phase = "discarding", !.did = Append(@, "parent")]
    IN  /\ runtime[i].phase = "undoing"
        /\ Sets(i, IF fails THEN FailsFor(r, "parent cleanup", {"child"}) ELSE r)
Discard(i, fails) ==
    LET r == [runtime[i] EXCEPT !.phase = "failed", !.server = "closed"]
    IN  /\ runtime[i].phase = "discarding"
        /\ Sets(i, IF fails THEN Fails(r, "close") ELSE r)

(* McpServerRuntime.close(): the server, then the cleanups, the child's     *)
(* first, each of them whatever failed before.                              *)
CloseRuntime(i) ==
    /\ runtime[i].phase = "ready"
    /\ Sets(i, [runtime[i] EXCEPT !.phase = "closing"])
AfterClose_OnlyIfClosed(fails) == IF fails THEN "closed" ELSE "child cleanup"
AfterClose(fails) == "child cleanup"
RuntimeServerCloses(i, fails) ==
    LET r == [runtime[i] EXCEPT !.phase = AfterClose(fails), !.server = "closed",
                                !.did = Append(@, "server")]
    IN  /\ runtime[i].phase = "closing"
        /\ Sets(i, IF fails THEN Fails(r, "close") ELSE r)
(* The composed cleanup: the parent's runs in a `finally`, and its failure  *)
(* is thrown instead of the child's.                                        *)
ChildCleansUp(i, fails) ==
    LET r == [runtime[i] EXCEPT !.phase = "parent cleanup", !.did = Append(@, "child")]
    IN  /\ runtime[i].phase = "child cleanup"
        /\ Sets(i, IF fails THEN Fails(r, "child cleanup") ELSE r)
ParentCleansUp(i, fails) ==
    LET r == [runtime[i] EXCEPT !.phase = "closed", !.did = Append(@, "parent")]
    IN  /\ runtime[i].phase = "parent cleanup"
        /\ Sets(i, IF fails THEN FailsFor(r, "parent cleanup", {"child cleanup"}) ELSE r)

RuntimeNext ==
    \/ \E fails \in BOOLEAN :
         \/ StartLifespan(fails) \/ Serve(fails) \/ StopAfterFailure(fails) \/ ServerCloses(fails)
         \/ McpCloses(fails) \/ EntryStops(fails)
         \/ \E i \in Materializations :
              \/ Admitted(i, fails) \/ Undo(i, fails) \/ Discard(i, fails)
              \/ RuntimeServerCloses(i, fails) \/ ChildCleansUp(i, fails) \/ ParentCleansUp(i, fails)
              \/ \E hook \in Hooks : SetUp(i, hook, fails)
    \/ \E c \in Closers : CloseEntry(c)
    \/ \E i \in Materializations : Materialize(i) \/ InstallFails(i) \/ CloseRuntime(i)

RuntimeSpec == RuntimeInit /\ [][RuntimeNext]_runtimeVars

-----------------------------------------------------------------------------
Done(i) == {runtime[i].did[k] : k \in DOMAIN runtime[i].did}

(* What a setup hook opened is cleaned up exactly once, the child's before  *)
(* the parent's and after the server closed, and a materialization that     *)
(* failed half way keeps nothing ("with allowSetup the two hooks run in     *)
(* order and their cleanups run in reverse").                               *)
CleanedUp ==
    \A i \in Materializations :
        /\ runtime[i].phase = "closed" => runtime[i].did = <<"server", "child", "parent">>
        /\ runtime[i].phase = "failed" => Done(i) = runtime[i].held /\ runtime[i].server # "open"

(* The state of a lifespan that started is stopped exactly once: after the  *)
(* serve failed, or after the close of the handle settled, before any       *)
(* close() is answered, and whichever of them failed.                       *)
LifespanBalanced ==
    /\ entry.phase \in {"closed", "failed"} => entry.stops = (IF "start" \in entry.thrown THEN 0 ELSE 1)
    /\ entry.stops = 1 => ~entry.listening
    /\ \A c \in Closers : closers[c] = "answered" => entry.stops = 1

(* Every failure of the entry's start or close reaches the caller, also     *)
(* when several steps failed ("when both fail, an AggregateError carries    *)
(* both").  Of a materialization and its close, so does every failure but   *)
(* the child's, in its setup or its cleanup, when the parent's cleanup      *)
(* fails after it; none resolves when something has failed.                 *)
FailuresReported ==
    /\ entry.phase \in {"closed", "failed"} => entry.reported = entry.thrown
    /\ \A i \in Materializations :
         runtime[i].phase \in {"closed", "failed"} =>
           runtime[i].error = runtime[i].thrown \
             (IF "parent cleanup" \in runtime[i].thrown THEN {"child", "child cleanup"} ELSE {})

(* Every failure of a materialization and its close is reported.  False:    *)
(* composeSetup throws the failure of the parent's cleanup instead of what  *)
(* the child has failed with.                                               *)
EveryFailureReported ==
    \A i \in Materializations :
        runtime[i].phase \in {"closed", "failed"} => runtime[i].error = runtime[i].thrown

(* What a setup hook opened is cleaned up once and in order whichever steps *)
(* fail, the lifespan is stopped once and before any close() is answered,   *)
(* and every failure is reported, but of a child whose parent's cleanup     *)
(* fails too.                                                               *)
Released == RuntimeTypeOK /\ CleanedUp /\ LifespanBalanced /\ FailuresReported
=============================================================================
