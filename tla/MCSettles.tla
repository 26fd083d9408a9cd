----------------------------- MODULE MCSettles -----------------------------
(* What must eventually happen, for TLC: calls on a listen stream           *)
(* (ListenStream) and waits for a task end, a file is kept in step with a   *)
(* resource, and so are the watch of a config file and the clients of a     *)
(* projected server (Followers).  The parts are independent; a behaviour is *)
(* one of one part, and only the fairness of that part asks for steps.      *)
EXTENDS Followers, TLC

CONSTANTS k1, u1

VARIABLES conn, stream, turns, call, promised, sessions                \* ListenStream

Listen == INSTANCE ListenStream WITH
    Calls <- {k1}, Asks <- (k1 :> {"subscribe", "unsubscribe"} \X {u1}),
    Policies <- {TRUE}, Streams <- 1..5, MaxSessions <- 2, MayFail <- TRUE

listenVars == <<conn, stream, turns, call, promised, sessions>>

SettlesInit == FollowersInit /\ Listen!Init
SettlesNext ==
    \/ FollowersNext /\ UNCHANGED listenVars
    \/ part = "listen" /\ Listen!Next /\ UNCHANGED <<part, followVars>>

ListenFairness ==
    /\ WF_listenVars(part = "listen" /\ Listen!TurnAdvances)
    /\ WF_listenVars(part = "listen" /\ Listen!DisconnectAdvances)
    /\ WF_listenVars(part = "listen" /\ Listen!TimerFires)

SettlesSpec ==
    /\ SettlesInit /\ [][SettlesNext]_<<part, listenVars, followVars>>
    /\ ListenFairness /\ FollowersFairness

-----------------------------------------------------------------------------
(* ListenStream: every subscribe and unsubscribe settles, whatever became   *)
(* of the turns queued before it, and so does a connect that has a stream   *)
(* to open.  TaskPolling: so does a wait for a task that is over, and one   *)
(* that is aborted, at once.                                                *)
CallsReturn ==
    /\ part = "listen" => Listen!CallsSettle /\ Listen!ConnectEnds
    /\ part = "task" => Polling!WaitEnds

(* ResourceFileSync: while the sync follows a connection that can come      *)
(* back, the file ends up at the last version of the resource, or a failure *)
(* has been told of.                                                        *)
(* ProjectedServer: the list of a downstream client ends up at the catalog  *)
(* of the connection.                                                       *)
CopiesFollow ==
    /\ part = "sync" => Sync!FileFollows
    /\ part = "front" => Front!ListFollows

(* ConfigWatch: the watch ends up at what the file holds, through edits,    *)
(* deletions, a replaced directory and a watcher that fails; onChange is    *)
(* called with a newer content every time.                                  *)
WatchFollows ==
    /\ part = "watch" => Watch!WatchFollows
    /\ NewerEveryTime
=============================================================================
