--------------------------- MODULE SessionUpkeep ---------------------------
(* What ConnectionManager keeps up around one legacy session besides its    *)
(* lifecycle (src/client/manager.ts): the keepalive probes, the window in   *)
(* which the errors of its client and transport are diagnosed, the          *)
(* subscriptions and the log level the snapshot claims.  The lifecycle is   *)
(* the abstraction of ConnectionLifecycle these four depend on.             *)
EXTENDS Naturals, FiniteSets

CONSTANTS
    Resources, Errors, Transports,
    Ops,          \* concurrent calls of the host
    Level,        \* what setLogLevel asks the server for
    None,
    Threshold,    \* keepalive.failureThreshold
    MaxAttempts   \* bound: connect attempts

ASSUME UpkeepAssumption ==
    /\ Threshold \in Nat \ {0} /\ MaxAttempts \in Nat
    /\ Level \notin Resources /\ None \notin Transports

VARIABLES
    phase,      \* entry.phase
    session,    \* entry.session, the number of its attempt, or 0
    leaving,    \* entry.disconnectTask is set
    made,       \* connect attempts so far
    keepalive,  \* whose KeepaliveState entry.keepalive is, or 0
    probe,      \* the KeepaliveState of every session
    scope,      \* entry.errorScope, the number of its attempt, or 0
    watch,      \* the scope the watch of a transport points at
    wired,      \* the transport the client of an attempt was given
    seen,       \* scope.seen
    published,  \* how often an error was published in a scope
    ended,      \* ghost: the last attempt that is over
    raised,     \* ghost: the errors raised by an attempt before it was over
    subs,       \* entry.subscribedUris
    level,      \* entry.logLevel is Level
    served,     \* what the server of a session has taken: URIs and Level
    unsure,     \* ghost: URIs of unsubscribe calls whose answer was lost
    op          \* [at, kind, what, session] of every call

lifeVars == <<phase, session, leaving, made>>
probeVars == <<keepalive, probe>>
errorVars == <<scope, watch, wired, seen, published, ended, raised>>
claimVars == <<subs, level, served, unsure, op>>
upkeepVars == <<lifeVars, probeVars, errorVars, claimVars>>

Attempts == 1 .. MaxAttempts
NoCall == [at |-> "idle", kind |-> "none", what |-> None, session |-> 0]
NoProbe == [timer |-> FALSE, flying |-> FALSE, failures |-> 0]

UpkeepTypeOK ==
    /\ phase \in {"offline", "connecting", "online", "draining", "quarantined", "failed"}
    /\ session \in 0 .. MaxAttempts /\ made \in 0 .. MaxAttempts
    /\ leaving \in BOOLEAN /\ level \in BOOLEAN
    /\ keepalive \in 0 .. MaxAttempts
    /\ probe \in [Attempts -> [timer : BOOLEAN, flying : BOOLEAN, failures : 0 .. Threshold]]
    /\ scope \in 0 .. MaxAttempts
    /\ watch \in [Transports -> 0 .. MaxAttempts]
    /\ wired \in [Attempts -> Transports \cup {None}]
    /\ seen \in [Attempts -> SUBSET Errors]
    /\ published \in [Attempts -> [Errors -> 0 .. 2]]
    /\ raised \in [Attempts -> SUBSET Errors]
    /\ ended \in 0 .. MaxAttempts /\ subs \subseteq Resources /\ unsure \subseteq Resources
    /\ served \in [Attempts -> SUBSET (Resources \cup {Level})]
    /\ op \in [Ops -> [at : {"idle", "asked", "taken", "kept", "dropped"},
                       kind : {"none", "subscribe", "unsubscribe", "level"},
                       what : Resources \cup {Level, None}, session : 0 .. MaxAttempts]]

UpkeepInit ==
    /\ phase = "offline" /\ session = 0 /\ leaving = FALSE /\ made = 0
    /\ keepalive = 0 /\ probe = [s \in Attempts |-> NoProbe]
    /\ scope = 0 /\ watch = [t \in Transports |-> 0] /\ wired = [s \in Attempts |-> None]
    /\ seen = [s \in Attempts |-> {}]
    /\ published = [s \in Attempts |-> [e \in Errors |-> 0]]
    /\ raised = [s \in Attempts |-> {}] /\ ended = 0
    /\ subs = {} /\ unsure = {} /\ level = FALSE /\ served = [s \in Attempts |-> {}]
    /\ op = [o \in Ops |-> NoCall]

Active == {o \in Ops : op[o].at \in {"asked", "taken"}}
Stopped(p) == IF keepalive = 0 THEN p ELSE [p EXCEPT ![keepalive].timer = FALSE]
(* #dropErrorScope.                                                         *)
Unpointed == [t \in Transports |-> IF watch[t] = scope THEN 0 ELSE watch[t]]
WindowCloses ==
    /\ scope' = 0 /\ watch' = Unpointed /\ ended' = made
    /\ UNCHANGED <<wired, seen, published, raised>>
-----------------------------------------------------------------------------
(* The lifecycle, as far as the upkeep depends on it.                       *)
ConnectStarts(t) ==
    /\ phase \in {"offline", "failed"} /\ ~leaving /\ Active = {} /\ made < MaxAttempts
    /\ made' = made + 1 /\ phase' = "connecting"
    /\ scope' = made + 1
    /\ watch' = [Unpointed EXCEPT ![t] = made + 1]
    /\ wired' = [wired EXCEPT ![made + 1] = t]
    /\ probe' = Stopped(probe)
    /\ UNCHANGED <<session, leaving, keepalive, seen, published, ended, raised, claimVars>>

Claims_Kept == subs
Claims == {}
Adopt ==
    /\ phase = "connecting"
    /\ session' = made /\ phase' = "online"
    /\ subs' = Claims /\ unsure' = {}
    /\ keepalive' = made
    /\ probe' = [probe EXCEPT ![made] = [NoProbe EXCEPT !.timer = TRUE]]
    /\ UNCHANGED <<leaving, made, errorVars, level, served, op>>

ConnectFails ==
    /\ phase = "connecting"
    /\ phase' = "failed" /\ WindowCloses
    /\ UNCHANGED <<session, leaving, made, probeVars, claimVars>>

(* #handleUnexpectedClose: what ends a session the host did not end.        *)
Lose == phase' = "failed" /\ session' = 0 /\ WindowCloses /\ UNCHANGED <<leaving, made, keepalive>>
Losable(s) == session = s /\ s # 0 /\ phase \notin {"draining", "offline"}
(* The close of a transport also rejects the requests in flight on it.      *)
TransportCloses ==
    /\ Losable(session) /\ Lose
    /\ probe' = Stopped(probe)
    /\ op' = [o \in Ops |-> IF o \in Active THEN NoCall ELSE op[o]]
    /\ UNCHANGED <<subs, level, served, unsure>>

DisconnectAsked ==
    /\ ~leaving /\ phase # "offline"
    /\ leaving' = TRUE
    /\ UNCHANGED <<phase, session, made, probeVars, errorVars, claimVars>>
Drain ==
    /\ leaving /\ phase \in {"online", "quarantined", "failed"}
    /\ phase = "failed" => Active # {}
    /\ phase' = "draining" /\ probe' = Stopped(probe)
    /\ UNCHANGED <<session, leaving, made, keepalive, errorVars, claimVars>>
CloseDone ==
    /\ leaving /\ phase \in {"draining", "failed"} /\ Active = {}
    /\ phase' = "offline" /\ session' = 0 /\ leaving' = FALSE /\ subs' = IF session = 0 THEN subs ELSE {}
    /\ WindowCloses /\ keepalive' = 0 /\ probe' = Stopped(probe)
    /\ UNCHANGED <<made, level, served, unsure, op>>
CloseFails ==
    /\ phase = "draining" /\ Active = {} /\ session # 0
    /\ phase' = "quarantined" /\ leaving' = FALSE /\ subs' = {}
    /\ WindowCloses /\ probe' = Stopped(probe)
    /\ UNCHANGED <<session, made, keepalive, level, served, unsure, op>>
-----------------------------------------------------------------------------
(* #startKeepalive: schedule and probe.                                     *)
Current(s) == session = s /\ keepalive = s
Probes(s) == Current(s) /\ phase = "online" /\ ~leaving
ProbeFires(s) ==
    /\ probe[s].timer
    /\ probe' = [probe EXCEPT ![s].timer = Probes(s) /\ probe[s].flying,
                              ![s].flying = @ \/ Probes(s)]
    /\ UNCHANGED <<lifeVars, keepalive, errorVars, claimVars>>

Again_AfterSuccess(s, answered) == answered /\ Current(s)
Again(s, answered) == Current(s)
ProbeAnswered(s) ==
    /\ probe[s].flying
    /\ probe' = [probe EXCEPT ![s] = [timer |-> Again(s, TRUE), flying |-> FALSE,
                                      failures |-> IF session = s THEN 0 ELSE @.failures]]
    /\ UNCHANGED <<lifeVars, keepalive, errorVars, claimVars>>

Struck(s) == probe[s].failures + 1 >= Threshold
ProbeFails(s) ==
    /\ probe[s].flying
    /\ IF ~Current(s)
       THEN probe' = [probe EXCEPT ![s].flying = FALSE] /\ UNCHANGED <<lifeVars, keepalive, errorVars>>
       ELSE IF ~Struck(s)
       THEN /\ probe' = [probe EXCEPT ![s] = [timer |-> Again(s, FALSE), flying |-> FALSE,
                                              failures |-> @.failures + 1]]
            /\ UNCHANGED <<lifeVars, keepalive, errorVars>>
       ELSE /\ probe' = [Stopped(probe) EXCEPT ![s].flying = FALSE, ![s].failures = Threshold]
            /\ IF Losable(s) THEN Lose ELSE UNCHANGED <<lifeVars, keepalive, errorVars>>
    /\ UNCHANGED claimVars
-----------------------------------------------------------------------------
(* #watchErrors and #reportError.  A transport that raises an error is      *)
(* heard through its own watch, and through that of the client wired to it; *)
(* a client raises protocol errors of its own.                              *)
Fresh_Always(e, heard) == TRUE
Fresh(e, heard) == e \notin seen[scope] /\ heard = 0
Hears(s) == scope = s /\ s # 0
Reports(e, hearings) ==
    IF hearings = 0 \/ scope = 0 THEN 0
    ELSE Cardinality({h \in 1 .. hearings : Fresh(e, h - 1)})
Open(s) == s = made /\ ended # s

Heard(e, hearings) ==
    IF scope = 0 \/ hearings = 0 THEN UNCHANGED <<seen, published>>
    ELSE /\ seen' = [seen EXCEPT ![scope] = @ \cup {e}]
         /\ published' = [published EXCEPT ![scope][e] = @ + Reports(e, hearings)]
Raise(e, s, hearings) ==
    /\ Heard(e, hearings)
    /\ raised' = IF Open(s) THEN [raised EXCEPT ![s] = @ \cup {e}] ELSE raised
    /\ UNCHANGED <<lifeVars, probeVars, scope, watch, wired, ended, claimVars>>

Count(holds) == IF holds THEN 1 ELSE 0
(* The attempts that were given transport t; the last of them has it.       *)
Users(t) == {s \in 1 .. made : wired[s] = t}
LastUser(t, s) == s \in Users(t) /\ \A other \in Users(t) : other <= s
TransportRaises(t, e) ==
    \E s \in Attempts :
        /\ LastUser(t, s)
        /\ Raise(e, s, Count(Hears(watch[t])) + Count(Hears(s)))
ClientRaises(s, e) == s <= made /\ Raise(e, s, Count(Hears(s)))
-----------------------------------------------------------------------------
(* subscribeResource, unsubscribeResource and setLogLevel on a legacy       *)
(* session, inside withClient.  Of the calls about one URI the host awaits  *)
(* one before it makes the next.                                            *)
KindsOf(what) == IF what = Level THEN {"level"} ELSE {"subscribe", "unsubscribe"}
Ask(o, what, kind) ==
    /\ op[o].at \notin {"asked", "taken"} /\ kind \in KindsOf(what)
    /\ phase = "online" /\ session # 0 /\ ~leaving
    /\ \A other \in Active : op[other].what # what
    /\ op' = [op EXCEPT ![o] = [at |-> "asked", kind |-> kind, what |-> what, session |-> session]]
    /\ UNCHANGED <<lifeVars, probeVars, errorVars, subs, level, served, unsure>>

ServerTakes(o) ==
    /\ op[o].at = "asked"
    /\ op' = [op EXCEPT ![o].at = "taken"]
    /\ served' = [served EXCEPT ![op[o].session] =
                    IF op[o].kind = "unsubscribe" THEN @ \ {op[o].what} ELSE @ \cup {op[o].what}]
    /\ UNCHANGED <<lifeVars, probeVars, errorVars, subs, level, unsure>>

Answered(o) ==
    /\ op[o].at = "taken"
    /\ op' = [op EXCEPT ![o].at = IF session = op[o].session THEN "kept" ELSE "dropped"]
    /\ subs' = IF session # op[o].session \/ op[o].kind = "level" THEN subs
               ELSE IF op[o].kind = "subscribe" THEN subs \cup {op[o].what} ELSE subs \ {op[o].what}
    /\ level' = (level \/ op[o].kind = "level")
    /\ UNCHANGED <<lifeVars, probeVars, errorVars, served, unsure>>

(* The call fails: the server refused it, or the answer did not arrive in   *)
(* time; a 404 also ends the session.                                       *)
Fails(o, expired) ==
    /\ o \in Active
    /\ op' = [op EXCEPT ![o] = NoCall]
    /\ IF expired /\ Losable(op[o].session)
       THEN Lose /\ probe' = Stopped(probe)
       ELSE UNCHANGED <<lifeVars, probeVars, errorVars>>
    /\ unsure' = IF op[o].kind = "unsubscribe" /\ op[o].at = "taken"
                 THEN unsure \cup {op[o].what} ELSE unsure
    /\ UNCHANGED <<subs, level, served>>

UpkeepNext ==
    \/ \E t \in Transports : ConnectStarts(t)
    \/ Adopt \/ ConnectFails \/ TransportCloses
    \/ DisconnectAsked \/ Drain \/ CloseDone \/ CloseFails
    \/ \E s \in Attempts : ProbeFires(s) \/ ProbeAnswered(s) \/ ProbeFails(s)
    \/ \E t \in Transports, e \in Errors : TransportRaises(t, e)
    \/ \E s \in Attempts, e \in Errors : ClientRaises(s, e)
    \/ \E o \in Ops, what \in Resources \cup {Level} :
          \E kind \in KindsOf(what) : Ask(o, what, kind)
    \/ \E o \in Ops : ServerTakes(o) \/ Answered(o)
    \/ \E o \in Ops, expired \in BOOLEAN : Fails(o, expired)

UpkeepSpec == UpkeepInit /\ [][UpkeepNext]_upkeepVars
-----------------------------------------------------------------------------
(* The chain of probes of a usable session never breaks: one is waiting for *)
(* its timer or for its answer, whatever happened to the ones before it and *)
(* to the sessions before this one.                                         *)
ChainUnbroken ==
    phase = "online" /\ ~leaving => probe[session].timer \/ probe[session].flying

(* An error is published exactly once in the attempt whose client or        *)
(* transport raised it, however many of them it passed through and although *)
(* a transport may be used again; after the attempt is over, never.         *)
ReportedOnce ==
    \A s \in Attempts, e \in Errors : published[s][e] = Count(e \in raised[s])

(* Both, typed.                                                             *)
ProbesGoOn == UpkeepTypeOK /\ ChainUnbroken /\ ReportedOnce

(* A URI the snapshot shows as subscribed on a usable connection is one the *)
(* server of this very session has taken and not given up, save those whose *)
(* unsubscribe call the server has taken and not answered, or whose answer  *)
(* was lost.                                                                *)
Unsubscribing == {op[o].what : o \in {x \in Ops : op[x].at = "taken" /\ op[x].kind = "unsubscribe"}}
SubscriptionsServed == phase = "online" => subs \ (unsure \cup Unsubscribing) \subseteq served[session]

(* README.md:412-415: a subscribe that lands while the session is being     *)
(* replaced rejects instead of pretending.  The legacy branch resolves.     *)
SubscribeNeverPretends ==
    \A o \in Ops : op[o].at = "dropped" => op[o].kind # "subscribe"

(* manager.ts:1680: a snapshot must not claim a level the server never took.*)
(* Violated: the level survives into the next session.                      *)
LevelTaken == phase = "online" /\ level => Level \in served[session]
=============================================================================
