------------------------ MODULE ConnectionLifecycle ------------------------
(***************************************************************************)
(* The connection lifecycle of McpConnectionManager (src/client/manager.ts)*)
(*                                                                         *)
(* The manager keeps one entry per registered connection.  An entry is     *)
(* driven by asynchronous tasks (connect, disconnect, remove, replace,     *)
(* completeAuthorization), by admitted operations, by the reconnect timer  *)
(* and by transports that close on their own.  JavaScript runs a handler   *)
(* without interruption up to its next `await`, so one action of this      *)
(* module is the code between two awaits.                                  *)
(*                                                                         *)
(* A continuation that a settled task releases is a microtask: those of    *)
(* one entry run in the order in which they were registered, and before    *)
(* the event loop takes another timer or I/O event (Quiet).  Calls of the  *)
(* host are made from macrotasks and from microtasks of its own, so they   *)
(* are never held back.                                                    *)
(*                                                                         *)
(* A client (official SDK client plus its transport) is named by the       *)
(* number of the connect attempt that made it; 0 stands for no client.     *)
(***************************************************************************)
EXTENDS Naturals, Sequences, FiniteSets

CONSTANTS
  Ids,            \* connection ids a definition can carry
  Entries,        \* registry entries that can ever be allocated
  Defs,           \* connection definitions, pairwise different by fingerprint
  Ops,            \* concurrent withClient calls
  Callers,        \* concurrent completeAuthorization calls
  None,           \* "no entry", "no id"
  Reconnecting,   \* the definitions with a `reconnect` policy
  ResetLater,     \* ... whose policy sets `resetAfterMs`
  Interactive,    \* the definitions with an interactive OAuth provider
  RepairsListen,  \* autoRefreshCatalog against a modern upstream
  MaxConnections, \* options.maxConnections
  MaxTries,       \* reconnect.maxAttempts
  MaxAttempts     \* bound: connect attempts after which hosts call no more

ASSUME ConstantsAssumption ==
  /\ None \notin Ids /\ None \notin Entries
  /\ Reconnecting \subseteq Defs /\ ResetLater \subseteq Reconnecting
  /\ Interactive \subseteq Defs /\ RepairsListen \subseteq Defs
  /\ MaxConnections \in Nat /\ MaxTries \in Nat /\ MaxAttempts \in Nat
  /\ Defs # {}

VARIABLES
  registry,  \* #entries: the entry registered under each id
  entry,     \* the ManagedConnection records
  op,        \* the withClient calls in flight
  auth,      \* the completeAuthorization calls in flight
  closed,    \* #closed
  seq,       \* #generationSequence
  attempts,  \* the connect attempts made so far
  live,      \* the clients that are open
  gone       \* the open clients an operation was told (HTTP 404) have no session

vars == <<registry, entry, op, auth, closed, seq, attempts, live, gone>>

Phases == {"authorizing", "connecting", "degraded", "draining",
           "failed", "offline", "online", "quarantined"}

(* What the await a task is suspended at waits for.                        *)
ConnectAt    == {"none", "drain", "open", "listen", "cleanup"}
DisconnectAt == {"none", "connect", "release", "cleanup",
                 "drain", "drainDead", "close"}
SwapAt       == {"none", "connect", "disconnect", "reconnect"}

(* The continuations a settled connect or disconnect task releases.        *)
Continuations == {"retry", "swap", "disconnect", "remove", "connect"}

(* Of an entry: what is registered and up (owner .. catalog), the connect  *)
(* task, the disconnect task, the remove and replace tasks, what has been  *)
(* released by a settled task, and the reconnect state.  `retrying` tells  *)
(* that the reconnect timer waits for the connect task.                    *)

(* The reconnect state of an entry: "none" before its first attempt; then  *)
(* the last success is absent ("tried"), recent, or older than             *)
(* `resetAfterMs` ("elapsed").                                             *)
Streaks == {"none", "tried", "recent", "elapsed"}

Entry == [ owner: Ids \cup {None}, def: Defs, phase: Phases, gen: Nat,
           session: Nat, sessDef: Defs \cup {None}, pending: Nat, cleanup: Nat,
           verdict: BOOLEAN, catalog: Nat,
           connect: ConnectAt, attempt: Nat, attemptDef: Defs \cup {None},
           onConnect: Seq(Continuations), retrying: BOOLEAN,
           disconnect: DisconnectAt, releasing: Nat,
           onDisconnect: Seq(Continuations), removing: BOOLEAN,
           swap: SwapAt, swapTo: Defs, swapLive: BOOLEAN,
           ready: Seq(Continuations),
           tries: 0..MaxTries, timer: BOOLEAN, streak: Streaks ]

Fresh(id, d) ==
  [ owner |-> id, def |-> d, phase |-> "offline", gen |-> 0,
    session |-> 0, sessDef |-> None, pending |-> 0, cleanup |-> 0,
    verdict |-> FALSE, catalog |-> 0,
    connect |-> "none", attempt |-> 0, attemptDef |-> None, onConnect |-> <<>>,
    retrying |-> FALSE, disconnect |-> "none", releasing |-> 0, onDisconnect |-> <<>>,
    removing |-> FALSE,
    swap |-> "none", swapTo |-> d, swapLive |-> FALSE,
    ready |-> <<>>, tries |-> 0, timer |-> FALSE, streak |-> "none" ]

(* An operation remembers the session and generation it was admitted on; a *)
(* refresh also whether the catalog revision is still the one it read.     *)
Operation == [ entry: Entries \cup {None}, session: Nat, gen: Nat,
               kind: {"call", "refresh"}, current: BOOLEAN ]
IdleOp == [entry |-> None, session |-> 0, gen |-> 0, kind |-> "call", current |-> TRUE]

(* A completeAuthorization call: what it awaits and the client it closes.  *)
AuthAt   == {"verify", "exchange", "completed", "failed"}
Round    == [entry: Entries, at: AuthAt, closing: Nat]
IdleAuth == [entry |-> None, at |-> "idle", closing |-> 0]

Registered(e) == \E id \in Ids : registry[id] = e
Busy(e)       == \E o \in Ops : op[o].entry = e
Quiet         == \A e \in Entries : entry[e].ready = <<>>
Room          == attempts < MaxAttempts
Usable(s)     == s.phase \in {"online", "degraded"}

Init ==
  /\ registry = [id \in Ids |-> None]
  /\ entry = [e \in Entries |-> Fresh(None, CHOOSE d \in Defs : TRUE)]
  /\ op = [o \in Ops |-> IdleOp]
  /\ auth = [k \in Callers |-> IdleAuth]
  /\ closed = FALSE
  /\ seq = 0 /\ attempts = 0
  /\ live = {} /\ gone = {}

----------------------------------------------------------------------------
(* An operator with a suffix is a variant of the one it precedes, with one *)
(* mistake the code could have made: the properties below refute each.     *)
Transition_KeepsCatalog(s, p) ==
  [s EXCEPT !.phase = p, !.timer = @ /\ p = "failed"]

Transition_KeepsTimer(s, p) ==
  [s EXCEPT !.phase = p,
            !.catalog = IF p \in {"online", "degraded"} THEN @ ELSE 0]

(* #transition, the chokepoint of every phase change: it drops the catalog *)
(* of a connection that is no longer usable and cancels the reconnect      *)
(* timer unless the connection has just failed.                            *)
Transition(s, p) ==
  LET keeps == p \in {"online", "degraded"}
  IN  [s EXCEPT !.phase = p,
                !.catalog = IF keeps THEN @ ELSE 0,
                !.timer = @ /\ p = "failed"]

(* The guards of #scheduleReconnect.                                       *)
MayReconnect(s) ==
  /\ s.def \in Reconnecting /\ ~closed
  /\ s.phase = "failed"
  /\ ~s.removing /\ s.disconnect = "none"
  /\ s.pending = 0 /\ s.cleanup = 0
  /\ ~s.timer

Rescheduled_OffByOne(s) ==
  IF ~MayReconnect(s) THEN s
  ELSE [s EXCEPT !.streak = IF @ = "none" THEN "tried" ELSE @,
                 !.tries = IF s.tries <= MaxTries THEN @ + 1 ELSE @,
                 !.timer = s.tries <= MaxTries]

(* #scheduleReconnect.  The counter is reset when the last success is older*)
(* than `resetAfterMs`, at every call.                                     *)
Rescheduled(s) ==
  LET resets  == s.def \in ResetLater /\ s.streak = "elapsed"
      spent   == IF resets THEN 0 ELSE s.tries
      started == IF s.streak = "none" THEN "tried" ELSE s.streak
  IN  IF ~MayReconnect(s) THEN s
      ELSE [s EXCEPT !.streak = started,
                     !.tries = IF spent < MaxTries THEN spent + 1 ELSE spent,
                     !.timer = spent < MaxTries]

NoSession(s) == [s EXCEPT !.session = 0, !.sessDef = None]

(* #handleUnexpectedClose: only the current session can fail the entry,    *)
(* and not while a disconnect is draining or after it.                     *)
Lost(s, client) ==
  IF s.session # client \/ s.phase \in {"draining", "offline"} THEN s
  ELSE Rescheduled(Transition(NoSession(s), "failed"))

ConnectSettled_KeepsTask(s, ok) ==
  [s EXCEPT !.connect = IF ok THEN "none" ELSE @,
            !.onConnect = <<>>, !.ready = @ \o s.onConnect]

ConnectSettled_WakesOnSuccess(s, ok) ==
  [s EXCEPT !.connect = "none", !.attempt = 0, !.attemptDef = None,
            !.onConnect = <<>>, !.retrying = FALSE,
            !.swap = IF @ = "reconnect" THEN "none" ELSE @,
            !.ready = IF ok THEN @ \o s.onConnect
                      ELSE IF s.retrying THEN Append(@, "retry") ELSE @]

ConnectSettled_NoRetry(s, ok) ==
  [s EXCEPT !.connect = "none", !.attempt = 0, !.attemptDef = None,
            !.onConnect = <<>>, !.retrying = FALSE,
            !.swap = IF @ = "reconnect" THEN "none" ELSE @,
            !.ready = @ \o s.onConnect]

(* A settled connect task releases the continuations registered on it; the *)
(* reconnect timer's is one promise hop shorter and reacts to a rejection. *)
ConnectSettled(s, ok) ==
  [s EXCEPT !.connect = "none", !.attempt = 0, !.attemptDef = None,
            !.onConnect = <<>>, !.retrying = FALSE,
            !.swap = IF @ = "reconnect" THEN "none" ELSE @,
            !.ready = IF s.retrying /\ ~ok THEN @ \o <<"retry">> \o s.onConnect
                      ELSE @ \o s.onConnect]

DisconnectSettled_ForgetsRejection(s, ok) ==
  [s EXCEPT !.disconnect = "none", !.onDisconnect = <<>>,
            !.ready = IF ok THEN @ \o s.onDisconnect ELSE @]

(* A resolved disconnect task releases the continuations registered on it; *)
(* a rejected one rejects the removal, the swap and the queued connect.    *)
DisconnectSettled(s, ok) ==
  [s EXCEPT !.disconnect = "none", !.onDisconnect = <<>>,
            !.ready = IF ok THEN @ \o s.onDisconnect ELSE @,
            !.removing = @ /\ ok,
            !.swap = IF ~ok /\ @ \in {"disconnect", "reconnect"} THEN "none" ELSE @]

WentOffline(s) == DisconnectSettled(Transition(s, "offline"), TRUE)

----------------------------------------------------------------------------
(* The synchronous part of connect(), once the manager is known to be open *)
(* and the id to be registered: `n` numbers the attempt it may begin.      *)
Attempting(s, n) ==
  Transition([s EXCEPT !.connect = "open", !.attempt = n, !.attemptDef = s.def],
             "connecting")

Connected_Twice(s, busy, n) ==
  IF s.phase \in {"quarantined", "authorizing"} \/ s.removing THEN s
  ELSE IF s.disconnect # "none" THEN [s EXCEPT !.onDisconnect = Append(@, "connect")]
  ELSE IF s.connect # "none" THEN s
  ELSE Attempting(s, n)

Connected_WhileRemoving(s, busy, n) ==
  IF s.phase \in {"quarantined", "authorizing"} THEN s
  ELSE IF s.disconnect # "none" THEN
    [s EXCEPT !.onDisconnect =
       IF \E i \in DOMAIN @ : @[i] = "connect" THEN @ ELSE Append(@, "connect")]
  ELSE IF s.connect # "none" \/ (Usable(s) /\ s.session # 0) THEN s
  ELSE Attempting(s, n)

Connected(s, busy, n) ==
  IF s.phase \in {"quarantined", "authorizing"} \/ s.removing THEN s
  ELSE IF s.disconnect # "none" THEN
    [s EXCEPT !.onDisconnect =
       IF \E i \in DOMAIN @ : @[i] = "connect" THEN @ ELSE Append(@, "connect")]
  ELSE IF s.connect # "none" \/ (Usable(s) /\ s.session # 0) THEN s
  ELSE IF busy THEN [s EXCEPT !.connect = "drain"]
  ELSE Attempting(s, n)

Lookup(id) == IF id \in Ids THEN registry[id] ELSE None

ConnectById_AfterClose(id, E) ==
  LET e == Lookup(id)
  IN  IF e = None THEN E
      ELSE [E EXCEPT ![e] = Connected(@, Busy(e), attempts + 1)]

(* connect(id) called by the code itself: E is the entries as the handler  *)
(* has already left them.                                                  *)
ConnectById(id, E) ==
  LET e == Lookup(id)
  IN  IF closed \/ e = None THEN E
      ELSE [E EXCEPT ![e] = Connected(@, Busy(e), attempts + 1)]

(* Installs the entries a handler leaves behind; an attempt it began opens *)
(* a client, and the clients in `dead` are closed.                         *)
Install(E, dead) ==
  LET began == \E e \in Entries : E[e].attempt = attempts + 1
  IN  /\ entry' = E
      /\ attempts' = IF began THEN attempts + 1 ELSE attempts
      /\ live' = (live \ dead) \cup (IF began THEN {attempts + 1} ELSE {})

(* An action that concerns no operation and no authorization round.        *)
Update(E, dead) ==
  /\ Install(E, dead) /\ gone' = gone \ dead
  /\ UNCHANGED <<registry, op, auth, closed, seq>>

(* The synchronous part of #performDisconnect after its first await.       *)
Draining(s, busy) ==
  CASE s.pending # 0 ->
         Transition([s EXCEPT !.disconnect = "release", !.releasing = s.pending,
                              !.pending = 0], "draining")
    [] s.pending = 0 /\ s.cleanup # 0 ->
         Transition([s EXCEPT !.disconnect = "cleanup"], "draining")
    [] s.pending = 0 /\ s.cleanup = 0 /\ s.session # 0 ->
         Transition([s EXCEPT !.disconnect = "drain"], "draining")
    [] s.pending = 0 /\ s.cleanup = 0 /\ s.session = 0 /\ busy ->
         Transition([s EXCEPT !.disconnect = "drainDead"], "draining")
    [] OTHER -> WentOffline(s)

(* disconnect(id): joins the task in flight, or starts one.                *)
Disconnecting(s, busy) ==
  IF s.disconnect # "none" THEN s
  ELSE IF s.connect # "none"
    THEN [s EXCEPT !.disconnect = "connect", !.onConnect = Append(@, "disconnect")]
    ELSE Draining(s, busy)

DisconnectById(id, E) ==
  [E EXCEPT ![registry[id]] = Disconnecting(@, Busy(registry[id]))]

----------------------------------------------------------------------------
(* register(definition): a fresh entry, offline, under a free id.          *)
Register(id, d) ==
  /\ ~closed
  /\ registry[id] = None
  /\ Cardinality({i \in Ids : registry[i] # None}) < MaxConnections
  /\ \E e \in Entries :
       /\ entry[e].owner = None
       /\ registry' = [registry EXCEPT ![id] = e]
       /\ entry' = [entry EXCEPT ![e] = Fresh(id, d)]
  /\ UNCHANGED <<op, auth, closed, seq, attempts, live, gone>>

(* connect(id), the host's call.                                           *)
Connect(id) ==
  /\ Room /\ ~closed /\ registry[id] # None
  /\ Update(ConnectById(id, entry), {})

(* #performConnect waited for the operations of a lost session to return.  *)
ConnectDrained(e) ==
  /\ entry[e].connect = "drain" /\ ~Busy(e)
  /\ Update([entry EXCEPT ![e] = Attempting(@, attempts + 1)], {})

(* An open attempt: openTransport or client.connect answers.               *)
Opening(e) == Quiet /\ entry[e].connect = "open"

(* openTransport rejected: there is nothing to clean up.                   *)
OpenFails(e) ==
  /\ Opening(e)
  /\ Update([entry EXCEPT ![e] = ConnectSettled(Transition(@, "failed"), FALSE)],
             {entry[e].attempt})

(* client.connect rejected: the client is closed, within a bound.          *)
ConnectRejected(e) ==
  /\ Opening(e)
  /\ Update([entry EXCEPT ![e].connect = "cleanup"], {})

ConnectCleaned(e) ==
  /\ Quiet /\ entry[e].connect = "cleanup"
  /\ Update([entry EXCEPT ![e] = ConnectSettled(Transition(@, "failed"), FALSE)],
             {entry[e].attempt})

ConnectCleanupFails(e) ==
  /\ Quiet /\ entry[e].connect = "cleanup"
  /\ Update([entry EXCEPT ![e] =
               ConnectSettled(Transition([@ EXCEPT !.cleanup = entry[e].attempt],
                                         "quarantined"), FALSE)], {})

(* The server wants the user: the client is parked for finishAuth.         *)
ConnectUnauthorized(e) ==
  /\ Opening(e) /\ entry[e].attemptDef \in Interactive
  /\ Update([entry EXCEPT ![e] =
               ConnectSettled(Transition([@ EXCEPT !.pending = entry[e].attempt],
                                         "authorizing"), FALSE)], {})

Adopted_OwnCounter(s, g) ==
  [s EXCEPT !.session = s.attempt, !.sessDef = s.attemptDef, !.gen = @ + 1,
            !.catalog = 0]

(* The session an attempt installs on its entry, under a new generation.   *)
Adopted(s, g) ==
  [s EXCEPT !.session = s.attempt, !.sessDef = s.attemptDef, !.gen = g,
            !.catalog = 0,
            !.tries = IF s.streak # "none" /\ s.attemptDef \notin ResetLater
                        THEN 0 ELSE @,
            !.streak = IF @ = "none" THEN @ ELSE "recent",
            !.verdict = s.attemptDef \in RepairsListen]

Online(s) == ConnectSettled(Transition(s, "online"), TRUE)

(* client.connect resolved.  A client that skipped the probe, its era being*)
(* known from before, has no listen stream yet: #repairListen opens one.   *)
ConnectSucceeds(e) ==
  /\ Opening(e)
  /\ seq' = seq + 1
  /\ LET s == Adopted(entry[e], seq + 1)
         repairs == entry[e].verdict /\ entry[e].attemptDef \in RepairsListen
     IN  Install([entry EXCEPT ![e] =
                   IF repairs THEN [s EXCEPT !.connect = "listen"] ELSE Online(s)], {})
  /\ UNCHANGED <<registry, op, auth, closed, gone>>

(* #repairListen returned, whatever became of the session meanwhile.       *)
ListenRepaired(e) ==
  /\ Quiet /\ entry[e].connect = "listen"
  /\ Update([entry EXCEPT ![e] = Online(@)], {})

----------------------------------------------------------------------------
(* disconnect(id), the host's call.                                        *)
Disconnect(id) ==
  /\ registry[id] # None
  /\ Update(DisconnectById(id, entry), {})

(* The parked client of an authorization round is closed.                  *)
ReleaseDone(e) ==
  /\ Quiet /\ entry[e].disconnect = "release"
  /\ Update([entry EXCEPT ![e] = WentOffline([@ EXCEPT !.releasing = 0])],
             {entry[e].releasing})

(* The cleanup of a quarantined connection is tried again.                 *)
QuarantineCleaned(e) ==
  /\ Quiet /\ entry[e].disconnect = "cleanup"
  /\ Update([entry EXCEPT ![e] = WentOffline([@ EXCEPT !.cleanup = 0])],
             {entry[e].cleanup})

(* A cleanup or a close that throws, or does not end within its bound,     *)
(* leaves the connection quarantined and holding the client.               *)
CloseFails(e) ==
  /\ Quiet /\ entry[e].disconnect \in {"cleanup", "close"}
  /\ Update([entry EXCEPT ![e] =
               DisconnectSettled(Transition(@, "quarantined"), FALSE)], {})

DrainedOf_Skipped(e) == TRUE

(* The admitted operations have returned.                                  *)
DrainedOf(e) == ~Busy(e)

Drained(e) ==
  /\ entry[e].disconnect = "drain" /\ DrainedOf(e)
  /\ Update([entry EXCEPT ![e].disconnect = "close"], {})

DrainedDead(e) ==
  /\ entry[e].disconnect = "drainDead" /\ DrainedOf(e)
  /\ Update([entry EXCEPT ![e] = WentOffline(@)], {})

CloseDone(e) ==
  /\ Quiet /\ entry[e].disconnect = "close"
  /\ Update([entry EXCEPT ![e] = WentOffline(NoSession(@))],
             {entry[e].session})

(* remove(id): a disconnect, then the deletion of the entry.               *)
Remove(id) ==
  LET e == registry[id]
  IN  /\ ~closed /\ e # None /\ ~entry[e].removing
      /\ LET s == Disconnecting(entry[e], Busy(e))
             r == [s EXCEPT !.removing = TRUE]
         IN  Update([entry EXCEPT ![e] =
               IF s.disconnect = "none"
                 THEN [r EXCEPT !.ready = Append(@, "remove")]
                 ELSE [r EXCEPT !.onDisconnect = Append(@, "remove")]], {})

----------------------------------------------------------------------------
(* replace(definition, {cancelAuthorization}): performReplace up to its    *)
(* first await, and again after each of them.  A second replace waits for  *)
(* the one in flight before it looks at the entry: it is a later call.     *)
Awaiting(s) ==
  s.connect # "none" \/ \E i \in DOMAIN s.onDisconnect : s.onDisconnect[i] = "connect"

ReconnectSettles(s) ==
  [s EXCEPT !.swap = IF @ = "reconnect" /\ ~Awaiting(s) THEN "none" ELSE @]

(* The definition is swapped and everything derived from the old one goes. *)
Swapped(s) ==
  LET t == [s EXCEPT !.def = s.swapTo, !.verdict = FALSE, !.tries = 0,
                     !.timer = FALSE, !.streak = "none",
                     !.swap = IF s.swapLive THEN "reconnect" ELSE "none",
                     !.swapLive = FALSE]
  IN  IF s.phase = "failed" THEN Transition(t, "offline") ELSE t

SwapFinishes(e, E) ==
  LET id == E[e].owner
      swapped == [E EXCEPT ![e] = Swapped(@)]
  IN  IF Lookup(id) # e THEN [E EXCEPT ![e].swap = "none"]
      ELSE IF ~E[e].swapLive THEN swapped
      ELSE [ConnectById(id, swapped) EXCEPT ![e] = ReconnectSettles(@)]

(* No connect is in flight any more: a connection that is up or half-way   *)
(* is disconnected before the swap.                                        *)
SwapProceeds(e, E) ==
  LET s == [E[e] EXCEPT !.swapLive = Usable(E[e])]
      d == [Disconnecting(s, Busy(e)) EXCEPT !.swap = "disconnect"]
  IN  IF s.phase \in {"offline", "failed"}
        THEN SwapFinishes(e, [E EXCEPT ![e] = s])
      ELSE IF d.disconnect = "none"
        THEN [E EXCEPT ![e] = [d EXCEPT !.ready = Append(@, "swap")]]
      ELSE [E EXCEPT ![e] = [d EXCEPT !.onDisconnect = Append(@, "swap")]]

Replace(id, d, cancel) ==
  LET e == registry[id]
      s == [entry[e] EXCEPT !.swapTo = d]
      E == [entry EXCEPT ![e] = s]
  IN  /\ Room /\ ~closed /\ e # None
      /\ s.swap = "none" /\ s.def # d
      /\ s.phase # "quarantined" /\ ~s.removing
      /\ s.phase = "authorizing" => cancel
      /\ Update(IF s.connect = "none" THEN SwapProceeds(e, E)
                 ELSE [E EXCEPT ![e].swap = "connect",
                                ![e].onConnect = Append(@, "swap")], {})

----------------------------------------------------------------------------
(* The continuations of the settled tasks of an entry, in order.           *)
Awaken(e, c) ==
  /\ entry[e].ready # <<>> /\ Head(entry[e].ready) = c
Rest(e) == [entry EXCEPT ![e].ready = Tail(@)]

(* The reconnect timer's connect was rejected.                             *)
RetryAfterFailure(e) ==
  /\ Awaken(e, "retry")
  /\ Update([Rest(e) EXCEPT ![e] = Rescheduled(@)], {})

(* #performDisconnect has waited for the connect in flight.                *)
DisconnectAfterConnect(e) ==
  /\ Awaken(e, "disconnect")
  /\ Update([Rest(e) EXCEPT ![e] = Draining(@, Busy(e))], {})

(* #performReplace has waited for a connect, or for its own disconnect.    *)
SwapContinues(e) ==
  /\ Awaken(e, "swap")
  /\ Update(IF entry[e].swap = "connect" THEN SwapProceeds(e, Rest(e))
             ELSE SwapFinishes(e, Rest(e)), {})

(* #performRemove has waited for its disconnect.                           *)
RemoveAfterDisconnect(e) ==
  LET id == entry[e].owner
  IN  /\ Awaken(e, "remove")
      /\ registry' = IF Lookup(id) = e THEN [registry EXCEPT ![id] = None] ELSE registry
      /\ Install([Rest(e) EXCEPT ![e].removing = FALSE], {})
      /\ UNCHANGED <<op, auth, closed, seq, gone>>

(* A connect that was called during a disconnect.                          *)
QueuedConnect(e) ==
  /\ Awaken(e, "connect")
  /\ Update([ConnectById(entry[e].owner, Rest(e)) EXCEPT ![e] = ReconnectSettles(@)], {})

Continue(e) ==
  \/ RetryAfterFailure(e) \/ DisconnectAfterConnect(e) \/ SwapContinues(e)
  \/ RemoveAfterDisconnect(e) \/ QueuedConnect(e)

----------------------------------------------------------------------------
(* The reconnect timer fires: connect() again, and again after a failure.  *)
TimerConnects(s) ==
  ~closed /\ s.phase = "failed" /\ ~s.removing /\ s.disconnect = "none"

WithRetry(s) == [s EXCEPT !.retrying = (s.connect # "none")]

ReconnectFires(e) ==
  LET E == [entry EXCEPT ![e].timer = FALSE]
  IN  /\ Quiet /\ Room /\ entry[e].timer
      /\ Update(IF TimerConnects(E[e])
                   THEN [ConnectById(E[e].owner, E) EXCEPT ![e] = WithRetry(@)]
                   ELSE E, {})

(* The transport of a session closes on its own, or its keepalive gives up.*)
SessionLost(e) ==
  LET c == entry[e].session
  IN  /\ Quiet /\ Room /\ c \in live
      /\ Update([entry EXCEPT ![e] = Lost(@, c)], {c})

(* `resetAfterMs` have gone by since the last successful connect.          *)
TimePasses(e) ==
  /\ entry[e].def \in ResetLater /\ entry[e].streak = "recent"
  /\ Update([entry EXCEPT ![e].streak = "elapsed"], {})

----------------------------------------------------------------------------
Admits_AnySession(s) == s.session # 0 /\ s.disconnect = "none"

(* withClient: admission.  A "refresh" is the operation of refreshCatalog. *)
Admits(s) == Usable(s) /\ s.session # 0 /\ s.disconnect = "none"

OpStart(o, id, kind) ==
  LET e == registry[id]
  IN  /\ op[o] = IdleOp
      /\ ~closed /\ e # None
      /\ Admits(entry[e])
      /\ op' = [op EXCEPT ![o] = [entry |-> e, session |-> entry[e].session,
                                  gen |-> entry[e].gen, kind |-> kind, current |-> TRUE]]
      /\ UNCHANGED <<registry, entry, auth, closed, seq, attempts, live, gone>>

Running(o) == Quiet /\ op[o].entry # None

(* An operation returns, fails or is aborted; a refresh that lost its      *)
(* authority over the connection is refused here.                          *)
OpReturns(o) ==
  /\ Running(o)
  /\ op' = [op EXCEPT ![o] = IdleOp]
  /\ UNCHANGED <<registry, entry, auth, closed, seq, attempts, live, gone>>

Authority_Unfenced(o) == op[o].current /\ entry[op[o].entry].disconnect = "none"

(* #assertRefreshAuthority, and the same test in #performRefresh's catch.  *)
Authority(o) ==
  LET s == entry[op[o].entry]
  IN  /\ s.session = op[o].session /\ s.gen = op[o].gen
      /\ Usable(s) /\ s.disconnect = "none"
      /\ op[o].current

(* A committed catalog advances the revision: every other refresh that is  *)
(* under way read an older one.                                            *)
Committed(o) ==
  [q \in Ops |-> IF q = o THEN IdleOp
                 ELSE IF op[q].entry = op[o].entry THEN [op[q] EXCEPT !.current = FALSE]
                 ELSE op[q]]

Commit(o, p) ==
  /\ op' = Committed(o)
  /\ Install([entry EXCEPT ![op[o].entry] =
               Transition([@ EXCEPT !.catalog = op[o].gen], p)], {})

OpRefreshCommits(o) ==
  /\ Running(o) /\ op[o].kind = "refresh" /\ Authority(o)
  /\ \E p \in {"online", "degraded"} : Commit(o, p)
  /\ UNCHANGED <<registry, auth, closed, seq, gone>>

(* The catalog exceeds a bound.                                            *)
OpRefreshFails(o) ==
  /\ Running(o) /\ op[o].kind = "refresh" /\ Authority(o)
  /\ op' = [op EXCEPT ![o] = IdleOp]
  /\ Install([entry EXCEPT ![op[o].entry] = Transition(@, "degraded")], {})
  /\ UNCHANGED <<registry, auth, closed, seq, gone>>

(* The server answers 404, the session is gone.  #inspectOperationFailure  *)
(* fails the connection and closes the client when it still is its session.*)
OpExpires(o) ==
  LET e == op[o].entry
      c == op[o].session
      s == Lost(entry[e], c)
      dead == IF s = entry[e] THEN {} ELSE {c}
  IN  /\ Running(o) /\ Room /\ op[o].kind = "call"
      /\ gone' = (gone \cup {c}) \cap (live \ dead)
      /\ op' = [op EXCEPT ![o] = IdleOp]
      /\ Install([entry EXCEPT ![e] = s], dead)
      /\ UNCHANGED <<registry, auth, closed, seq>>

(* The same answer to a list request of a refresh: discoverSection turns it*)
(* into a failed or stale section of a catalog that is committed.          *)
RefreshExpires(o) ==
  /\ Running(o) /\ Room /\ op[o].kind = "refresh" /\ Authority(o)
  /\ gone' = gone \cup {op[o].session}
  /\ Commit(o, "degraded")
  /\ UNCHANGED <<registry, auth, closed, seq>>

----------------------------------------------------------------------------
(* completeAuthorization(id, callback) of a parked connection.  A callback *)
(* that carries an error ends the round at once.                           *)
Releasing(k, round) ==
  LET e == round.entry
  IN  /\ auth' = [auth EXCEPT ![k] = [round EXCEPT !.closing = entry[e].pending]]
      /\ Install([entry EXCEPT ![e].pending = 0], {})

CompleteAuth(k, id) ==
  LET e == registry[id]
      round == [entry |-> e, at |-> "verify", closing |-> 0]
  IN  /\ Room /\ ~closed /\ e # None /\ auth[k] = IdleAuth
      /\ entry[e].pending # 0 /\ entry[e].phase = "authorizing"
      /\ \/ Releasing(k, [round EXCEPT !.at = "failed"])
         \/ /\ auth' = [auth EXCEPT ![k] = round]
            /\ UNCHANGED <<entry, attempts, live>>
      /\ UNCHANGED <<registry, op, closed, seq, gone>>

(* The state of the callback is verified; a mismatch leaves all as it was. *)
AuthVerified(k) ==
  /\ Quiet /\ auth[k].at = "verify"
  /\ \E r \in {IdleAuth, [auth[k] EXCEPT !.at = "exchange"]} :
       auth' = [auth EXCEPT ![k] = r]
  /\ UNCHANGED <<registry, entry, op, closed, seq, attempts, live, gone>>

(* finishAuth answers; whatever is parked on the entry by now is released. *)
AuthExchanged(k) ==
  /\ Quiet /\ auth[k].at = "exchange"
  /\ \E at \in {"completed", "failed"} : Releasing(k, [auth[k] EXCEPT !.at = at])
  /\ UNCHANGED <<registry, op, closed, seq, gone>>

AuthOutcome_StaysParked(s, at) == IF at = "failed" THEN s ELSE Transition(s, "offline")

(* The released client is closed: fail, or go offline and connect again.   *)
AuthOutcome(s, at) == Transition(s, IF at = "failed" THEN "failed" ELSE "offline")

AuthSettles(k) ==
  LET e == auth[k].entry
      E == [entry EXCEPT ![e] = AuthOutcome(@, auth[k].at)]
  IN  /\ Quiet /\ auth[k].at \in {"completed", "failed"}
      /\ Install(IF auth[k].at = "failed" THEN E ELSE ConnectById(E[e].owner, E),
                 {auth[k].closing})
      /\ auth' = [auth EXCEPT ![k] = IdleAuth]
      /\ UNCHANGED <<registry, op, closed, seq, gone>>

(* close(): every registered connection is disconnected.                   *)
Close ==
  /\ ~closed /\ closed' = TRUE
  /\ Install([e \in Entries |-> IF Registered(e) THEN Disconnecting(entry[e], Busy(e))
                                ELSE entry[e]], {})
  /\ UNCHANGED <<registry, op, auth, seq, gone>>

----------------------------------------------------------------------------
HostCall ==
  \/ \E id \in Ids :
       \/ \E d \in Defs : Register(id, d)
       \/ Connect(id) \/ Disconnect(id) \/ Remove(id)
       \/ \E d \in Defs, cancel \in BOOLEAN : Replace(id, d, cancel)
       \/ \E o \in Ops, kind \in {"call", "refresh"} : OpStart(o, id, kind)
       \/ \E k \in Callers : CompleteAuth(k, id)
  \/ Close

(* What a connect, a disconnect, a timer or an operation waits for.        *)
Connecting(e) ==
  \/ ConnectDrained(e) \/ OpenFails(e) \/ ConnectRejected(e)
  \/ ConnectUnauthorized(e) \/ ConnectSucceeds(e) \/ ListenRepaired(e)
  \/ ConnectCleaned(e) \/ ConnectCleanupFails(e)

Closing(e) ==
  \/ ReleaseDone(e) \/ QuarantineCleaned(e) \/ CloseFails(e)
  \/ Drained(e) \/ DrainedDead(e) \/ CloseDone(e)

OpEnds(o) ==
  \/ OpReturns(o) \/ OpRefreshCommits(o) \/ OpRefreshFails(o)
  \/ OpExpires(o) \/ RefreshExpires(o)

AuthAdvances(k) ==
  AuthVerified(k) \/ AuthExchanged(k) \/ AuthSettles(k)

Next ==
  \/ HostCall
  \/ \E e \in Entries :
       Continue(e) \/ Connecting(e) \/ Closing(e) \/ ReconnectFires(e)
         \/ SessionLost(e) \/ TimePasses(e)
  \/ \E o \in Ops : OpEnds(o)
  \/ \E k \in Callers : AuthAdvances(k)

Spec == Init /\ [][Next]_vars

(* The runtime keeps running what it has queued, every request and close   *)
(* has an answer or a deadline, timers fire and operations come to an end. *)
(* Nothing is assumed of the host, nor of a transport that fails.          *)
Fairness ==
  /\ \A e \in Entries :
       /\ WF_vars(Continue(e)) /\ WF_vars(Connecting(e))
       /\ WF_vars(Closing(e)) /\ WF_vars(ReconnectFires(e))
  /\ \A o \in Ops : WF_vars(OpEnds(o))
  /\ \A k \in Callers : WF_vars(AuthAdvances(k))

FairSpec == Spec /\ Fairness

----------------------------------------------------------------------------
TypeOK ==
  /\ registry \in [Ids -> Entries \cup {None}]
  /\ entry \in [Entries -> Entry]
  /\ op \in [Ops -> Operation]
  /\ auth \in [Callers -> Round \cup {IdleAuth}]
  /\ closed \in BOOLEAN
  /\ seq \in Nat /\ attempts \in Nat
  /\ live \subseteq Nat /\ gone \subseteq Nat

(* A deliberate close never takes the client away from an operation that   *)
(* was admitted on it: #performDisconnect waits for activeOperations to be *)
(* zero, and admits none meanwhile.                                        *)
DrainBeforeClose ==
  \A e \in Entries, o \in Ops : entry[e].disconnect = "close" => op[o].entry # e

(* A published catalog is the one of the generation that is up: no late    *)
(* refresh restamps it and no way down leaves it behind.                   *)
CatalogBelongs ==
  \A e \in Entries :
    entry[e].catalog # 0 => Usable(entry[e]) /\ entry[e].catalog = entry[e].gen

(* Two entries never share a generation, not even when an id is removed    *)
(* and registered again.                                                   *)
GenerationsUnique ==
  \A e, f \in Entries : entry[e].gen # 0 /\ entry[e].gen = entry[f].gen => e = f

(* A connection that takes operations holds an open client.                *)
UsableHoldsClient ==
  \A e \in Entries : Usable(entry[e]) => entry[e].session \in live

(* The clients an entry answers for.                                       *)
Held(s) ==
  {s.session, s.pending, s.cleanup, s.releasing}
    \cup (IF s.connect \in {"open", "listen", "cleanup"} THEN {s.attempt} ELSE {})

(* No client leaks: each open one is held by a registered entry, through   *)
(* every failure, removal, swap and reconnect.                             *)
NoOrphanClient ==
  live \subseteq UNION {Held(entry[e]) : e \in {f \in Entries : Registered(f)}}
                 \cup {auth[k].closing : k \in Callers}

(* An entry that left the registry is at rest for ever: no session, no     *)
(* attempt, no timer, whatever was queued behind the disconnect.           *)
RemovedIsDead ==
  \A e \in Entries :
    entry[e].owner # None /\ ~Registered(e) =>
      /\ entry[e].phase \in {"offline", "failed"} /\ entry[e].session = 0
      /\ entry[e].connect = "none" /\ ~entry[e].timer

(* An automatic reconnect waits only for a connection that failed and that *)
(* nobody has asked to take down or to remove.                             *)
TimerOnlyAfterFailure ==
  \A e \in Entries :
    entry[e].timer =>
      /\ entry[e].phase = "failed" /\ entry[e].session = 0
      /\ entry[e].disconnect \in {"none", "connect"}

(* Every client there is is held by exactly one thing that can close it: a *)
(* usable entry has one, and none is left open that no live entry holds.   *)
ClientsAccounted == UsableHoldsClient /\ NoOrphanClient

(* An entry that was removed stays dead and waits for nothing, a reconnect *)
(* timer is armed only after a failure, and a generation is never reused.  *)
EntriesSound == RemovedIsDead /\ TimerOnlyAfterFailure /\ GenerationsUnique

(* A connection is never parked for ever: while it is `authorizing` there  *)
(* is an open client to finish the round on, or a completion that moves it.*)
ParkedCanComplete ==
  \A e \in Entries :
    entry[e].phase = "authorizing" =>
      \/ entry[e].pending \in live
      \/ \E k \in Callers : auth[k].entry = e /\ auth[k].at \in {"completed", "failed"}

(* The manager keeps what GenerationService promises.                      *)
SessionState(s) ==
  CASE s.session = 0 -> "none"
    [] s.session # 0 /\ s.phase = "draining" -> "draining"
    [] s.session # 0 /\ s.phase = "quarantined" -> "stuck"
    [] OTHER -> "up"

Service == INSTANCE GenerationService WITH
  state <- [e \in Entries |-> SessionState(entry[e])],
  gen   <- [e \in Entries |-> entry[e].gen],
  user  <- [o \in Ops |-> op[o].gen],
  last  <- seq

ImplementsService == Service!Spec

(* Every connect task settles: no wait for operations, for the server, for *)
(* a cleanup or for a listen stream is left without an answer.             *)
ConnectSettles ==
  \A e \in Entries : entry[e].connect # "none" ~> entry[e].connect = "none"

(* Every disconnect settles, whether it waits for a connect, for admitted  *)
(* operations or for a close.                                              *)
DisconnectSettles ==
  \A e \in Entries : entry[e].disconnect # "none" ~> entry[e].disconnect = "none"

(* A replace and a remove come to an end, also when the disconnect they    *)
(* wait for fails.                                                         *)
SwapAndRemovalSettle ==
  \A e \in Entries :
    /\ entry[e].swap # "none" ~> entry[e].swap = "none"
    /\ entry[e].removing ~> ~entry[e].removing

(* An automatic reconnect that fails is tried again, until it succeeds, the*)
(* policy is exhausted, or somebody takes the connection over.             *)
Exhausted(s) == s.phase = "failed" /\ s.tries = MaxTries
TakenOver(s, n) ==
  s.attempt > n \/ s.phase \notin {"connecting", "failed"} \/ s.disconnect # "none"

RetryContinues ==
  \A e \in Entries, n \in 1..MaxAttempts :
    entry[e].retrying /\ entry[e].attempt = n
      ~> \/ Usable(entry[e]) \/ entry[e].timer
         \/ Exhausted(entry[e]) \/ TakenOver(entry[e], n) \/ closed

(* After close() everything comes to rest: no attempt, no timer, and no    *)
(* open client but those whose close has failed and may be tried again.    *)
AtRest ==
  /\ \A e \in Entries : entry[e].connect = "none" /\ ~entry[e].timer
  /\ \A c \in live : \E e \in Entries :
       entry[e].phase \in {"quarantined", "draining"} /\ c \in {entry[e].session, entry[e].cleanup}

CloseStops == closed ~> []AtRest

----------------------------------------------------------------------------
(* Statements of the documentation that the code does not keep.            *)

(* ARCHITECTURE.md, 9: a reconnect "triggers only on an unexpected close of*)
(* an online connection".                                                  *)
ReconnectOnlyFromOnline ==
  [][\A e \in Entries :
       LET s == entry[e]  t == entry'[e]
       IN  ~s.timer /\ t.timer /\ s.session # 0 /\ t.session = 0 => Usable(s)]_vars

(* replace(): a connection is up on the server of its definition, once no  *)
(* swap is under way.                                                      *)
SessionMatchesDefinition ==
  \A e \in Entries :
    Usable(entry[e]) /\ entry[e].swap = "none" /\ entry[e].session # 0 =>
      entry[e].sessDef = entry[e].def

(* README.md: a request that fails with HTTP 404 on a transport with a     *)
(* session ends the generation.                                            *)
ExpiryEndsGeneration ==
  \A e \in Entries : Usable(entry[e]) => entry[e].session \notin gone
=============================================================================
