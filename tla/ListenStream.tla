----------------------------- MODULE ListenStream -----------------------------
(***************************************************************************)
(* The subscriptions/listen stream of a connection to a modern upstream    *)
(* (src/client/manager.ts).  The manager owns at most one stream: it opens *)
(* it when a connect has adopted a known era, re-opens it whenever the set *)
(* of subscribed URIs changes, and again after the server has dropped it.  *)
(* The turns that do so (#relisten) run one at a time, in order of arrival.*)
(*                                                                         *)
(* One action is the code between two awaits.  A turn that has its result  *)
(* at once settles before the next timer or I/O event (Quiet).  A close()  *)
(* of a stream takes effect when it is called; what is awaited is only its *)
(* confirmation.  The connection itself is ConnectionLifecycle's subject:  *)
(* here it is up, lost or taken down, and the backoff has no length.       *)
(***************************************************************************)
EXTENDS Naturals, Sequences, FiniteSets

CONSTANTS
  Calls,        \* concurrent subscribeResource and unsubscribeResource calls
  Asks,         \* what each of them may ask: pairs of a kind and a URI
  Policies,     \* whether a definition refreshes its catalog and the upstream tells
  Streams,      \* names of streams, a nonempty set of positive numbers
  MaxSessions,  \* bound: sessions after which no connect is made
  MayFail       \* a request to open a stream may fail

Kinds == {"subscribe", "unsubscribe"}
Uris  == {a[2] : a \in UNION {Asks[k] : k \in Calls}}

ASSUME ConstantsAssumption ==
  /\ {"connect", "retry"} \cap Calls = {}
  /\ DOMAIN Asks = Calls /\ \A k \in Calls : Asks[k] \subseteq Kinds \X Uris
  /\ Policies \subseteq BOOLEAN /\ MayFail \in BOOLEAN
  /\ Streams \subseteq Nat \ {0} /\ Streams # {}
  /\ MaxSessions \in Nat

VARIABLES
  conn,      \* the entry: session, phase, disconnect task, URIs, streams, watch
  stream,    \* every stream: whether it is open, of which session, for which URIs
  turns,     \* the #relisten chain, the running turn first
  call,      \* the calls in flight
  promised,  \* the URIs whose subscription has been confirmed in this session
  sessions   \* the sessions so far

vars == <<conn, stream, turns, call, promised, sessions>>

Phases == {"offline", "connecting", "online", "draining", "quarantined", "failed"}

(* ListenWatchState; session 0 stands for no state.                        *)
Watch   == [session: Nat, sub: Streams \cup {0}, timer: BOOLEAN, reopening: BOOLEAN]
NoWatch == [session |-> 0, sub |-> 0, timer |-> FALSE, reopening |-> FALSE]

Conn == [session: Nat, phase: Phases, refreshes: BOOLEAN,
         disconnect: {"none", "connect", "drain", "stream", "client"},
         uris: SUBSET Uris, listen: Streams \cup {0}, auto: Streams \cup {0},
         watch: Watch]

(* A turn: who awaits it, on which session, what it waits for ("failed",   *)
(* "skipped" and "applied" are results), the stream it replaces, and the   *)
(* URIs of its filter.                                                     *)
TurnAt == {"queued", "opening", "closing", "discarding", "failed", "skipped", "applied"}
Turn   == [owner: {"connect", "retry"} \cup Calls, session: Nat, at: TurnAt,
           previous: Streams \cup {0}, uris: SUBSET Uris]

Idle == [kind |-> "idle"]
Call == {Idle} \cup [kind: Kinds, uri: Uris, added: BOOLEAN]

Init ==
  /\ conn = [session |-> 0, phase |-> "offline", refreshes |-> FALSE, disconnect |-> "none",
             uris |-> {}, listen |-> 0, auto |-> 0, watch |-> NoWatch]
  /\ stream = [n \in Streams |-> [open |-> FALSE, session |-> 0, uris |-> {}]]
  /\ turns = <<>>
  /\ call = [k \in Calls |-> Idle]
  /\ promised = {} /\ sessions = 0

Usable == conn.phase = "online"
Result(t) == t.at \in {"failed", "skipped", "applied"}
Connecting == \E i \in DOMAIN turns : turns[i].owner = "connect"
Quiet ==
  /\ turns # <<>> => ~Result(turns[1])
  /\ conn.disconnect = "connect" => Connecting

Closed(S) == [n \in Streams |-> IF n \in S THEN [stream[n] EXCEPT !.open = FALSE] ELSE stream[n]]
OfSession(n) == {m \in Streams : stream[m].session = n}

----------------------------------------------------------------------------
(* An operator with a suffix is a variant of the one it precedes, with one *)
(* mistake the code could have made: the properties below refute each.     *)

(* #watchListen: the watch state is made when there is none.               *)
Watching(w, session, n) ==
  IF w.session = 0 THEN [NoWatch EXCEPT !.session = session, !.sub = n]
  ELSE [w EXCEPT !.sub = n]

Scheduled_Always(w) == [w EXCEPT !.timer = TRUE]

(* #scheduleRelisten.                                                      *)
Scheduled(w) == IF w.timer \/ w.reopening THEN w ELSE [w EXCEPT !.timer = TRUE]

(* #listenFilter is not empty.                                             *)
Wanted(c) == c.refreshes \/ c.uris # {}

(* #applyListenFilter up to its first await; nothing to listen for closes  *)
(* the stream there is.                                                    *)
Begun(t, c) ==
  IF c.session # t.session THEN [t EXCEPT !.at = "skipped"]
  ELSE IF Wanted(c) THEN [t EXCEPT !.at = "opening", !.previous = c.listen, !.uris = c.uris]
  ELSE [t EXCEPT !.at = IF c.listen = 0 THEN "applied" ELSE "closing"]

Empties(t, c) == c.session = t.session /\ ~Wanted(c)

BegunConn(t, c) ==
  IF Empties(t, c) THEN [c EXCEPT !.listen = 0, !.watch = Watching(@, c.session, 0)] ELSE c

BegunClosed(t, c) == IF Empties(t, c) THEN {c.listen} ELSE {}

(* #relisten: the turn begins at once or waits for those before it.        *)
Relisten(owner, c) ==
  LET t == [owner |-> owner, session |-> c.session, at |-> "queued", previous |-> 0, uris |-> {}]
  IN  IF turns = <<>>
        THEN /\ turns' = <<Begun(t, c)>>
             /\ conn' = BegunConn(t, c)
             /\ stream' = Closed(BegunClosed(t, c))
        ELSE turns' = Append(turns, t) /\ conn' = c /\ UNCHANGED stream

----------------------------------------------------------------------------
(* client.listen resolved: the stream is installed, or nobody's.           *)
Spare ==
  {n \in Streams : /\ ~stream[n].open /\ n \notin {conn.listen, conn.auto, conn.watch.sub}
                   /\ \A i \in DOMAIN turns : turns[i].previous # n}

Mine_AnySession(t) == conn.listen = t.previous

Mine(t) == conn.session = t.session /\ conn.listen = t.previous

ListenOpens ==
  LET t == turns[1]
      n == CHOOSE m \in Spare : TRUE
      news == [open |-> TRUE, session |-> t.session, uris |-> t.uris]
      waits == t.previous # 0 \/ (conn.auto # 0 /\ stream[conn.auto].open)
  IN  /\ Quiet /\ turns # <<>> /\ t.at = "opening" /\ Spare # {}
      /\ IF Mine(t)
           THEN /\ stream' = [Closed({t.previous}) EXCEPT ![n] = news]
                /\ conn' = [conn EXCEPT !.listen = n, !.watch = Watching(@, t.session, n)]
                /\ turns' = [turns EXCEPT ![1].at = IF waits THEN "closing" ELSE "applied"]
           ELSE /\ turns' = [turns EXCEPT ![1].at = "discarding"]
                /\ UNCHANGED <<conn, stream>>
      /\ UNCHANGED <<call, promised, sessions>>

ListenFails ==
  /\ Quiet /\ turns # <<>> /\ turns[1].at = "opening"
  /\ MayFail \/ conn.session # turns[1].session
  /\ turns' = [turns EXCEPT ![1].at = "failed"]
  /\ UNCHANGED <<conn, stream, call, promised, sessions>>

(* The close of the stream before, or of the one that was nobody's, is     *)
(* confirmed; the SDK's own stream is closed after it.                     *)
CloseConfirmed ==
  /\ Quiet /\ turns # <<>> /\ turns[1].at \in {"closing", "discarding"}
  /\ turns' = [turns EXCEPT ![1].at = IF @ = "closing" THEN "applied" ELSE "skipped"]
  /\ stream' = IF turns[1].at = "closing" /\ conn.session = turns[1].session
                 THEN Closed({conn.auto}) ELSE stream
  /\ UNCHANGED <<conn, call, promised, sessions>>

----------------------------------------------------------------------------
(* What the owner of a turn does with its result.                          *)

(* #repairListen and the rest of #performConnect: a stream that could not  *)
(* be opened is left to the backoff, and the connection is online.         *)
Repaired(t, c) ==
  LET d == IF t.at # "failed" THEN c
           ELSE [c EXCEPT !.listen = 0, !.watch = Scheduled(Watching(@, t.session, 0))]
  IN  [d EXCEPT !.watch = IF d.listen = 0 THEN Watching(@, t.session, 0) ELSE @,
                !.phase = "online"]

(* The promise chain of the retry timer: .catch, then .finally.            *)
Retried(t, c) ==
  IF c.watch.session # t.session THEN c
  ELSE LET w == IF t.at = "failed" /\ c.session = t.session THEN Scheduled(c.watch) ELSE c.watch
       IN  [c EXCEPT !.watch = [w EXCEPT !.reopening = FALSE]]

RolledBack_Always(k, t, c) ==
  IF call[k].kind = "subscribe" /\ t.at # "applied" THEN [c EXCEPT !.uris = @ \ {call[k].uri}]
  ELSE c

(* A subscribeResource that failed takes its URI back, when it added it;   *)
(* the set is the entry's still: neither a connect nor the end of a        *)
(* disconnect replaces it while a call is admitted.                        *)
RolledBack(k, t, c) ==
  IF call[k].kind = "subscribe" /\ t.at # "applied" /\ call[k].added
    THEN [c EXCEPT !.uris = @ \ {call[k].uri}] ELSE c

Settled(t, c) ==
  CASE t.owner = "connect" -> Repaired(t, c)
    [] t.owner = "retry" -> Retried(t, c)
    [] OTHER -> RolledBack(t.owner, t, c)

Released_OnlyIfApplied(t) == t.at = "applied"

(* The turn releases its gate in a finally.                                *)
Released(t) == TRUE

(* The turn is over.  The next one begins before the owner reacts.         *)
TurnEnds ==
  LET t == turns[1]
      next == turns[2]
      more == Len(turns) > 1 /\ Released(t)
      c == IF more THEN BegunConn(next, conn) ELSE conn
      k == t.owner
  IN  /\ turns # <<>> /\ Result(t)
      /\ turns' = IF more THEN [Tail(turns) EXCEPT ![1] = Begun(next, conn)] ELSE Tail(turns)
      /\ stream' = IF more THEN Closed(BegunClosed(next, conn)) ELSE stream
      /\ conn' = Settled(t, c)
      /\ IF k \in Calls
           THEN /\ call' = [call EXCEPT ![k] = Idle]
                /\ promised' = IF call[k].kind = "subscribe" /\ t.at = "applied"
                                 THEN promised \cup {call[k].uri} ELSE promised
           ELSE UNCHANGED <<call, promised>>
      /\ UNCHANGED sessions

----------------------------------------------------------------------------
(* The calls of the host, admitted by withClient.                          *)
Admitted(k) ==
  call[k] = Idle /\ Usable /\ conn.session # 0 /\ conn.disconnect = "none"

SubscribeResource(k, u) ==
  /\ Admitted(k)
  /\ call' = [call EXCEPT ![k] = [kind |-> "subscribe", uri |-> u, added |-> u \notin conn.uris]]
  /\ Relisten(k, [conn EXCEPT !.uris = @ \cup {u}])
  /\ UNCHANGED <<promised, sessions>>

UnsubscribeResource(k, u) ==
  /\ Admitted(k)
  /\ call' = [call EXCEPT ![k] = [kind |-> "unsubscribe", uri |-> u, added |-> FALSE]]
  /\ promised' = promised \ {u}
  /\ Relisten(k, [conn EXCEPT !.uris = @ \ {u}])
  /\ UNCHANGED sessions

(* A session is installed, once no call is admitted any more; a replace()  *)
(* may have given the connection another definition.  For a definition that*)
(* refreshes, the SDK has opened a stream for list changes, unless the era *)
(* of the upstream was known from before: then the manager opens it, and   *)
(* the connection is not online until it is.                               *)
Installed(refreshes) ==
  [conn EXCEPT !.session = sessions + 1, !.refreshes = refreshes, !.uris = {},
               !.listen = 0, !.auto = 0, !.watch = NoWatch]

Connect ==
  /\ conn.session = 0 /\ ~Connecting /\ conn.disconnect = "none"
  /\ \A k \in Calls : call[k] = Idle
  /\ sessions < MaxSessions
  /\ sessions' = sessions + 1 /\ promised' = {}
  /\ \/ /\ FALSE \in Policies
        /\ conn' = [Installed(FALSE) EXCEPT !.phase = "online",
                                           !.watch = Watching(@, sessions + 1, 0)]
        /\ UNCHANGED <<stream, turns>>
     \/ /\ TRUE \in Policies
        /\ Relisten("connect", [Installed(TRUE) EXCEPT !.phase = "connecting"])
     \/ LET n == CHOOSE m \in Spare : TRUE
        IN  /\ TRUE \in Policies /\ Spare # {}
            /\ stream' = [stream EXCEPT ![n] = [open |-> TRUE, session |-> sessions + 1,
                                               uris |-> {}]]
            /\ conn' = [Installed(TRUE) EXCEPT !.phase = "online", !.auto = n,
                                              !.watch = Watching(@, sessions + 1, n)]
            /\ UNCHANGED turns
  /\ UNCHANGED call

(* #handleUnexpectedClose.                                                 *)
SessionLost ==
  /\ Quiet /\ conn.session # 0 /\ conn.phase # "draining"
  /\ conn' = [conn EXCEPT !.session = 0, !.listen = 0, !.phase = "failed", !.watch = NoWatch]
  /\ stream' = Closed(OfSession(conn.session))
  /\ promised' = {}
  /\ UNCHANGED <<turns, call, sessions>>

(* disconnect(), of a connection that has a session; it waits for a connect*)
(* in flight.                                                              *)
Draining(c) == [c EXCEPT !.disconnect = "drain", !.phase = "draining", !.watch = NoWatch]

Disconnect ==
  /\ conn.session # 0 /\ conn.disconnect = "none"
  /\ conn' = IF Connecting THEN [conn EXCEPT !.disconnect = "connect"] ELSE Draining(conn)
  /\ UNCHANGED <<stream, turns, call, promised, sessions>>

DisconnectAfterConnect ==
  /\ conn.disconnect = "connect" /\ ~Connecting
  /\ conn' = IF conn.session = 0
               THEN [conn EXCEPT !.disconnect = "none", !.phase = "offline", !.watch = NoWatch]
               ELSE Draining(conn)
  /\ UNCHANGED <<stream, turns, call, promised, sessions>>

(* No operation is left: the stream is closed, then the client.            *)
Drained ==
  /\ conn.disconnect = "drain" /\ \A k \in Calls : call[k] = Idle
  /\ conn' = [conn EXCEPT !.disconnect = "stream"]
  /\ stream' = Closed({conn.listen})
  /\ UNCHANGED <<turns, call, promised, sessions>>

StreamClosed ==
  /\ Quiet /\ conn.disconnect = "stream"
  /\ conn' = [conn EXCEPT !.disconnect = "client", !.listen = 0, !.uris = {}]
  /\ stream' = Closed({conn.auto}) /\ promised' = {}
  /\ UNCHANGED <<turns, call, sessions>>

ClientClosed ==
  /\ Quiet /\ conn.disconnect = "client"
  /\ conn' = [conn EXCEPT !.disconnect = "none", !.session = 0, !.phase = "offline",
                          !.watch = NoWatch]
  /\ stream' = Closed(OfSession(conn.session))
  /\ UNCHANGED <<turns, call, promised, sessions>>

ClientCloseFails ==
  /\ Quiet /\ conn.disconnect = "client"
  /\ conn' = [conn EXCEPT !.disconnect = "none", !.phase = "quarantined", !.watch = NoWatch]
  /\ UNCHANGED <<stream, turns, call, promised, sessions>>

----------------------------------------------------------------------------
Dropped_KeepsListen(n) ==
  IF conn.session # stream[n].session \/ conn.watch.sub # n THEN conn
  ELSE [conn EXCEPT !.watch = Scheduled([@ EXCEPT !.sub = 0])]

(* The `closed` of a stream resolves "remote": only the stream that is     *)
(* watched matters, and it is forgotten before anything else is decided.   *)
Dropped(n) ==
  IF conn.session # stream[n].session \/ conn.watch.sub # n THEN conn
  ELSE LET w == [conn.watch EXCEPT !.sub = 0]
       IN  [conn EXCEPT !.listen = IF @ = n THEN 0 ELSE @,
                        !.watch = IF conn.disconnect = "none" THEN Scheduled(w) ELSE w]

Drop(n) ==
  /\ Quiet /\ stream[n].open
  /\ stream' = Closed({n}) /\ conn' = Dropped(n)
  /\ UNCHANGED <<turns, call, promised, sessions>>

(* The retry timer fires.                                                  *)
TimerFires ==
  LET w == [conn.watch EXCEPT !.timer = FALSE]
      c == [conn EXCEPT !.watch = w]
      idle == conn.session # w.session \/ conn.disconnect # "none" \/ w.sub # 0
  IN  /\ Quiet /\ conn.watch.timer
      /\ IF idle THEN conn' = c /\ UNCHANGED <<turns, stream>>
         ELSE IF ~Usable THEN UNCHANGED <<conn, turns, stream>>
         ELSE Relisten("retry", [c EXCEPT !.watch.reopening = TRUE])
      /\ UNCHANGED <<call, promised, sessions>>

----------------------------------------------------------------------------
HostCall ==
  \/ Connect \/ Disconnect
  \/ \E k \in Calls, u \in Uris :
       \/ <<"subscribe", u>> \in Asks[k] /\ SubscribeResource(k, u)
       \/ <<"unsubscribe", u>> \in Asks[k] /\ UnsubscribeResource(k, u)

TurnAdvances == ListenOpens \/ ListenFails \/ CloseConfirmed \/ TurnEnds

DisconnectAdvances ==
  DisconnectAfterConnect \/ Drained \/ StreamClosed \/ ClientClosed \/ ClientCloseFails

Next ==
  \/ HostCall \/ TurnAdvances \/ DisconnectAdvances \/ TimerFires \/ SessionLost
  \/ \E n \in Streams : Drop(n)

Spec == Init /\ [][Next]_vars

(* Every request has an answer or a deadline, timers fire, and the runtime *)
(* runs what it has queued.                                                *)
Fairness == WF_vars(TurnAdvances) /\ WF_vars(DisconnectAdvances) /\ WF_vars(TimerFires)

FairSpec == Spec /\ Fairness

----------------------------------------------------------------------------
(* The types; the retry timer and a re-opening exclude each other.         *)
TypeOK ==
  /\ conn \in Conn /\ ~(conn.watch.timer /\ conn.watch.reopening)
  /\ stream \in [Streams -> [open: BOOLEAN, session: Nat, uris: SUBSET Uris]]
  /\ turns \in Seq(Turn)
  /\ call \in [Calls -> Call]
  /\ promised \subseteq Uris /\ sessions \in 0..MaxSessions

(* Overlapping turns never leave a second stream open for the life of the  *)
(* generation (#relisten is serialized): once they are over, no stream is  *)
(* open but the one the manager watches, of the session that is up.        *)
OneStream ==
  turns = <<>> /\ Usable /\ conn.session # 0 =>
    \A n \in Streams :
      stream[n].open => n = conn.watch.sub /\ stream[n].session = conn.session

(* The stream in use is open and watched: a drop of it cannot go unnoticed,*)
(* whenever it happens, and a stream that was dropped is not kept.         *)
InUseIsWatched ==
  Usable /\ conn.session # 0 /\ conn.listen # 0 =>
    /\ stream[conn.listen].open /\ stream[conn.listen].session = conn.session
    /\ conn.watch.sub = conn.listen

(* Typed, and whatever turns, drops and sessions overlap, at most one      *)
(* stream is open, and the one in use is watched.                          *)
StreamInUse == TypeOK /\ OneStream /\ InUseIsWatched

(* No two calls are ever about the same URI.                               *)
OwnUris ==
  \A k, l \in Calls, x, y \in Kinds, u \in Uris :
    <<x, u>> \in Asks[k] /\ <<y, u>> \in Asks[l] => k = l

(* A confirmed subscription is never lost while its stream lives: whatever *)
(* is subscribed, unsubscribed or fails after it, the filter in use still  *)
(* carries its URI.  So it is with OwnUris: of two calls that subscribe one*)
(* URI, the one that fails takes it back from the other.                   *)
PromiseKept ==
  Usable /\ conn.listen # 0 => promised \subseteq stream[conn.listen].uris

(* Every call settles: the gate of a turn is released however it ends.     *)
CallsSettle == \A k \in Calls : call[k] # Idle ~> call[k] = Idle

(* A connect that has a stream to open first ends all the same.            *)
ConnectEnds == Connecting ~> ~Connecting

----------------------------------------------------------------------------
(* #watchListen: a dropped stream is re-opened "for as long as the session *)
(* stays current": one is in use, or on its way, or a timer will ask for it.*)
DropAnswered ==
  Usable /\ conn.session # 0 /\ conn.disconnect = "none" /\ Wanted(conn) =>
    conn.watch.sub # 0 \/ conn.watch.timer \/ turns # <<>>
===============================================================================
