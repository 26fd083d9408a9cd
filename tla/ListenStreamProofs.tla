------------------------- MODULE ListenStreamProofs -------------------------
(* The listen stream, for every set of calls, URIs and stream names and for*)
(* any number of sessions.                                                 *)
(*                                                                         *)
(* That one stream is open once the turns are over rests on what is open   *)
(* while they run: the stream that is watched, and the one the SDK opened  *)
(* until the turn that replaces it has closed it (StreamOrder).  For that  *)
(* turns must run one at a time (QueueOrder), nothing but the connect's own*)
(* turn may touch the stream of a session that is not online yet           *)
(* (ConnectOrder), and a stream never survives its session (SessionOrder). *)
(* A promise is kept because every filter that is asked for carries the    *)
(* URIs promised when its turn began, and none is promised while it runs   *)
(* (PromiseOrder).                                                         *)
EXTENDS ListenStream, SequenceTheorems, TLAPS

(* Sessions have numbers in order, and a stream goes with its session.     *)
SessionOrder ==
  /\ conn.session \in {0, sessions}
  /\ \A n \in Streams : stream[n].open => conn.session # 0 /\ stream[n].session = conn.session
  /\ \A i \in DOMAIN turns : turns[i].session \in 1..sessions
  /\ conn.watch.session # 0 \/ conn.watch = NoWatch

(* The first turn runs, the others wait; nobody awaits two of them, and a  *)
(* call that awaits one is in flight.                                      *)
QueueOrder ==
  /\ \A i \in DOMAIN turns : turns[i].at = "queued" <=> i # 1
  /\ \A i, j \in DOMAIN turns :
       turns[i].owner = turns[j].owner /\ turns[i].owner # "retry" => i = j
  /\ \A i \in DOMAIN turns : turns[i].owner \in Calls => call[turns[i].owner] # Idle

(* While a connect opens its stream, its turn is the only one of the new   *)
(* session; if the session is lost meanwhile, no stream is in use.         *)
ConnectOrder ==
  /\ \A i \in DOMAIN turns :
       turns[i].owner = "connect" =>
         /\ turns[i].session = sessions
         /\ conn.session = 0 => conn.listen = 0
         /\ conn.session # 0 => conn.phase = "connecting"
  /\ conn.phase = "connecting" =>
       /\ conn.session # 0 /\ conn.auto = 0 /\ conn.watch.sub = conn.listen
       /\ \A i \in DOMAIN turns :
            turns[i].session = conn.session => turns[i].owner = "connect"
       /\ conn.listen # 0 =>
            turns # <<>> /\ turns[1].owner = "connect" /\ turns[1].at \in {"closing", "applied"}

(* A connection that drains has a session, and one that is online without  *)
(* a session uses no stream; no call is left when the stream is closed.    *)
PhaseOrder ==
  /\ conn.disconnect \in {"drain", "stream", "client"} => conn.phase = "draining"
  /\ conn.phase = "draining" => conn.session # 0
  /\ conn.phase = "online" /\ conn.session = 0 => conn.listen = 0
  /\ \A k \in Calls : call[k] # Idle => conn.disconnect \notin {"stream", "client"}

(* The connection has a session and is not being taken down.               *)
Live(c) == c.session # 0 /\ c.phase \in {"connecting", "online"}

(* The running turn of this session waits for a close.                     *)
Closes == turns # <<>> /\ turns[1].at = "closing" /\ turns[1].session = conn.session

(* Which streams are open while the session is: the one that is watched,   *)
(* which is the one in use or the SDK's own, and the SDK's own as long as  *)
(* the turn that replaced it has not closed it.                            *)
StreamOrder ==
  /\ conn.session # 0 /\ conn.auto # 0 => conn.refreshes
  /\ Live(conn) =>
       /\ conn.watch.sub # 0 =>
            stream[conn.watch.sub].open /\ conn.watch.sub \in {conn.listen, conn.auto}
       /\ conn.listen # 0 => conn.watch.sub = conn.listen /\ conn.listen # conn.auto
       /\ Closes => conn.watch.sub = conn.listen
       /\ \A n \in Streams :
            stream[n].open => n = conn.watch.sub \/ (n = conn.auto /\ Closes)

IInv ==
  /\ TypeOK /\ SessionOrder /\ QueueOrder /\ ConnectOrder /\ PhaseOrder /\ StreamOrder

(* What the filters carry: the one in use and the one that is asked for    *)
(* the URIs that are promised, and the turn of a subscription its URI.     *)
FilterOrder ==
  /\ turns # <<>> =>
       /\ turns[1].at = "opening" /\ turns[1].session = conn.session =>
            promised \subseteq turns[1].uris
       /\ \A k \in Calls : turns[1].owner = k /\ call[k].kind = "subscribe" =>
            /\ turns[1].at = "opening" => call[k].uri \in turns[1].uris
            /\ turns[1].at \in {"closing", "applied"} /\ Live(conn) /\ conn.listen # 0 =>
                 call[k].uri \in stream[conn.listen].uris
  /\ Live(conn) /\ conn.listen # 0 => promised \subseteq stream[conn.listen].uris

(* What is promised is subscribed, and what a call would take back is not  *)
(* promised yet.                                                           *)
PromiseOrder ==
  /\ promised \subseteq conn.uris
  /\ \A k \in Calls : call[k] # Idle => \E x \in Kinds : <<x, call[k].uri>> \in Asks[k]
  /\ \A k \in Calls : call[k].kind = "subscribe" =>
       call[k].uri \in conn.uris /\ (call[k].added => call[k].uri \notin promised)
  /\ FilterOrder

----------------------------------------------------------------------------
(* The operators on records.                                               *)

(* A watch state that #watchListen and #scheduleRelisten may be given.     *)
WatchOK(w) ==
  /\ w \in Watch /\ ~(w.timer /\ w.reopening)
  /\ w.session # 0 \/ w = NoWatch

LEMMA NoWatchOK ==
  WatchOK(NoWatch) /\ NoWatch.sub = 0 /\ NoWatch.session = 0 /\ ~NoWatch.timer
BY DEF WatchOK, NoWatch, Watch

(* #watchListen.                                                           *)
LEMMA WatchingOK ==
  ASSUME NEW w, WatchOK(w), NEW s \in Nat \ {0}, NEW n \in Streams \cup {0}
  PROVE  WatchOK(Watching(w, s, n)) /\ Watching(w, s, n).sub = n
<1>1. CASE w.session = 0
  BY <1>1 DEF WatchOK, Watching, NoWatch, Watch
<1>2. CASE w.session # 0
  BY <1>2 DEF WatchOK, Watching, Watch
<1>. QED BY <1>1, <1>2

(* #scheduleRelisten.                                                      *)
LEMMA ScheduledOK ==
  ASSUME NEW w, WatchOK(w), w.session # 0
  PROVE  WatchOK(Scheduled(w)) /\ Scheduled(w).sub = w.sub /\ Scheduled(w).session = w.session
BY DEF WatchOK, Scheduled, Watch

(* The streams are as they were, with those in S closed.                   *)
Shut(s, S) ==
  /\ s \in [Streams -> [open: BOOLEAN, session: Nat, uris: SUBSET Uris]]
  /\ \A n \in Streams : /\ s[n].open <=> stream[n].open /\ n \notin S
                        /\ s[n].session = stream[n].session
                        /\ s[n].uris = stream[n].uris

LEMMA ClosedFields ==
  ASSUME TypeOK
  PROVE  Shut(stream, {}) /\ \A S : Shut(Closed(S), S)
BY DEF TypeOK, Closed, Shut

(* A connection with another stream in use and another watch state.        *)
SameConn(c, d) ==
  /\ d \in Conn /\ d.session = c.session /\ d.phase = c.phase /\ d.refreshes = c.refreshes
  /\ d.disconnect = c.disconnect /\ d.uris = c.uris /\ d.auto = c.auto

(* What becomes of turn t, of connection c, and of the streams in S when t *)
(* begins: it is skipped, asks for a stream, or closes the one in use.     *)
IsBegun(t, c, u, d, S) ==
  /\ u \in Turn /\ u.owner = t.owner /\ u.session = t.session
  /\ SameConn(c, d) /\ WatchOK(d.watch)
  /\ \/ /\ c.session # t.session /\ u.at = "skipped" /\ d = c /\ S = {}
     \/ /\ c.session = t.session /\ Wanted(c) /\ u.at = "opening" /\ u.previous = c.listen
        /\ u.uris = c.uris /\ d = c /\ S = {}
     \/ /\ c.session = t.session /\ ~Wanted(c) /\ u.at \in {"applied", "closing"}
        /\ d.listen = 0 /\ d.watch.sub = 0 /\ S = {c.listen}

LEMMA BegunFields ==
  ASSUME NEW t \in Turn, NEW c \in Conn, WatchOK(c.watch), t.session # 0
  PROVE  IsBegun(t, c, Begun(t, c), BegunConn(t, c), BegunClosed(t, c))
<1> DEFINE u == Begun(t, c)
           d == BegunConn(t, c)
<1>1. CASE c.session # t.session
  <2>1. u = [t EXCEPT !.at = "skipped"] /\ d = c /\ BegunClosed(t, c) = {}
    BY <1>1 DEF Begun, BegunConn, BegunClosed, Empties
  <2>. QED BY <1>1, <2>1 DEF IsBegun, SameConn, Turn, TurnAt
<1>2. CASE c.session = t.session /\ Wanted(c)
  <2>1. /\ u = [t EXCEPT !.at = "opening", !.previous = c.listen, !.uris = c.uris]
        /\ d = c /\ BegunClosed(t, c) = {}
    BY <1>2 DEF Begun, BegunConn, BegunClosed, Empties
  <2>. QED BY <1>2, <2>1 DEF IsBegun, SameConn, Turn, TurnAt, Conn
<1>3. CASE c.session = t.session /\ ~Wanted(c)
  <2> DEFINE a == IF c.listen = 0 THEN "applied" ELSE "closing"
             w == Watching(c.watch, c.session, 0)
  <2>1. /\ u = [t EXCEPT !.at = a] /\ d = [c EXCEPT !.listen = 0, !.watch = w]
        /\ BegunClosed(t, c) = {c.listen}
    BY <1>3 DEF Begun, BegunConn, BegunClosed, Empties
  <2>2. WatchOK(w) /\ w.sub = 0
    BY <1>3, WatchingOK DEF Turn
  <2>3. a \in {"applied", "closing"}
    OBVIOUS
  <2>. HIDE DEF a, w
  <2>4. u \in Turn /\ u.owner = t.owner /\ u.session = t.session /\ u.at = a
    BY <2>1, <2>3 DEF Turn, TurnAt
  <2>5. SameConn(c, d) /\ d.watch = w /\ d.listen = 0
    BY <2>1, <2>2 DEF SameConn, Conn, WatchOK
  <2>. QED BY <1>3, <2>1, <2>2, <2>3, <2>4, <2>5 DEF IsBegun
<1>. QED BY <1>1, <1>2, <1>3

----------------------------------------------------------------------------
(* The chain of turns.                                                     *)
LEMMA FirstTurn ==
  ASSUME NEW q \in Seq(Turn), q # <<>>
  PROVE  /\ q[1] \in Turn /\ 1 \in DOMAIN q /\ DOMAIN q = 1..Len(q) /\ Len(q) \in Nat \ {0}
BY LenProperties, EmptySeq

(* The first turn is at another place.                                     *)
Moved(q, r, a) ==
  /\ r \in Seq(Turn) /\ r # <<>> /\ DOMAIN r = DOMAIN q /\ 1 \in DOMAIN q
  /\ r[1].at = a /\ r[1].uris = q[1].uris
  /\ \A i \in DOMAIN q : i # 1 => r[i] = q[i]
  /\ \A i \in DOMAIN q : r[i].owner = q[i].owner /\ r[i].session = q[i].session

LEMMA MovedTurn ==
  ASSUME NEW q \in Seq(Turn), q # <<>>, NEW a \in TurnAt
  PROVE  Moved(q, [q EXCEPT ![1].at = a], a)
<1> DEFINE t == [q[1] EXCEPT !.at = a]
           r == [q EXCEPT ![1] = t]
<1>1. /\ q[1] \in Turn /\ 1 \in DOMAIN q /\ DOMAIN q = 1..Len(q) /\ Len(q) \in Nat \ {0}
  BY FirstTurn
<1>2. /\ t \in Turn /\ t.at = a /\ t.owner = q[1].owner /\ t.session = q[1].session
      /\ t.uris = q[1].uris
  BY <1>1 DEF Turn
<1>. HIDE DEF t
<1>3. /\ r \in Seq(Turn) /\ DOMAIN r = DOMAIN q /\ r[1] = t /\ Len(r) = Len(q)
      /\ \A i \in DOMAIN q : i # 1 => r[i] = q[i]
  BY <1>1, <1>2, ExceptSeq
<1>4. r # <<>>
  BY <1>1, <1>3, EmptySeq
<1>. HIDE DEF r
<1>5. Moved(q, r, a)
  BY <1>1, <1>2, <1>3, <1>4 DEF Moved
<1>. QED BY <1>5 DEF r, t

(* One more turn waits.                                                    *)
Pushed(q, r, t) ==
  /\ r \in Seq(Turn) /\ r # <<>> /\ Len(q) \in Nat /\ DOMAIN q = 1..Len(q)
  /\ DOMAIN r = 1..(Len(q) + 1) /\ r[Len(q) + 1] = t /\ \A i \in 1..Len(q) : r[i] = q[i]
  /\ q # <<>> => Len(q) # 0

LEMMA PushedTurn ==
  ASSUME NEW q \in Seq(Turn), NEW t \in Turn
  PROVE  Pushed(q, Append(q, t), t)
<1>1. q # <<>> => Len(q) # 0
  BY EmptySeq
<1>. QED BY <1>1, AppendProperties, LenProperties DEF Pushed

LEMMA OneTurn ==
  ASSUME NEW t \in Turn
  PROVE  /\ <<t>> \in Seq(Turn) /\ <<t>> # <<>> /\ DOMAIN <<t>> = {1} /\ <<t>>[1] = t
OBVIOUS

(* The first turn is over, and the one behind it begins as u.              *)
Popped(q, r, u) ==
  /\ r \in Seq(Turn) /\ r # <<>> /\ DOMAIN r = 1..(Len(q) - 1) /\ r[1] = u
  /\ \A i \in 2..(Len(q) - 1) : i + 1 \in DOMAIN q /\ r[i] = q[i + 1]
  /\ DOMAIN q = 1..Len(q) /\ Len(q) \in Nat /\ 2 \in DOMAIN q /\ q[2] \in Turn

LEMMA PoppedTurn ==
  ASSUME NEW q \in Seq(Turn), q # <<>>, Len(q) > 1, NEW u \in Turn
  PROVE  Popped(q, [Tail(q) EXCEPT ![1] = u], u)
<1>1. /\ Tail(q) \in Seq(Turn) /\ Len(Tail(q)) = Len(q) - 1 /\ Len(q) \in Nat
      /\ DOMAIN q = 1..Len(q) /\ DOMAIN Tail(q) = 1..(Len(q) - 1)
      /\ \A i \in 1..(Len(q) - 1) : Tail(q)[i] = q[i + 1]
  BY HeadTailProperties, LenProperties
<1>2. 1 \in 1..(Len(q) - 1) /\ 2 \in DOMAIN q /\ \A i \in 1..(Len(q) - 1) : i + 1 \in DOMAIN q
  BY <1>1
<1>3. q[2] \in Turn
  BY <1>2, ElementOfSeq, <1>1
<1>. DEFINE p == Tail(q)
            r == [p EXCEPT ![1] = u]
<1>. HIDE DEF p
<1>4. p \in Seq(Turn) /\ Len(p) = Len(q) - 1 /\ DOMAIN p = 1..Len(p) /\ 1 \in 1..Len(p)
  BY <1>1, <1>2 DEF p
<1>5. /\ r \in Seq(Turn) /\ Len(r) = Len(p) /\ r[1] = u /\ DOMAIN r = DOMAIN p
      /\ \A i \in DOMAIN p : i # 1 => r[i] = p[i]
  BY <1>4, ExceptSeq
<1>6. r # <<>>
  <2>1. Len(r) # 0
    BY <1>1, <1>4, <1>5
  <2>. QED BY <2>1, <1>5, EmptySeq
<1>. HIDE DEF r
<1>7. \A i \in 2..(Len(q) - 1) : r[i] = q[i + 1]
  BY <1>1, <1>5 DEF p
<1>8. Popped(q, r, u)
  BY <1>1, <1>2, <1>3, <1>4, <1>5, <1>6, <1>7 DEF Popped
<1>. QED BY <1>8 DEF r, p

LEMMA LastTurn ==
  ASSUME NEW q \in Seq(Turn), q # <<>>, ~(Len(q) > 1)
  PROVE  Tail(q) = <<>>
<1>1. Len(q) = 1
  BY FirstTurn
<1>2. Tail(q) \in Seq(Turn) /\ Len(Tail(q)) = Len(q) - 1
  BY HeadTailProperties
<1>3. Len(Tail(q)) = 0
  BY <1>1, <1>2
<1>. QED BY <1>2, <1>3, EmptySeq

(* The lemmas on the single actions show this of a step.                   *)
Kept == IInv' /\ (OwnUris /\ PromiseOrder => PromiseOrder')

LEMMA IdleAsks ==
  ASSUME NEW k \in Calls, call[k].kind = "subscribe"
  PROVE  call[k] # Idle
BY DEF Idle

----------------------------------------------------------------------------
(* The steps of the running turn.                                          *)

(* Its request fails, or a close it waits for is confirmed.                *)
LEMMA TurnMoves ==
  ASSUME IInv, turns # <<>>, NEW a \in {"failed", "discarding", "skipped", "applied"},
         Moved(turns, turns', a),
         turns[1].at \in {"opening", "closing", "discarding"},
         turns[1].at = "closing" <=> a = "applied",
         NEW S, Shut(stream', S), S = IF Closes THEN {conn.auto} ELSE {},
         UNCHANGED <<conn, call, promised, sessions>>
  PROVE  Kept
<1>1. TypeOK'
  BY DEF IInv, TypeOK, Moved, Shut
<1>2. SessionOrder'
  BY DEF IInv, SessionOrder, Moved, Shut
<1>3. QueueOrder'
  BY DEF IInv, QueueOrder, Moved
<1>4. ConnectOrder'
  <2>1. conn.phase = "connecting" /\ conn.listen # 0 => turns[1].owner = "connect" /\ a = "applied"
    BY DEF IInv, ConnectOrder
  <2>. QED BY <2>1 DEF IInv, ConnectOrder, Moved
<1>5. PhaseOrder'
  BY DEF IInv, PhaseOrder
<1>6. StreamOrder'
  <2>1. ~Closes'
    BY DEF Closes, Moved
  <2>2. ASSUME Live(conn)
        PROVE  /\ conn.watch.sub # 0 =>
                    stream'[conn.watch.sub].open /\ conn.watch.sub \in {conn.listen, conn.auto}
               /\ \A n \in Streams : stream'[n].open => n = conn.watch.sub
    <3>1. CASE Closes
      BY <2>2, <3>1 DEF Shut, IInv, StreamOrder, TypeOK, Conn, Watch
    <3>2. CASE ~Closes
      BY <2>2, <3>2 DEF Shut, IInv, StreamOrder, TypeOK, Conn, Watch
    <3>. QED BY <3>1, <3>2
  <2>. QED BY <2>1, <2>2 DEF IInv, StreamOrder, Live
<1>7. ASSUME PromiseOrder PROVE PromiseOrder'
  <2>1. conn.listen # 0 => stream'[conn.listen].uris = stream[conn.listen].uris
    BY DEF Shut, IInv, TypeOK, Conn
  <2>2. FilterOrder'
    BY <1>7, <2>1 DEF Moved, PromiseOrder, FilterOrder, Live
  <2>. QED BY <1>7, <2>2 DEF PromiseOrder
<1>. QED BY <1>1, <1>2, <1>3, <1>4, <1>5, <1>6, <1>7 DEF IInv, Kept

LEMMA ListenFailsKeeps ==
  ASSUME IInv, ListenFails
  PROVE  Kept
<1>1. /\ turns # <<>> /\ turns[1].at = "opening" /\ turns' = [turns EXCEPT ![1].at = "failed"]
      /\ UNCHANGED <<conn, stream, call, promised, sessions>>
  BY DEF ListenFails
<1>2. "failed" \in TurnAt /\ turns \in Seq(Turn)
  BY DEF IInv, TypeOK, TurnAt
<1>3. Moved(turns, turns', "failed")
  BY <1>1, <1>2, MovedTurn
<1>4. ~Closes /\ Shut(stream', {})
  BY <1>1, ClosedFields DEF Closes, IInv
<1>. QED BY <1>1, <1>3, <1>4, TurnMoves

LEMMA CloseConfirmedKeeps ==
  ASSUME IInv, CloseConfirmed
  PROVE  Kept
<1>1. /\ turns # <<>> /\ turns[1].at \in {"closing", "discarding"}
      /\ UNCHANGED <<conn, call, promised, sessions>>
  BY DEF CloseConfirmed
<1>2. {"applied", "skipped"} \subseteq TurnAt /\ turns \in Seq(Turn)
  BY DEF IInv, TypeOK, TurnAt
<1>3. PICK a \in {"applied", "skipped"} :
        a = (IF turns[1].at = "closing" THEN "applied" ELSE "skipped")
  OBVIOUS
<1>4. turns' = [turns EXCEPT ![1].at = a]
  <2>1. turns[1] \in Turn /\ 1 \in DOMAIN turns
    BY <1>1, <1>2, FirstTurn
  <2>. QED BY <1>3, <2>1 DEF CloseConfirmed, Turn
<1>5. Moved(turns, turns', a)
  BY <1>1, <1>2, <1>4, MovedTurn
<1>6. PICK S : Shut(stream', S) /\ S = IF Closes THEN {conn.auto} ELSE {}
  <2>1. CASE Closes
    <3>1. stream' = Closed({conn.auto})
      BY <2>1 DEF CloseConfirmed, Closes
    <3>. QED BY <2>1, <3>1, ClosedFields DEF IInv
  <2>2. CASE ~Closes
    <3>1. stream' = stream
      BY <1>1, <2>2 DEF CloseConfirmed, Closes
    <3>. QED BY <2>2, <3>1, ClosedFields DEF IInv
  <2>. QED BY <2>1, <2>2
<1>. QED BY <1>1, <1>3, <1>5, <1>6, TurnMoves

(* Its stream is opened: installed, or nobody's.                           *)
LEMMA ListenOpensKeeps ==
  ASSUME IInv, ListenOpens
  PROVE  Kept
<1> DEFINE t == turns[1]
<1>1. turns # <<>> /\ t.at = "opening" /\ Spare # {} /\ UNCHANGED <<call, promised, sessions>>
  BY DEF ListenOpens
<1>2. /\ t \in Turn /\ 1 \in DOMAIN turns /\ turns \in Seq(Turn)
      /\ {"closing", "applied", "discarding"} \subseteq TurnAt
  BY <1>1, FirstTurn DEF IInv, TypeOK, TurnAt
<1>3. CASE ~Mine(t)
  <2>1. turns' = [turns EXCEPT ![1].at = "discarding"] /\ UNCHANGED <<conn, stream>>
    BY <1>3 DEF ListenOpens
  <2>2. Moved(turns, turns', "discarding")
    BY <1>1, <1>2, <2>1, MovedTurn
  <2>3. ~Closes /\ Shut(stream', {})
    BY <1>1, <2>1, ClosedFields DEF Closes, IInv
  <2>. QED BY <1>1, <2>1, <2>2, <2>3, TurnMoves
<1>4. CASE Mine(t)
  <2> DEFINE waits == t.previous # 0 \/ (conn.auto # 0 /\ stream[conn.auto].open)
             news == [open |-> TRUE, session |-> t.session, uris |-> t.uris]
  <2>1. PICK n \in Spare : n = CHOOSE m \in Spare : TRUE
    BY <1>1
  <2>2. n \in Streams /\ ~stream[n].open /\ n # conn.listen /\ n # conn.auto /\ n # conn.watch.sub
    BY <2>1 DEF Spare
  <2>3. PICK a \in {"closing", "applied"} : a = IF waits THEN "closing" ELSE "applied"
    OBVIOUS
  <2>4. /\ stream' = [Closed({t.previous}) EXCEPT ![n] = news]
        /\ conn' = [conn EXCEPT !.listen = n, !.watch = Watching(@, t.session, n)]
        /\ turns' = [turns EXCEPT ![1].at = a]
    BY <1>4, <2>1, <2>3 DEF ListenOpens
  <2>5. Moved(turns, turns', a)
    BY <1>1, <1>2, <2>3, <2>4, MovedTurn
  <2>6. /\ conn.session = t.session /\ conn.listen = t.previous
        /\ t.session \in 1..sessions /\ t.session \in Nat \ {0} /\ t.uris \subseteq Uris
    BY <1>2, <1>4 DEF Mine, IInv, TypeOK, SessionOrder, Turn
  <2>7. Shut(Closed({conn.listen}), {conn.listen})
    BY ClosedFields DEF IInv
  <2>8. news \in [open: BOOLEAN, session: Nat, uris: SUBSET Uris]
    BY <2>6
  <2>9. /\ stream' \in [Streams -> [open: BOOLEAN, session: Nat, uris: SUBSET Uris]]
        /\ stream'[n].open /\ stream'[n].session = t.session /\ stream'[n].uris = t.uris
        /\ \A m \in Streams : m # n => /\ stream'[m].open <=> stream[m].open /\ m # conn.listen
                                       /\ stream'[m].session = stream[m].session
    BY <2>2, <2>4, <2>6, <2>7, <2>8 DEF Shut
  <2>10. PICK w : w = Watching(conn.watch, t.session, n)
    OBVIOUS
  <2>11. WatchOK(w) /\ w.sub = n
    BY <2>2, <2>6, <2>10, WatchingOK DEF IInv, TypeOK, SessionOrder, WatchOK, Conn
  <2>12. SameConn(conn, conn') /\ conn'.listen = n /\ conn'.watch = w
    BY <2>2, <2>4, <2>10, <2>11 DEF SameConn, IInv, TypeOK, Conn, WatchOK
  <2>13. TypeOK'
    BY <1>1, <2>5, <2>9, <2>11, <2>12 DEF IInv, TypeOK, Moved, SameConn, WatchOK
  <2>14. SessionOrder'
    <3>1. \A m \in Streams : stream'[m].open => conn'.session # 0 /\ stream'[m].session = conn'.session
      BY <2>6, <2>9, <2>12 DEF IInv, SessionOrder, SameConn
    <3>2. conn'.session \in {0, sessions'} /\ \A i \in DOMAIN turns' : turns'[i].session \in 1..sessions'
      BY <1>1, <2>5, <2>12 DEF IInv, SessionOrder, SameConn, Moved
    <3>3. conn'.watch.session # 0 \/ conn'.watch = NoWatch
      BY <2>11, <2>12 DEF WatchOK
    <3>. QED BY <3>1, <3>2, <3>3 DEF SessionOrder
  <2>15. QueueOrder'
    BY <1>1, <2>3, <2>5 DEF IInv, QueueOrder, Moved
  <2>16. ConnectOrder'
    BY <1>1, <1>2, <2>3, <2>5, <2>6, <2>11, <2>12 DEF IInv, ConnectOrder, Moved, SameConn
  <2>17. PhaseOrder'
    BY <1>1, <2>6, <2>12 DEF IInv, PhaseOrder, SameConn
  <2>18. StreamOrder'
    <3>1. ASSUME Live(conn)', NEW m \in Streams, stream'[m].open, m # n
          PROVE  m = conn.auto /\ a = "closing"
      <4>1. m = conn.auto /\ stream[m].open /\ m # 0
        BY <1>1, <2>9, <2>12, <3>1
           DEF IInv, StreamOrder, Live, Closes, SameConn, ConstantsAssumption
      <4>. QED BY <2>3, <4>1
    <3>. QED BY <2>2, <2>5, <2>6, <2>9, <2>11, <2>12, <3>1
         DEF IInv, StreamOrder, Live, Closes, Moved, SameConn
  <2>19. ASSUME PromiseOrder PROVE PromiseOrder'
    <3>1. FilterOrder'
      BY <1>1, <2>3, <2>5, <2>6, <2>9, <2>12, <2>19
         DEF Moved, PromiseOrder, FilterOrder, Live, SameConn
    <3>. QED BY <1>1, <2>12, <2>19, <3>1 DEF PromiseOrder, SameConn
  <2>. QED BY <2>13, <2>14, <2>15, <2>16, <2>17, <2>18, <2>19 DEF IInv, Kept
<1>. QED BY <1>3, <1>4

----------------------------------------------------------------------------
(* What is left when a turn is over, and what the next one makes of it.    *)

(* The connection is as before but for its URIs and its watch state, whose *)
(* stream is the same.                                                     *)
Like(c, d) ==
  /\ d \in Conn /\ WatchOK(d.watch) /\ d.watch.sub = c.watch.sub /\ d.listen = c.listen
  /\ d.session = c.session /\ d.phase = c.phase /\ d.refreshes = c.refreshes
  /\ d.disconnect = c.disconnect /\ d.auto = c.auto

(* No stream is open but the one that is watched, which is the one in use  *)
(* or the SDK's own.                                                       *)
Sole(c, s) ==
  /\ c.watch.sub # 0 => s[c.watch.sub].open /\ c.watch.sub \in {c.listen, c.auto}
  /\ c.listen # 0 => c.watch.sub = c.listen /\ c.listen # c.auto
  /\ \A n \in Streams : s[n].open => n = c.watch.sub

(* A turn that closes the stream there is leaves none: what only the SDK   *)
(* listens to is wanted by the definition.                                 *)
LEMMA BegunSole ==
  ASSUME IInv, ~Closes, Live(conn), NEW b, Like(conn, b),
         NEW t, NEW u, NEW c, NEW S, IsBegun(t, b, u, c, S), NEW s, Shut(s, S)
  PROVE  Sole(c, s)
<1>1. /\ conn.watch.sub # 0 =>
           stream[conn.watch.sub].open /\ conn.watch.sub \in {conn.listen, conn.auto}
      /\ conn.listen # 0 => conn.watch.sub = conn.listen /\ conn.listen # conn.auto
      /\ \A n \in Streams : stream[n].open => n = conn.watch.sub
      /\ conn.auto # 0 => conn.refreshes
      /\ conn.watch.sub \in Streams \cup {0} /\ 0 \notin Streams
  BY ConstantsAssumption DEF IInv, TypeOK, StreamOrder, Live, Conn, Watch
<1>2. CASE c = b /\ S = {}
  BY <1>1, <1>2 DEF Sole, Shut, Like
<1>3. CASE ~Wanted(b) /\ c.listen = 0 /\ c.watch.sub = 0 /\ S = {b.listen}
  <2>1. conn.auto = 0
    BY <1>1, <1>3 DEF Wanted, Like
  <2>. QED BY <1>1, <1>3, <2>1 DEF Sole, Shut, Like
<1>. QED BY <1>2, <1>3 DEF IsBegun

(* The connection is c, and nobody's turn has reacted yet.                 *)
Goes(c) ==
  /\ turns' \in Seq(Turn) /\ DOMAIN turns \in SUBSET Nat /\ 1 \in DOMAIN turns
  /\ turns' # <<>> => 1 \in DOMAIN turns'
  /\ \A i \in DOMAIN turns' :
       /\ i \in Nat /\ i + 1 \in DOMAIN turns /\ (turns'[i].at = "queued" <=> i # 1)
       /\ turns'[i].owner = turns[i + 1].owner /\ turns'[i].session = turns[i + 1].session
  /\ SameConn(conn, c) /\ WatchOK(c.watch)
  /\ \/ c = conn
     \/ c.listen = 0 /\ c.watch.sub = 0 /\ turns' # <<>> /\ turns'[1].session = conn.session
  /\ turns' # <<>> =>
       \/ turns'[1].at = "skipped" /\ turns'[1].session # conn.session
       \/ turns'[1].at = "opening" /\ turns'[1].session = conn.session /\ turns'[1].uris = conn.uris
       \/ turns'[1].at \in {"applied", "closing"} /\ turns'[1].session = conn.session
          /\ c.listen = 0 /\ c.watch.sub = 0
  /\ \E S : Shut(stream', S)
  /\ Live(conn) => Sole(c, stream')
  /\ sessions' = sessions

LEMMA TurnEndsGoes ==
  ASSUME IInv, TurnEnds
  PROVE  \E c : Goes(c) /\ conn' = Settled(turns[1], c)
<1>1. turns # <<>> /\ Result(turns[1]) /\ sessions' = sessions
  BY DEF TurnEnds
<1>2. /\ turns \in Seq(Turn) /\ conn \in Conn /\ WatchOK(conn.watch)
      /\ 1 \in DOMAIN turns /\ DOMAIN turns = 1..Len(turns) /\ Len(turns) \in Nat \ {0}
  BY <1>1, FirstTurn DEF IInv, TypeOK, SessionOrder, WatchOK, Conn
<1>3. ~Closes
  BY <1>1 DEF Closes, Result
<1>4. CASE ~(Len(turns) > 1)
  <2>1. turns' = <<>> /\ stream' = stream /\ conn' = Settled(turns[1], conn)
    BY <1>1, <1>2, <1>4, LastTurn DEF TurnEnds
  <2>2. DOMAIN turns' = {} /\ turns' \in Seq(Turn)
    BY <2>1
  <2>3. Shut(stream', {})
    BY <2>1, ClosedFields DEF IInv
  <2>4. SameConn(conn, conn)
    BY <1>2 DEF SameConn
  <2>5. Live(conn) => Sole(conn, stream')
    BY <1>3, <2>1 DEF IInv, StreamOrder, Sole
  <2>6. Goes(conn)
    BY <1>1, <1>2, <2>1, <2>2, <2>3, <2>4, <2>5 DEF Goes
  <2>. QED BY <2>1, <2>6
<1>5. CASE Len(turns) > 1
  <2> DEFINE t == turns[2]
  <2>1. t \in Turn /\ t.session # 0
    <3>1. 2 \in DOMAIN turns
      BY <1>2, <1>5
    <3>. QED BY <1>2, <3>1, ElementOfSeq DEF IInv, SessionOrder, TypeOK
  <2>2. PICK u, c, S : u = Begun(t, conn) /\ c = BegunConn(t, conn) /\ S = BegunClosed(t, conn)
    OBVIOUS
  <2>3. IsBegun(t, conn, u, c, S)
    BY <1>2, <2>1, <2>2, BegunFields
  <2>4. /\ turns' = [Tail(turns) EXCEPT ![1] = u] /\ stream' = Closed(S)
        /\ conn' = Settled(turns[1], c)
    BY <1>5, <2>2 DEF TurnEnds, Released
  <2>5. u \in Turn /\ u.owner = t.owner /\ u.session = t.session /\ u.at # "queued"
    BY <2>3 DEF IsBegun
  <2>6. Popped(turns, turns', u)
    BY <1>1, <1>2, <1>5, <2>4, <2>5, PoppedTurn
  <2>7. Shut(stream', S)
    BY <2>4, ClosedFields DEF IInv
  <2>8. Live(conn) => Sole(c, stream')
    <3>1. Like(conn, conn)
      BY <1>2 DEF Like
    <3>. QED BY <1>3, <2>3, <2>7, <3>1, BegunSole
  <2>9. turns' \in Seq(Turn) /\ turns' # <<>> /\ 1 \in DOMAIN turns' /\ turns'[1] = u
    BY <1>5, <2>6 DEF Popped
  <2>10. \A i \in DOMAIN turns' :
           /\ i \in Nat /\ i + 1 \in DOMAIN turns /\ (turns'[i].at = "queued" <=> i # 1)
           /\ turns'[i].owner = turns[i + 1].owner /\ turns'[i].session = turns[i + 1].session
    <3>1. TAKE i \in DOMAIN turns'
    <3>2. CASE i = 1
      BY <1>2, <1>5, <2>5, <2>9, <3>2
    <3>3. CASE i # 1
      <4>1. i \in Nat /\ i # 0 /\ i + 1 \in DOMAIN turns /\ turns'[i] = turns[i + 1] /\ i + 1 # 1
        BY <2>6, <3>1, <3>3 DEF Popped
      <4>2. turns'[i].at = "queued"
        BY <4>1 DEF IInv, QueueOrder
      <4>. QED BY <3>3, <4>1, <4>2
    <3>. QED BY <3>2, <3>3
  <2>11. Goes(c)
    <3>1. SameConn(conn, c) /\ WatchOK(c.watch)
      BY <2>3 DEF IsBegun
    <3>2. \/ c = conn
          \/ c.listen = 0 /\ c.watch.sub = 0 /\ t.session = conn.session
      BY <2>3 DEF IsBegun
    <3>3. \/ u.at = "skipped" /\ u.session # conn.session
          \/ u.at = "opening" /\ u.session = conn.session /\ u.uris = conn.uris
          \/ u.at \in {"applied", "closing"} /\ u.session = conn.session
             /\ c.listen = 0 /\ c.watch.sub = 0
      BY <2>3 DEF IsBegun
    <3>4. DOMAIN turns \in SUBSET Nat
      BY <1>2
    <3>. QED BY <1>1, <1>2, <2>5, <2>7, <2>8, <2>9, <2>10, <3>1, <3>2, <3>3, <3>4 DEF Goes
  <2>. QED BY <2>4, <2>11
<1>. QED BY <1>4, <1>5

(* What the owners of the turns make of the results.                       *)
LEMMA RepairedFields ==
  ASSUME NEW t \in Turn, t.session # 0, NEW c \in Conn, WatchOK(c.watch)
  PROVE  LET d == Repaired(t, c)
         IN  /\ d \in Conn /\ WatchOK(d.watch) /\ d.session = c.session /\ d.phase = "online"
             /\ d.refreshes = c.refreshes /\ d.disconnect = c.disconnect /\ d.uris = c.uris
             /\ d.auto = c.auto /\ d.listen = IF t.at = "failed" THEN 0 ELSE c.listen
             /\ d.watch.sub = IF d.listen = 0 THEN 0 ELSE c.watch.sub
<1>1. t.session \in Nat \ {0} /\ 0 \in Streams \cup {0}
  BY DEF Turn
<1>2. PICK v : v = Watching(c.watch, t.session, 0)
  OBVIOUS
<1>3. WatchOK(v) /\ v.sub = 0
  BY <1>1, <1>2, WatchingOK
<1>4. v.session # 0
  BY <1>1, <1>2 DEF Watching, NoWatch
<1>5. PICK w : w = Scheduled(v)
  OBVIOUS
<1>6. WatchOK(w) /\ w.sub = 0
  BY <1>3, <1>4, <1>5, ScheduledOK
<1>7. PICK d : d = IF t.at # "failed" THEN c ELSE [c EXCEPT !.listen = 0, !.watch = w]
  OBVIOUS
<1>8. /\ d \in Conn /\ WatchOK(d.watch) /\ d.session = c.session
      /\ d.refreshes = c.refreshes /\ d.disconnect = c.disconnect /\ d.uris = c.uris
      /\ d.auto = c.auto /\ d.listen = IF t.at = "failed" THEN 0 ELSE c.listen
      /\ d.listen # 0 => d.watch = c.watch
  BY <1>6, <1>7 DEF Conn, WatchOK
<1>9. PICK x : x = IF d.listen = 0 THEN Watching(d.watch, t.session, 0) ELSE d.watch
  OBVIOUS
<1>10. WatchOK(x) /\ (d.listen = 0 => x.sub = 0) /\ (d.listen # 0 => x = c.watch)
  BY <1>1, <1>8, <1>9, WatchingOK
<1>11. PICK e : e = [d EXCEPT !.watch = x, !.phase = "online"]
  OBVIOUS
<1>12. Repaired(t, c) = e
  BY <1>2, <1>5, <1>7, <1>9, <1>11 DEF Repaired
<1>13. /\ e \in Conn /\ e.watch = x /\ e.session = d.session /\ e.phase = "online"
       /\ e.refreshes = d.refreshes /\ e.disconnect = d.disconnect /\ e.uris = d.uris
       /\ e.auto = d.auto /\ e.listen = d.listen
  BY <1>8, <1>10, <1>11 DEF Conn, WatchOK, Phases
<1>. QED BY <1>8, <1>10, <1>12, <1>13

LEMMA RetriedFields ==
  ASSUME NEW t \in Turn, NEW c \in Conn, WatchOK(c.watch), t.session # 0
  PROVE  Like(c, Retried(t, c)) /\ Retried(t, c).uris = c.uris
<1>1. CASE c.watch.session # t.session
  BY <1>1 DEF Retried, Like
<1>2. CASE c.watch.session = t.session
  <2>1. PICK w : w = IF t.at = "failed" /\ c.session = t.session THEN Scheduled(c.watch) ELSE c.watch
    OBVIOUS
  <2>2. WatchOK(w) /\ w.sub = c.watch.sub /\ w.session # 0
    BY <1>2, <2>1, ScheduledOK
  <2>3. PICK x : x = [w EXCEPT !.reopening = FALSE]
    OBVIOUS
  <2>4. WatchOK(x) /\ x.sub = c.watch.sub
    BY <2>2, <2>3 DEF WatchOK, Watch
  <2>5. Retried(t, c) = [c EXCEPT !.watch = x]
    BY <1>2, <2>1, <2>3 DEF Retried
  <2>. QED BY <2>4, <2>5 DEF Like, Conn, WatchOK
<1>. QED BY <1>1, <1>2

LEMMA RolledBackFields ==
  ASSUME NEW k \in Calls, NEW t, NEW c \in Conn, WatchOK(c.watch)
  PROVE  /\ Like(c, RolledBack(k, t, c))
         /\ RolledBack(k, t, c).uris =
              IF call[k].kind = "subscribe" /\ t.at # "applied" /\ call[k].added
                THEN c.uris \ {call[k].uri} ELSE c.uris
BY DEF RolledBack, Like, Conn

(* The turn of a call or of the retry timer settles.                       *)
LEMMA SettlesKeeps ==
  ASSUME IInv, NEW c, Goes(c), Like(c, conn'), turns[1].owner # "connect",
         call' \in [Calls -> Call], promised' \subseteq Uris,
         \A k \in Calls : call'[k] = IF k = turns[1].owner THEN Idle ELSE call[k]
  PROVE  IInv'
<1>1. /\ conn' \in Conn /\ WatchOK(conn'.watch) /\ conn'.watch.sub = c.watch.sub
      /\ conn'.listen = c.listen /\ conn'.session = conn.session /\ conn'.phase = conn.phase
      /\ conn'.refreshes = conn.refreshes /\ conn'.disconnect = conn.disconnect
      /\ conn'.auto = conn.auto
  BY DEF Goes, Like, SameConn
<1>2. \A i \in DOMAIN turns' :
        /\ i \in Nat /\ i + 1 \in DOMAIN turns /\ (turns'[i].at = "queued" <=> i # 1)
        /\ turns'[i].owner = turns[i + 1].owner /\ turns'[i].session = turns[i + 1].session
  BY DEF Goes
<1>3. TypeOK'
  BY <1>1 DEF IInv, TypeOK, Goes, Shut, WatchOK
<1>4. SessionOrder'
  <2>1. \A m \in Streams : stream'[m].open => conn'.session # 0 /\ stream'[m].session = conn'.session
    BY <1>1 DEF IInv, SessionOrder, Goes, Shut
  <2>2. \A i \in DOMAIN turns' : turns'[i].session \in 1..sessions'
    BY <1>2 DEF IInv, SessionOrder, Goes
  <2>3. conn'.session \in {0, sessions'}
    BY <1>1 DEF IInv, SessionOrder, Goes
  <2>. QED BY <1>1, <2>1, <2>2, <2>3 DEF SessionOrder, WatchOK
<1>5. QueueOrder'
  <2>1. ASSUME NEW i \in DOMAIN turns', turns'[i].owner \in Calls
        PROVE  call'[turns'[i].owner] # Idle
    <3>1. /\ i + 1 \in DOMAIN turns /\ i + 1 # 1 /\ 1 \in DOMAIN turns
          /\ turns'[i].owner = turns[i + 1].owner
      BY <1>2, <2>1 DEF Goes
    <3>2. turns[i + 1].owner # turns[1].owner
      BY <2>1, <3>1, ConstantsAssumption DEF IInv, QueueOrder
    <3>. QED BY <2>1, <3>1, <3>2 DEF IInv, QueueOrder
  <2>2. ASSUME NEW i \in DOMAIN turns', NEW j \in DOMAIN turns',
               turns'[i].owner = turns'[j].owner, turns'[i].owner # "retry"
        PROVE  i = j
    <3>1. i + 1 = j + 1
      BY <1>2, <2>2 DEF IInv, QueueOrder
    <3>. QED BY <1>2, <3>1
  <2>. QED BY <1>2, <2>1, <2>2 DEF QueueOrder
<1>6. c.listen # 0 => c = conn
  BY DEF Goes
<1>7. ConnectOrder'
  <2>1. ASSUME NEW i \in DOMAIN turns', turns'[i].owner = "connect"
        PROVE  /\ turns'[i].session = sessions'
               /\ conn'.session = 0 => conn'.listen = 0
               /\ conn'.session # 0 => conn'.phase = "connecting"
    BY <1>1, <1>2, <1>6, <2>1 DEF IInv, ConnectOrder, Goes
  <2>2. ASSUME conn'.phase = "connecting"
        PROVE  /\ conn'.session # 0 /\ conn'.auto = 0 /\ conn'.watch.sub = conn'.listen
               /\ conn'.listen = 0
    BY <1>1, <2>2 DEF IInv, ConnectOrder, Goes
  <2>3. ASSUME conn'.phase = "connecting", NEW i \in DOMAIN turns', turns'[i].session = conn'.session
        PROVE  turns'[i].owner = "connect"
    BY <1>1, <1>2, <2>3 DEF IInv, ConnectOrder
  <2>. QED BY <2>1, <2>2, <2>3 DEF ConnectOrder
<1>8. PhaseOrder'
  <2>1. \A k \in Calls : call'[k] # Idle => conn'.disconnect \notin {"stream", "client"}
    BY <1>1 DEF IInv, PhaseOrder
  <2>2. conn'.phase = "online" /\ conn'.session = 0 => conn'.listen = 0
    BY <1>1, <1>6 DEF IInv, PhaseOrder
  <2>. QED BY <1>1, <2>1, <2>2 DEF IInv, PhaseOrder
<1>9. StreamOrder'
  <2>1. Closes' => conn'.watch.sub = conn'.listen
    BY <1>1 DEF Closes, Goes
  <2>. QED BY <1>1, <2>1 DEF IInv, StreamOrder, Live, Goes, Sole
<1>. QED BY <1>3, <1>4, <1>5, <1>7, <1>8, <1>9 DEF IInv

LEMMA PromiseSettles ==
  ASSUME IInv, PromiseOrder, NEW c, Goes(c), Like(c, conn'),
         promised' \subseteq conn.uris, promised' \subseteq conn'.uris,
         Live(conn) /\ conn.listen # 0 => promised' \subseteq stream[conn.listen].uris,
         \A k \in Calls : call'[k] \in {Idle, call[k]},
         \A k \in Calls : call'[k].kind = "subscribe" =>
           call'[k].uri \in conn'.uris /\ (call'[k].added => call'[k].uri \notin promised')
  PROVE  PromiseOrder'
<1>1. /\ conn'.listen = c.listen /\ conn'.session = conn.session /\ conn'.phase = conn.phase
      /\ c.listen # 0 => c = conn
  BY DEF Goes, Like, SameConn
<1>2. \A k \in Calls : call'[k].kind = "subscribe" => call'[k] = call[k] /\ call[k].uri \in conn.uris
  BY DEF Idle, PromiseOrder
<1>3. Live(conn') /\ conn'.listen # 0 => promised' \subseteq stream'[conn'.listen].uris
  <2>1. ASSUME c = conn, Live(conn), conn.listen # 0
        PROVE  stream'[conn.listen].uris = stream[conn.listen].uris
    BY <2>1 DEF Goes, Shut, IInv, TypeOK, Conn
  <2>. QED BY <1>1, <2>1 DEF Live
<1>4. FilterOrder'
  BY <1>1, <1>2, <1>3 DEF FilterOrder, Goes
<1>. QED BY <1>4 DEF PromiseOrder

(* The connect is over: its turn was the only one of the session.          *)
LEMMA ConnectSettles ==
  ASSUME IInv, NEW c, Goes(c), conn' = Repaired(turns[1], c), turns[1].owner = "connect",
         Result(turns[1]), turns[1] \in Turn, UNCHANGED <<call, promised>>
  PROVE  Kept
<1> DEFINE t == turns[1]
<1>1. /\ 1 \in DOMAIN turns /\ turns # <<>> /\ t.session = sessions
      /\ sessions \in Nat \ {0} /\ sessions' = sessions
  BY DEF Goes, IInv, ConnectOrder, SessionOrder, TypeOK
<1>2. \A i \in DOMAIN turns' :
        /\ i \in Nat /\ i + 1 \in DOMAIN turns /\ (turns'[i].at = "queued" <=> i # 1)
        /\ turns'[i].owner = turns[i + 1].owner /\ turns'[i].session = turns[i + 1].session
  BY DEF Goes
<1>3. \A i \in DOMAIN turns' : turns'[i].owner # "connect"
  BY <1>1, <1>2 DEF IInv, QueueOrder
<1>4. \A i \in DOMAIN turns' : conn.session # 0 => turns'[i].session # conn.session
  BY <1>1, <1>2, <1>3 DEF IInv, ConnectOrder
<1>5. c = conn
  <2>1. CASE conn.session = 0
    BY <1>2, <2>1 DEF Goes, IInv, SessionOrder
  <2>2. CASE conn.session # 0
    BY <1>4, <2>2 DEF Goes
  <2>. QED BY <2>1, <2>2
<1>6. /\ conn' \in Conn /\ WatchOK(conn'.watch) /\ conn'.session = conn.session
      /\ conn'.phase = "online" /\ conn'.refreshes = conn.refreshes
      /\ conn'.disconnect = conn.disconnect /\ conn'.uris = conn.uris /\ conn'.auto = conn.auto
      /\ conn'.listen = (IF t.at = "failed" THEN 0 ELSE conn.listen)
      /\ conn'.watch.sub = IF conn'.listen = 0 THEN 0 ELSE conn.watch.sub
  <2>1. c \in Conn /\ WatchOK(c.watch) /\ t.session # 0
    BY <1>1 DEF Goes, SameConn
  <2>. QED BY <1>5, <2>1, RepairedFields
<1>7. conn.session = 0 => conn.listen = 0
  BY <1>1 DEF IInv, ConnectOrder
<1>8. conn.session # 0 =>
        /\ conn.phase = "connecting" /\ conn.auto = 0 /\ conn.watch.sub = conn.listen
        /\ conn'.listen = conn.listen
  BY <1>1, <1>6 DEF IInv, ConnectOrder
<1>9. TypeOK'
  BY <1>1, <1>6 DEF IInv, TypeOK, Goes, Shut, WatchOK
<1>10. SessionOrder'
  <2>1. \A m \in Streams : stream'[m].open => conn'.session # 0 /\ stream'[m].session = conn'.session
    BY <1>6 DEF IInv, SessionOrder, Goes, Shut
  <2>2. \A i \in DOMAIN turns' : turns'[i].session \in 1..sessions'
    BY <1>1, <1>2 DEF IInv, SessionOrder
  <2>3. conn'.session \in {0, sessions'}
    BY <1>1, <1>6 DEF IInv, SessionOrder
  <2>. QED BY <1>6, <2>1, <2>2, <2>3 DEF SessionOrder, WatchOK
<1>11. QueueOrder'
  <2>1. ASSUME NEW i \in DOMAIN turns', turns'[i].owner \in Calls
        PROVE  call'[turns'[i].owner] # Idle
    BY <1>2, <2>1 DEF IInv, QueueOrder
  <2>2. ASSUME NEW i \in DOMAIN turns', NEW j \in DOMAIN turns',
               turns'[i].owner = turns'[j].owner, turns'[i].owner # "retry"
        PROVE  i = j
    <3>1. i + 1 = j + 1
      BY <1>2, <2>2 DEF IInv, QueueOrder
    <3>. QED BY <1>2, <3>1
  <2>. QED BY <1>2, <2>1, <2>2 DEF QueueOrder
<1>12. ConnectOrder'
  BY <1>3, <1>6 DEF ConnectOrder
<1>13. PhaseOrder'
  BY <1>6, <1>7, <1>8 DEF IInv, PhaseOrder
<1>14. ~Closes'
  <2>1. turns' # <<>> => turns'[1].session # conn.session
    BY <1>2, <1>4 DEF Goes, IInv, SessionOrder
  <2>. QED BY <1>6, <2>1 DEF Closes
<1>15. StreamOrder'
  <2>1. Live(conn) => Sole(conn, stream')
    BY <1>5 DEF Goes
  <2>2. conn.session # 0 => Live(conn)
    BY <1>8 DEF Live
  <2>3. conn'.session # 0 /\ conn'.auto # 0 => conn'.refreshes
    BY <1>6 DEF IInv, StreamOrder
  <2>. QED BY <1>6, <1>8, <1>14, <2>1, <2>2, <2>3 DEF StreamOrder, Sole, Live
<1>16. ASSUME PromiseOrder PROVE PromiseOrder'
  <2>1. ASSUME turns' # <<>>
        PROVE  turns'[1].at \notin {"opening", "closing", "applied"}
    <3>1. turns'[1].session # conn.session
      BY <1>2, <1>4, <2>1 DEF Goes, IInv, SessionOrder
    <3>. QED BY <2>1, <3>1 DEF Goes
  <2>2. Live(conn') /\ conn'.listen # 0 => promised' \subseteq stream'[conn'.listen].uris
    <3>1. conn.listen # 0 => stream'[conn.listen].uris = stream[conn.listen].uris
      BY DEF Goes, Shut, IInv, TypeOK, Conn
    <3>. QED BY <1>6, <1>8, <1>16, <3>1 DEF Live, PromiseOrder, FilterOrder
  <2>3. FilterOrder'
    BY <2>1, <2>2 DEF FilterOrder
  <2>. QED BY <1>6, <1>16, <2>3 DEF PromiseOrder
<1>. QED BY <1>9, <1>10, <1>11, <1>12, <1>13, <1>15, <1>16 DEF IInv, Kept

LEMMA TurnEndsKeeps ==
  ASSUME IInv, TurnEnds
  PROVE  Kept
<1> DEFINE t == turns[1]
<1>1. PICK c : Goes(c) /\ conn' = Settled(t, c)
  BY TurnEndsGoes
<1>2. /\ turns # <<>> /\ Result(t) /\ turns \in Seq(Turn) /\ call \in [Calls -> Call]
      /\ promised \subseteq Uris
  BY DEF TurnEnds, IInv, TypeOK
<1>3. t \in Turn /\ 1 \in DOMAIN turns
  BY <1>2, FirstTurn
<1>4. /\ t.session # 0 /\ c \in Conn /\ WatchOK(c.watch) /\ c.uris = conn.uris
      /\ t.owner \in {"connect", "retry"} \cup Calls
  BY <1>1, <1>3 DEF Goes, SameConn, IInv, SessionOrder, TypeOK, Turn
<1>5. CASE t.owner = "connect"
  <2>1. conn' = Repaired(t, c) /\ UNCHANGED <<call, promised>>
    BY <1>1, <1>5, ConstantsAssumption DEF TurnEnds, Settled
  <2>. QED BY <1>1, <1>2, <1>3, <1>5, <2>1, ConnectSettles
<1>6. CASE t.owner = "retry"
  <2>1. conn' = Retried(t, c) /\ UNCHANGED <<call, promised>> /\ t.owner \notin Calls
    BY <1>1, <1>6, ConstantsAssumption DEF TurnEnds, Settled
  <2>2. Like(c, conn') /\ conn'.uris = conn.uris
    BY <1>3, <1>4, <2>1, RetriedFields
  <2>3. IInv'
    BY <1>1, <1>2, <1>6, <2>1, <2>2, SettlesKeeps
  <2>4. ASSUME PromiseOrder PROVE PromiseOrder'
    <3>1. /\ promised \subseteq conn.uris
          /\ Live(conn) /\ conn.listen # 0 => promised \subseteq stream[conn.listen].uris
          /\ \A k \in Calls : call[k].kind = "subscribe" =>
               call[k].uri \in conn.uris /\ (call[k].added => call[k].uri \notin promised)
      BY <2>4 DEF PromiseOrder, FilterOrder
    <3>. QED BY <1>1, <2>1, <2>2, <2>4, <3>1, PromiseSettles
  <2>. QED BY <2>3, <2>4 DEF Kept
<1>7. CASE t.owner \in Calls
  <2> DEFINE k == t.owner
             back == call[k].kind = "subscribe" /\ t.at # "applied" /\ call[k].added
             done == call[k].kind = "subscribe" /\ t.at = "applied"
  <2>1. /\ conn' = RolledBack(k, t, c) /\ call' = [call EXCEPT ![k] = Idle]
        /\ promised' = IF done THEN promised \cup {call[k].uri} ELSE promised
    BY <1>1, <1>7, ConstantsAssumption DEF TurnEnds, Settled
  <2>2. /\ Like(c, conn')
        /\ conn'.uris = IF back THEN conn.uris \ {call[k].uri} ELSE conn.uris
    <3>1. k \in Calls /\ c \in Conn /\ WatchOK(c.watch)
      BY <1>4, <1>7
    <3>2. /\ Like(c, RolledBack(k, t, c))
          /\ RolledBack(k, t, c).uris = IF back THEN c.uris \ {call[k].uri} ELSE c.uris
      BY <3>1, RolledBackFields
    <3>. QED BY <1>4, <2>1, <3>2
  <2>3. /\ call' \in [Calls -> Call]
        /\ \A l \in Calls : call'[l] = IF l = k THEN Idle ELSE call[l]
    BY <1>2, <1>7, <2>1 DEF Call
  <2>4. done => call[k].uri \in Uris
    BY <1>2, <1>7 DEF Call, Idle
  <2>5. IInv'
    <3>1. promised' \subseteq Uris /\ t.owner # "connect"
      BY <1>2, <1>7, <2>1, <2>4, ConstantsAssumption
    <3>. QED BY <1>1, <2>2, <2>3, <3>1, SettlesKeeps
  <2>6. ASSUME OwnUris, PromiseOrder PROVE PromiseOrder'
    <3>1. /\ promised \subseteq conn.uris
          /\ Live(conn) /\ conn.listen # 0 => promised \subseteq stream[conn.listen].uris
          /\ \A l \in Calls : call[l].kind = "subscribe" =>
               call[l].uri \in conn.uris /\ (call[l].added => call[l].uri \notin promised)
      BY <2>6 DEF PromiseOrder, FilterOrder
    <3>2. ASSUME NEW l \in Calls, l # k, call[l] # Idle, call[k] # Idle
          PROVE  call[l].uri # call[k].uri
      <4>1. /\ \E x \in Kinds : <<x, call[l].uri>> \in Asks[l]
            /\ \E x \in Kinds : <<x, call[k].uri>> \in Asks[k]
        BY <1>7, <2>6, <3>2 DEF PromiseOrder
      <4>2. call[l] \in Call /\ call[l].uri \in Uris
        BY <1>2, <3>2 DEF Call
      <4>. QED BY <1>7, <2>6, <3>2, <4>1, <4>2 DEF OwnUris
    <3>3. promised' \subseteq conn.uris /\ promised' \subseteq conn'.uris
      BY <1>7, <2>1, <2>2, <3>1
    <3>4. Live(conn) /\ conn.listen # 0 => promised' \subseteq stream[conn.listen].uris
      <4>1. Live(conn) /\ conn.listen # 0 /\ done => call[k].uri \in stream[conn.listen].uris
        BY <1>2, <1>7, <2>6 DEF PromiseOrder, FilterOrder
      <4>. QED BY <2>1, <3>1, <4>1
    <3>5. \A l \in Calls : call'[l] \in {Idle, call[l]}
      BY <2>3
    <3>6. ASSUME NEW l \in Calls, call'[l].kind = "subscribe"
          PROVE  call'[l].uri \in conn'.uris /\ (call'[l].added => call'[l].uri \notin promised')
      <4>1. l # k /\ call'[l] = call[l] /\ call[l] # Idle
        BY <2>3, <3>6 DEF Idle
      <4>2. call[k] # Idle => call[l].uri # call[k].uri
        BY <3>2, <4>1
      <4>3. back \/ done => call[k] # Idle
        BY DEF Idle
      <4>. QED BY <2>1, <2>2, <3>1, <3>6, <4>1, <4>2, <4>3
    <3>. QED BY <1>1, <2>2, <2>6, <3>3, <3>4, <3>5, <3>6, PromiseSettles
  <2>. QED BY <2>5, <2>6 DEF Kept
<1>. QED BY <1>4, <1>5, <1>6, <1>7

----------------------------------------------------------------------------
(* Another turn is asked for.                                              *)
LEMMA RelistenTurn ==
  ASSUME NEW b \in Conn, b.session # 0, NEW owner \in {"connect", "retry"} \cup Calls,
         WatchOK(b.watch), turns \in Seq(Turn), TypeOK, Relisten(owner, b)
  PROVE  \E t, u, S :
           /\ t \in Turn /\ t.owner = owner /\ t.session = b.session /\ t.at = "queued"
           /\ turns = <<>> => /\ IsBegun(t, b, u, conn', S) /\ Shut(stream', S)
                              /\ turns' = <<u>> /\ u \in Turn
           /\ turns # <<>> => Pushed(turns, turns', t) /\ conn' = b /\ stream' = stream
<1>1. PICK t : t = [owner |-> owner, session |-> b.session, at |-> "queued", previous |-> 0,
                    uris |-> {}]
  OBVIOUS
<1>2. t \in Turn /\ t.owner = owner /\ t.session = b.session /\ t.at = "queued"
  BY <1>1 DEF Turn, TurnAt, Conn
<1>3. PICK u, d, S : u = Begun(t, b) /\ d = BegunConn(t, b) /\ S = BegunClosed(t, b)
  OBVIOUS
<1>4. IsBegun(t, b, u, d, S)
  BY <1>2, <1>3, BegunFields
<1>5. turns = <<>> => turns' = <<u>> /\ conn' = d /\ stream' = Closed(S)
  BY <1>1, <1>3 DEF Relisten
<1>6. turns # <<>> => turns' = Append(turns, t) /\ conn' = b /\ stream' = stream
  BY <1>1 DEF Relisten
<1>7. turns # <<>> => Pushed(turns, turns', t)
  BY <1>2, <1>6, PushedTurn
<1>8. turns = <<>> => Shut(stream', S)
  BY <1>5, ClosedFields
<1>9. u \in Turn
  BY <1>4 DEF IsBegun
<1>. QED BY <1>2, <1>4, <1>5, <1>6, <1>7, <1>8, <1>9

(* By a call, or by the retry timer, of a connection that is online.       *)
LEMMA RelistenKeeps ==
  ASSUME IInv, NEW b, Like(conn, b), conn.phase = "online", conn.session # 0,
         conn.disconnect = "none", NEW owner \in {"retry"} \cup Calls, Relisten(owner, b),
         owner \in Calls => call'[owner] # Idle,
         \A i \in DOMAIN turns : turns[i].owner \in Calls => turns[i].owner # owner,
         call' \in [Calls -> Call], \A k \in Calls : k # owner => call'[k] = call[k],
         promised' \subseteq promised, sessions' = sessions
  PROVE  /\ IInv'
         /\ /\ PromiseOrder
            /\ promised' \subseteq b.uris
            /\ \A k \in Calls : call'[k] # Idle => \E x \in Kinds : <<x, call'[k].uri>> \in Asks[k]
            /\ \A k \in Calls : call'[k].kind = "subscribe" =>
                 call'[k].uri \in b.uris /\ (call'[k].added => call'[k].uri \notin promised')
            => PromiseOrder'
<1>1. /\ b \in Conn /\ b.session = conn.session /\ WatchOK(b.watch) /\ turns \in Seq(Turn) /\ TypeOK
      /\ b.phase = conn.phase /\ b.disconnect = conn.disconnect /\ b.listen = conn.listen
      /\ b.watch.sub = conn.watch.sub /\ b.auto = conn.auto /\ b.refreshes = conn.refreshes
      /\ owner # "connect" /\ owner \in {"connect", "retry"} \cup Calls
  BY ConstantsAssumption DEF Like, IInv, TypeOK
<1>2. PICK t, u, S :
        /\ t \in Turn /\ t.owner = owner /\ t.session = conn.session /\ t.at = "queued"
        /\ turns = <<>> => /\ IsBegun(t, b, u, conn', S) /\ Shut(stream', S)
                           /\ turns' = <<u>> /\ u \in Turn
        /\ turns # <<>> => Pushed(turns, turns', t) /\ conn' = b /\ stream' = stream
  BY <1>1, RelistenTurn
<1>3. /\ conn' \in Conn /\ WatchOK(conn'.watch) /\ conn'.session = conn.session
      /\ conn'.phase = "online" /\ conn'.refreshes = conn.refreshes
      /\ conn'.disconnect = "none" /\ conn'.auto = conn.auto /\ conn'.uris = b.uris
      /\ conn'.listen \in {0, conn.listen}
  BY <1>1, <1>2 DEF IsBegun, SameConn
<1>4. \E R : Shut(stream', R)
  BY <1>1, <1>2, ClosedFields
<1>5. turns = <<>> =>
        /\ turns' \in Seq(Turn) /\ DOMAIN turns' = {1} /\ turns' # <<>> /\ turns'[1] = u
        /\ u.owner = owner /\ u.session = conn.session
        /\ \/ u.at = "opening" /\ u.uris = b.uris /\ conn' = b
           \/ u.at \in {"applied", "closing"} /\ conn'.listen = 0 /\ conn'.watch.sub = 0
  BY <1>1, <1>2, OneTurn DEF IsBegun
<1>6. turns # <<>> =>
        /\ turns' \in Seq(Turn) /\ turns' # <<>> /\ turns'[1] = turns[1] /\ 1 \in DOMAIN turns
        /\ Len(turns) \in Nat \ {0} /\ DOMAIN turns = 1..Len(turns)
        /\ DOMAIN turns' = 1..(Len(turns) + 1) /\ turns'[Len(turns) + 1] = t
        /\ \A i \in DOMAIN turns : turns'[i] = turns[i]
  BY <1>2 DEF Pushed
<1>7. \A i \in DOMAIN turns' :
        \/ i \in DOMAIN turns /\ turns'[i] = turns[i] /\ turns # <<>>
        \/ /\ i \notin DOMAIN turns /\ turns'[i].owner = owner /\ turns'[i].session = conn.session
           /\ (turns'[i].at = "queued" <=> i # 1)
  <2>1. CASE turns = <<>>
    BY <1>5, <2>1
  <2>2. CASE turns # <<>>
    BY <1>2, <1>6, <2>2
  <2>. QED BY <2>1, <2>2
<1>8. \A i, j \in DOMAIN turns' : i \notin DOMAIN turns /\ j \notin DOMAIN turns => i = j
  <2>1. CASE turns = <<>>
    BY <1>5, <2>1
  <2>2. CASE turns # <<>>
    BY <1>6, <2>2
  <2>. QED BY <2>1, <2>2
<1>9. TypeOK'
  BY <1>3, <1>4, <1>5, <1>6 DEF IInv, TypeOK, Shut, WatchOK
<1>10. SessionOrder'
  <2>1. \A m \in Streams : stream'[m].open => conn'.session # 0 /\ stream'[m].session = conn'.session
    BY <1>3, <1>4 DEF IInv, SessionOrder, Shut
  <2>2. \A i \in DOMAIN turns' : turns'[i].session \in 1..sessions'
    <3>1. conn.session \in 1..sessions
      BY DEF IInv, SessionOrder, TypeOK
    <3>. QED BY <1>7, <3>1 DEF IInv, SessionOrder
  <2>3. conn'.session \in {0, sessions'}
    BY <1>3 DEF IInv, SessionOrder
  <2>. QED BY <1>3, <2>1, <2>2, <2>3 DEF SessionOrder, WatchOK
<1>11. QueueOrder'
  <2>1. ASSUME NEW i \in DOMAIN turns', NEW j \in DOMAIN turns',
               turns'[i].owner = turns'[j].owner, turns'[i].owner # "retry"
        PROVE  i = j
    BY <1>7, <1>8, <2>1 DEF IInv, QueueOrder
  <2>2. ASSUME NEW i \in DOMAIN turns', turns'[i].owner \in Calls
        PROVE  call'[turns'[i].owner] # Idle
    BY <1>7, <2>2 DEF IInv, QueueOrder
  <2>3. \A i \in DOMAIN turns' : turns'[i].at = "queued" <=> i # 1
    BY <1>7 DEF IInv, QueueOrder
  <2>. QED BY <2>1, <2>2, <2>3 DEF QueueOrder
<1>12. ConnectOrder'
  <2>1. \A i \in DOMAIN turns' : turns'[i].owner # "connect"
    BY <1>1, <1>7 DEF IInv, ConnectOrder
  <2>. QED BY <1>3, <2>1 DEF ConnectOrder
<1>13. PhaseOrder'
  BY <1>3 DEF PhaseOrder
<1>14. StreamOrder'
  <2>1. Live(conn)
    BY DEF Live
  <2>2. CASE turns = <<>>
    <3>1. ~Closes
      BY <2>2 DEF Closes
    <3>2. Sole(conn', stream')
      BY <1>2, <2>1, <2>2, <3>1, BegunSole
    <3>3. Closes' => conn'.watch.sub = 0 /\ conn'.listen = 0
      BY <1>5, <2>2 DEF Closes
    <3>. QED BY <1>3, <3>2, <3>3 DEF StreamOrder, Sole, IInv
  <2>3. CASE turns # <<>>
    <3>1. conn' = b /\ stream' = stream /\ (Closes' <=> Closes)
      BY <1>1, <1>2, <1>6, <2>3 DEF Closes
    <3>. QED BY <1>1, <2>1, <3>1 DEF StreamOrder, Live, IInv
  <2>. QED BY <2>2, <2>3
<1>15. ASSUME PromiseOrder, promised' \subseteq b.uris,
              \A k \in Calls : call'[k] # Idle => \E x \in Kinds : <<x, call'[k].uri>> \in Asks[k],
              \A k \in Calls : call'[k].kind = "subscribe" =>
                call'[k].uri \in b.uris /\ (call'[k].added => call'[k].uri \notin promised')
       PROVE  PromiseOrder'
  <2>1. Live(conn') /\ conn'.listen # 0 => promised' \subseteq stream'[conn'.listen].uris
    <3>1. conn.listen # 0 => stream'[conn.listen].uris = stream[conn.listen].uris
      BY <1>1, <1>4 DEF Shut, Conn
    <3>. QED BY <1>3, <1>15, <3>1 DEF Live, PromiseOrder, FilterOrder
  <2>2. FilterOrder'
    <3>1. CASE turns = <<>>
      BY <1>5, <1>15, <2>1, <3>1 DEF FilterOrder
    <3>2. CASE turns # <<>>
      <4>1. /\ turns'[1] = turns[1] /\ conn' = b /\ stream' = stream
            /\ turns[1].owner \in Calls => call'[turns[1].owner] = call[turns[1].owner]
        BY <1>2, <1>6, <3>2
      <4>. QED BY <1>1, <1>15, <2>1, <3>2, <4>1 DEF FilterOrder, PromiseOrder, Live
    <3>. QED BY <3>1, <3>2
  <2>. QED BY <1>3, <1>15, <2>2 DEF PromiseOrder
<1>. QED BY <1>9, <1>10, <1>11, <1>12, <1>13, <1>14, <1>15 DEF IInv

LEMMA SubscribeKeeps ==
  ASSUME IInv, NEW k \in Calls, NEW u \in Uris, <<"subscribe", u>> \in Asks[k],
         SubscribeResource(k, u)
  PROVE  Kept
<1>1. /\ call[k] = Idle /\ conn.phase = "online" /\ conn.session # 0 /\ conn.disconnect = "none"
      /\ UNCHANGED <<promised, sessions>>
  BY DEF SubscribeResource, Admitted, Usable
<1>2. PICK added \in BOOLEAN : added = (u \notin conn.uris)
  OBVIOUS
<1>3. PICK r : r = [kind |-> "subscribe", uri |-> u, added |-> added]
  OBVIOUS
<1>4. PICK b : b = [conn EXCEPT !.uris = @ \cup {u}]
  OBVIOUS
<1>5. call' = [call EXCEPT ![k] = r] /\ Relisten(k, b)
  BY <1>2, <1>3, <1>4 DEF SubscribeResource
<1>6. r \in Call /\ r.kind = "subscribe" /\ r.uri = u /\ r.added = added /\ r # Idle
  BY <1>2, <1>3 DEF Call, Kinds, Idle
<1>7. Like(conn, b) /\ b.uris = conn.uris \cup {u}
  BY <1>4 DEF Like, IInv, TypeOK, SessionOrder, Conn, WatchOK
<1>8. call' \in [Calls -> Call] /\ call'[k] = r /\ \A l \in Calls : l # k => call'[l] = call[l]
  BY <1>5, <1>6 DEF IInv, TypeOK
<1>9. \A i \in DOMAIN turns : turns[i].owner \in Calls => turns[i].owner # k
  BY <1>1 DEF IInv, QueueOrder
<1>10. /\ IInv'
       /\ /\ PromiseOrder
          /\ promised' \subseteq b.uris
          /\ \A l \in Calls : call'[l] # Idle => \E x \in Kinds : <<x, call'[l].uri>> \in Asks[l]
          /\ \A l \in Calls : call'[l].kind = "subscribe" =>
               call'[l].uri \in b.uris /\ (call'[l].added => call'[l].uri \notin promised')
          => PromiseOrder'
  <2>1. call'[k] # Idle /\ promised' \subseteq promised /\ sessions' = sessions
    BY <1>1, <1>6, <1>8
  <2>. QED BY <1>1, <1>5, <1>7, <1>8, <1>9, <2>1, RelistenKeeps
<1>11. ASSUME PromiseOrder PROVE PromiseOrder'
  <2>1. promised' \subseteq b.uris
    BY <1>1, <1>7, <1>11 DEF PromiseOrder
  <2>2. \A l \in Calls : call'[l] # Idle => \E x \in Kinds : <<x, call'[l].uri>> \in Asks[l]
    BY <1>6, <1>8, <1>11 DEF PromiseOrder, Kinds
  <2>3. \A l \in Calls : call'[l].kind = "subscribe" =>
          call'[l].uri \in b.uris /\ (call'[l].added => call'[l].uri \notin promised')
    BY <1>1, <1>2, <1>6, <1>7, <1>8, <1>11 DEF PromiseOrder
  <2>. QED BY <1>10, <1>11, <2>1, <2>2, <2>3
<1>. QED BY <1>10, <1>11 DEF Kept

LEMMA UnsubscribeKeeps ==
  ASSUME IInv, NEW k \in Calls, NEW u \in Uris, <<"unsubscribe", u>> \in Asks[k],
         UnsubscribeResource(k, u)
  PROVE  Kept
<1>1. /\ call[k] = Idle /\ conn.phase = "online" /\ conn.session # 0 /\ conn.disconnect = "none"
      /\ promised' = promised \ {u} /\ sessions' = sessions
  BY DEF UnsubscribeResource, Admitted, Usable
<1>2. PICK r : r = [kind |-> "unsubscribe", uri |-> u, added |-> FALSE]
  OBVIOUS
<1>3. PICK b : b = [conn EXCEPT !.uris = @ \ {u}]
  OBVIOUS
<1>4. call' = [call EXCEPT ![k] = r] /\ Relisten(k, b)
  BY <1>2, <1>3 DEF UnsubscribeResource
<1>5. r \in Call /\ r.kind = "unsubscribe" /\ r.uri = u /\ r # Idle
  BY <1>2 DEF Call, Kinds, Idle
<1>6. Like(conn, b) /\ b.uris = conn.uris \ {u}
  BY <1>3 DEF Like, IInv, TypeOK, SessionOrder, Conn, WatchOK
<1>7. call' \in [Calls -> Call] /\ call'[k] = r /\ \A l \in Calls : l # k => call'[l] = call[l]
  BY <1>4, <1>5 DEF IInv, TypeOK
<1>8. \A i \in DOMAIN turns : turns[i].owner \in Calls => turns[i].owner # k
  BY <1>1 DEF IInv, QueueOrder
<1>9. /\ IInv'
      /\ /\ PromiseOrder
         /\ promised' \subseteq b.uris
         /\ \A l \in Calls : call'[l] # Idle => \E x \in Kinds : <<x, call'[l].uri>> \in Asks[l]
         /\ \A l \in Calls : call'[l].kind = "subscribe" =>
              call'[l].uri \in b.uris /\ (call'[l].added => call'[l].uri \notin promised')
         => PromiseOrder'
  <2>1. call'[k] # Idle /\ promised' \subseteq promised
    BY <1>1, <1>5, <1>7
  <2>. QED BY <1>1, <1>4, <1>6, <1>7, <1>8, <2>1, RelistenKeeps
<1>10. ASSUME OwnUris, PromiseOrder PROVE PromiseOrder'
  <2>1. promised' \subseteq b.uris
    BY <1>1, <1>6, <1>10 DEF PromiseOrder
  <2>2. \A l \in Calls : call'[l] # Idle => \E x \in Kinds : <<x, call'[l].uri>> \in Asks[l]
    BY <1>5, <1>7, <1>10 DEF PromiseOrder, Kinds
  <2>3. ASSUME NEW l \in Calls, call'[l].kind = "subscribe"
        PROVE  call'[l].uri \in b.uris /\ (call'[l].added => call'[l].uri \notin promised')
    <3>1. l # k /\ call'[l] = call[l] /\ call[l] # Idle
      BY <1>5, <1>7, <2>3 DEF Idle
    <3>2. call[l].uri # u
      <4>1. \E x \in Kinds : <<x, call[l].uri>> \in Asks[l]
        BY <1>10, <3>1 DEF PromiseOrder
      <4>. QED BY <1>10, <3>1, <4>1 DEF OwnUris, Kinds
    <3>. QED BY <1>1, <1>6, <1>10, <2>3, <3>1, <3>2 DEF PromiseOrder
  <2>. QED BY <1>9, <1>10, <2>1, <2>2, <2>3
<1>. QED BY <1>9, <1>10 DEF Kept

(* Nothing that matters but the watch state is written.                    *)
LEMMA WatchKeeps ==
  ASSUME IInv, Like(conn, conn'), conn'.uris = conn.uris,
         UNCHANGED <<stream, turns, call, promised, sessions>>
  PROVE  Kept
<1>1. /\ conn' \in Conn /\ WatchOK(conn'.watch) /\ conn'.watch.sub = conn.watch.sub
      /\ conn'.listen = conn.listen /\ conn'.session = conn.session /\ conn'.phase = conn.phase
      /\ conn'.refreshes = conn.refreshes /\ conn'.disconnect = conn.disconnect
      /\ conn'.auto = conn.auto
  BY DEF Like
<1>2. TypeOK'
  BY <1>1 DEF IInv, TypeOK, WatchOK
<1>3. SessionOrder'
  BY <1>1 DEF IInv, SessionOrder, WatchOK
<1>4. QueueOrder' /\ PhaseOrder'
  BY <1>1 DEF IInv, QueueOrder, PhaseOrder
<1>5. ConnectOrder'
  BY <1>1 DEF IInv, ConnectOrder
<1>6. StreamOrder'
  BY <1>1 DEF IInv, StreamOrder, Live, Closes
<1>7. ASSUME PromiseOrder PROVE PromiseOrder'
  BY <1>1, <1>7 DEF PromiseOrder, FilterOrder, Live
<1>. QED BY <1>2, <1>3, <1>4, <1>5, <1>6, <1>7 DEF IInv, Kept

LEMMA TimerKeeps ==
  ASSUME IInv, TimerFires
  PROVE  Kept
<1> DEFINE idle == conn.session # conn.watch.session \/ conn.disconnect # "none"
                   \/ conn.watch.sub # 0
<1>1. conn.watch.timer /\ UNCHANGED <<call, promised, sessions>>
  BY DEF TimerFires
<1>2. conn \in Conn /\ WatchOK(conn.watch) /\ conn.watch.session # 0 /\ ~conn.watch.reopening
  BY <1>1 DEF IInv, TypeOK, SessionOrder, WatchOK, Conn, NoWatch
<1>3. PICK w : w = [conn.watch EXCEPT !.timer = FALSE]
  OBVIOUS
<1>4. /\ WatchOK(w) /\ w.sub = conn.watch.sub /\ w.session = conn.watch.session /\ ~w.timer
      /\ w.session # 0
  BY <1>2, <1>3 DEF WatchOK, Watch
<1>5. PICK x : x = [w EXCEPT !.reopening = TRUE]
  OBVIOUS
<1>6. WatchOK(x) /\ x.sub = conn.watch.sub
  BY <1>4, <1>5 DEF WatchOK, Watch
<1>7. CASE idle
  <2>1. conn' = [conn EXCEPT !.watch = w] /\ UNCHANGED <<turns, stream>>
    BY <1>3, <1>4, <1>7 DEF TimerFires
  <2>2. Like(conn, conn') /\ conn'.uris = conn.uris
    BY <1>2, <1>4, <2>1 DEF Like, Conn, WatchOK
  <2>. QED BY <1>1, <2>1, <2>2, WatchKeeps
<1>8. CASE ~idle /\ ~Usable
  <2>1. UNCHANGED <<conn, turns, stream>>
    BY <1>3, <1>4, <1>8 DEF TimerFires
  <2>2. Like(conn, conn') /\ conn'.uris = conn.uris
    BY <1>2, <2>1 DEF Like
  <2>. QED BY <1>1, <2>1, <2>2, WatchKeeps
<1>9. CASE ~idle /\ Usable
  <2>1. PICK b : b = [conn EXCEPT !.watch = x]
    OBVIOUS
  <2>2. Relisten("retry", b)
    <3>1. b = [[conn EXCEPT !.watch = w] EXCEPT !.watch.reopening = TRUE]
      BY <1>2, <1>5, <2>1 DEF Conn
    <3>. QED BY <1>3, <1>4, <1>9, <3>1 DEF TimerFires
  <2>3. Like(conn, b) /\ b.uris = conn.uris
    BY <1>2, <1>6, <2>1 DEF Like, Conn, WatchOK
  <2>4. /\ conn.phase = "online" /\ conn.session # 0 /\ conn.disconnect = "none"
        /\ call' \in [Calls -> Call] /\ \A k \in Calls : k # "retry" => call'[k] = call[k]
        /\ promised' \subseteq promised /\ sessions' = sessions /\ "retry" \notin Calls
    BY <1>1, <1>4, <1>9, ConstantsAssumption DEF Usable, IInv, TypeOK
  <2>5. \A i \in DOMAIN turns : turns[i].owner \in Calls => turns[i].owner # "retry"
    BY <2>4
  <2>6. /\ IInv'
        /\ /\ PromiseOrder
           /\ promised' \subseteq b.uris
           /\ \A l \in Calls : call'[l] # Idle => \E y \in Kinds : <<y, call'[l].uri>> \in Asks[l]
           /\ \A l \in Calls : call'[l].kind = "subscribe" =>
                call'[l].uri \in b.uris /\ (call'[l].added => call'[l].uri \notin promised')
           => PromiseOrder'
    BY <2>2, <2>3, <2>4, <2>5, RelistenKeeps
  <2>7. ASSUME PromiseOrder PROVE PromiseOrder'
    BY <1>1, <2>3, <2>6, <2>7 DEF PromiseOrder
  <2>. QED BY <2>6, <2>7 DEF Kept
<1>. QED BY <1>7, <1>8, <1>9

----------------------------------------------------------------------------
(* Sessions come and go.                                                   *)

(* A session is installed whose stream, if it has one, is the SDK's.       *)
LEMMA InstallKeeps ==
  ASSUME IInv, conn.session = 0, ~Connecting, conn.disconnect = "none",
         \A k \in Calls : call[k] = Idle, sessions < MaxSessions,
         sessions' = sessions + 1, promised' = {}, UNCHANGED <<turns, call>>,
         conn' \in Conn, WatchOK(conn'.watch), conn'.session = sessions + 1,
         conn'.phase = "online", conn'.disconnect = "none", conn'.uris = {}, conn'.listen = 0,
         conn'.auto = conn'.watch.sub, conn'.auto # 0 => conn'.refreshes,
         stream' \in [Streams -> [open: BOOLEAN, session: Nat, uris: SUBSET Uris]],
         \A m \in Streams : stream'[m].open <=> m = conn'.auto,
         \A m \in Streams : stream'[m].open => stream'[m].session = sessions + 1
  PROVE  Kept
<1>1. /\ sessions \in 0..MaxSessions /\ MaxSessions \in Nat /\ sessions + 1 \in 0..MaxSessions
      /\ sessions + 1 # 0 /\ sessions \in Nat
  BY ConstantsAssumption DEF IInv, TypeOK
<1>2. \A i \in DOMAIN turns :
        turns[i].owner # "connect" /\ turns[i].session \in 1..(sessions + 1)
        /\ turns[i].session # sessions + 1
  BY <1>1 DEF Connecting, IInv, SessionOrder
<1>3. \A k \in Calls : call[k].kind # "subscribe"
  BY DEF Idle
<1>4. TypeOK'
  BY <1>1 DEF IInv, TypeOK, WatchOK
<1>5. SessionOrder'
  BY <1>1, <1>2 DEF SessionOrder, WatchOK
<1>6. QueueOrder'
  BY DEF IInv, QueueOrder
<1>7. ConnectOrder'
  BY <1>2 DEF ConnectOrder
<1>8. PhaseOrder'
  BY <1>1 DEF PhaseOrder
<1>9. StreamOrder'
  <2>1. conn'.auto \in Streams \cup {0} /\ 0 \notin Streams
    BY ConstantsAssumption DEF Conn
  <2>. QED BY <2>1, <1>2 DEF StreamOrder, IInv, TypeOK, Closes
<1>10. PromiseOrder'
  <2>1. FilterOrder'
    BY <1>3 DEF FilterOrder
  <2>. QED BY <1>3, <2>1 DEF PromiseOrder
<1>. QED BY <1>4, <1>5, <1>6, <1>7, <1>8, <1>9, <1>10 DEF IInv, Kept

(* A session is installed whose stream the manager opens.                  *)
LEMMA InstallModernKeeps ==
  ASSUME IInv, conn.session = 0, ~Connecting, conn.disconnect = "none",
         \A k \in Calls : call[k] = Idle, sessions < MaxSessions,
         sessions' = sessions + 1, promised' = {}, UNCHANGED call,
         NEW b \in Conn, b.watch = NoWatch, b.session = sessions + 1, b.phase = "connecting",
         b.disconnect = "none", b.uris = {}, b.listen = 0, b.auto = 0, b.refreshes,
         Relisten("connect", b)
  PROVE  Kept
<1>1. /\ sessions \in 0..MaxSessions /\ MaxSessions \in Nat /\ sessions + 1 \in 0..MaxSessions
      /\ sessions + 1 # 0 /\ sessions \in Nat /\ turns \in Seq(Turn) /\ TypeOK
      /\ b.session # 0 /\ WatchOK(b.watch) /\ b.watch.sub = 0 /\ Wanted(b)
  BY ConstantsAssumption, NoWatchOK DEF IInv, TypeOK, Wanted
<1>2. PICK t, u, S :
        /\ t \in Turn /\ t.owner = "connect" /\ t.session = b.session /\ t.at = "queued"
        /\ turns = <<>> => /\ IsBegun(t, b, u, conn', S) /\ Shut(stream', S)
                           /\ turns' = <<u>> /\ u \in Turn
        /\ turns # <<>> => Pushed(turns, turns', t) /\ conn' = b /\ stream' = stream
  BY <1>1, RelistenTurn
<1>3. turns = <<>> =>
        /\ conn' = b /\ S = {} /\ u.at = "opening" /\ u.owner = "connect" /\ u.session = b.session
        /\ turns' \in Seq(Turn) /\ DOMAIN turns' = {1} /\ turns' # <<>> /\ turns'[1] = u
  BY <1>1, <1>2, OneTurn DEF IsBegun
<1>4. conn' = b /\ Shut(stream', {})
  <2>1. turns # <<>> => Shut(stream', {})
    BY <1>1, <1>2, ClosedFields
  <2>. QED BY <1>2, <1>3, <2>1
<1>5. turns # <<>> =>
        /\ turns' \in Seq(Turn) /\ turns' # <<>> /\ turns'[1] = turns[1] /\ 1 \in DOMAIN turns
        /\ Len(turns) \in Nat \ {0} /\ DOMAIN turns = 1..Len(turns)
        /\ DOMAIN turns' = 1..(Len(turns) + 1) /\ turns'[Len(turns) + 1] = t
        /\ \A i \in DOMAIN turns : turns'[i] = turns[i]
  BY <1>2 DEF Pushed
<1>6. \A i \in DOMAIN turns' :
        \/ /\ i \in DOMAIN turns /\ turns'[i] = turns[i] /\ turns[i].owner # "connect"
           /\ turns[i].session \in 1..(sessions + 1) /\ turns[i].session # sessions + 1
        \/ /\ i \notin DOMAIN turns /\ turns'[i].owner = "connect"
           /\ turns'[i].session = sessions + 1 /\ (turns'[i].at = "queued" <=> i # 1)
  <2>1. \A i \in DOMAIN turns :
          turns[i].owner # "connect" /\ turns[i].session \in 1..(sessions + 1)
          /\ turns[i].session # sessions + 1
    BY <1>1 DEF Connecting, IInv, SessionOrder
  <2>2. CASE turns = <<>>
    BY <1>3, <2>2
  <2>3. CASE turns # <<>>
    BY <1>2, <1>5, <2>1, <2>3
  <2>. QED BY <2>2, <2>3
<1>7. \A i, j \in DOMAIN turns' : i \notin DOMAIN turns /\ j \notin DOMAIN turns => i = j
  <2>1. CASE turns = <<>>
    BY <1>3, <2>1
  <2>2. CASE turns # <<>>
    BY <1>5, <2>2
  <2>. QED BY <2>1, <2>2
<1>8. \A k \in Calls : call[k].kind # "subscribe"
  BY DEF Idle
<1>9. \A m \in Streams : ~stream'[m].open
  BY <1>4 DEF Shut, IInv, SessionOrder
<1>10. TypeOK'
  BY <1>1, <1>3, <1>4, <1>5 DEF IInv, TypeOK, Shut, WatchOK
<1>11. SessionOrder'
  <2>1. \A i \in DOMAIN turns' : turns'[i].session \in 1..(sessions + 1)
    BY <1>1, <1>6
  <2>. QED BY <1>1, <1>4, <1>9, <2>1 DEF SessionOrder, WatchOK
<1>12. QueueOrder'
  <2>1. ASSUME NEW i \in DOMAIN turns', NEW j \in DOMAIN turns',
               turns'[i].owner = turns'[j].owner, turns'[i].owner # "retry"
        PROVE  i = j
    BY <1>6, <1>7, <2>1 DEF IInv, QueueOrder
  <2>2. ASSUME NEW i \in DOMAIN turns', turns'[i].owner \in Calls
        PROVE  call'[turns'[i].owner] # Idle
    BY <1>6, <2>2, ConstantsAssumption DEF IInv, QueueOrder
  <2>3. \A i \in DOMAIN turns' : turns'[i].at = "queued" <=> i # 1
    BY <1>6 DEF IInv, QueueOrder
  <2>. QED BY <2>1, <2>2, <2>3 DEF QueueOrder
<1>13. ConnectOrder'
  BY <1>1, <1>4, <1>6 DEF ConnectOrder
<1>14. PhaseOrder'
  BY <1>1, <1>4 DEF PhaseOrder
<1>15. StreamOrder'
  BY <1>1, <1>4, <1>9 DEF StreamOrder
<1>16. PromiseOrder'
  <2>1. FilterOrder'
    BY <1>4, <1>8 DEF FilterOrder
  <2>. QED BY <1>8, <2>1 DEF PromiseOrder
<1>. QED BY <1>10, <1>11, <1>12, <1>13, <1>14, <1>15, <1>16 DEF IInv, Kept

LEMMA ConnectKeeps ==
  ASSUME IInv, Connect
  PROVE  Kept
<1>1. /\ conn.session = 0 /\ ~Connecting /\ conn.disconnect = "none"
      /\ \A k \in Calls : call[k] = Idle
      /\ sessions < MaxSessions /\ sessions' = sessions + 1 /\ promised' = {} /\ UNCHANGED call
  BY DEF Connect
<1>2. PICK s : s = sessions + 1
  OBVIOUS
<1>3. /\ conn \in Conn /\ s \in Nat \ {0} /\ 0 \in Streams \cup {0}
      /\ stream \in [Streams -> [open: BOOLEAN, session: Nat, uris: SUBSET Uris]]
      /\ \A m \in Streams : ~stream[m].open
  BY <1>1, <1>2 DEF IInv, TypeOK, SessionOrder
<1>4. \A n \in Streams \cup {0} : WatchOK(Watching(NoWatch, s, n)) /\ Watching(NoWatch, s, n).sub = n
  BY <1>3, NoWatchOK, WatchingOK
<1>5. \A r \in BOOLEAN :
        /\ Installed(r) \in Conn /\ Installed(r).session = s /\ Installed(r).refreshes = r
        /\ Installed(r).uris = {} /\ Installed(r).listen = 0 /\ Installed(r).auto = 0
        /\ Installed(r).watch = NoWatch /\ Installed(r).disconnect = "none"
  BY <1>1, <1>2, <1>3, NoWatchOK DEF Installed, Conn, WatchOK
<1>6. CASE /\ conn' = [Installed(FALSE) EXCEPT !.phase = "online", !.watch = Watching(@, sessions + 1, 0)]
           /\ UNCHANGED <<stream, turns>>
  <2>1. PICK w : w = Watching(NoWatch, s, 0)
    OBVIOUS
  <2>2. conn' = [Installed(FALSE) EXCEPT !.phase = "online", !.watch = w]
    BY <1>2, <1>5, <1>6, <2>1
  <2>3. WatchOK(w) /\ w.sub = 0
    BY <1>3, <1>4, <2>1
  <2>4. /\ conn' \in Conn /\ conn'.watch = w /\ conn'.session = s /\ conn'.phase = "online"
        /\ conn'.disconnect = "none" /\ conn'.uris = {} /\ conn'.listen = 0 /\ conn'.auto = 0
    BY <1>5, <2>2, <2>3 DEF Conn, WatchOK, Phases
  <2>5. \A m \in Streams : ~stream'[m].open /\ m # 0
    BY <1>3, <1>6, ConstantsAssumption
  <2>. QED BY <1>1, <1>2, <1>3, <1>6, <2>3, <2>4, <2>5, InstallKeeps
<1>7. CASE Relisten("connect", [Installed(TRUE) EXCEPT !.phase = "connecting"])
  <2>1. PICK b : b = [Installed(TRUE) EXCEPT !.phase = "connecting"]
    OBVIOUS
  <2>2. /\ b \in Conn /\ b.watch = NoWatch /\ b.session = s /\ b.phase = "connecting" /\ b.refreshes
        /\ b.disconnect = "none" /\ b.uris = {} /\ b.listen = 0 /\ b.auto = 0
    BY <1>5, <2>1 DEF Conn, Phases
  <2>3. Relisten("connect", b)
    BY <1>7, <2>1
  <2>. QED BY <1>1, <1>2, <2>2, <2>3, InstallModernKeeps
<1>8. CASE /\ Spare # {} /\ UNCHANGED turns
           /\ \E n \in Spare :
                /\ stream' = [stream EXCEPT ![n] = [open |-> TRUE, session |-> sessions + 1,
                                                   uris |-> {}]]
                /\ conn' = [Installed(TRUE) EXCEPT !.phase = "online", !.auto = n,
                                                  !.watch = Watching(@, sessions + 1, n)]
  <2>1. PICK n \in Spare :
          /\ stream' = [stream EXCEPT ![n] = [open |-> TRUE, session |-> s, uris |-> {}]]
          /\ conn' = [Installed(TRUE) EXCEPT !.phase = "online", !.auto = n,
                                            !.watch = Watching(@, s, n)]
    BY <1>2, <1>8
  <2>2. n \in Streams
    BY DEF Spare
  <2>3. PICK w : w = Watching(NoWatch, s, n)
    OBVIOUS
  <2>4. conn' = [Installed(TRUE) EXCEPT !.phase = "online", !.auto = n, !.watch = w]
    BY <1>5, <2>1, <2>3
  <2>5. WatchOK(w) /\ w.sub = n
    BY <1>4, <2>2, <2>3
  <2>6. /\ conn' \in Conn /\ conn'.watch = w /\ conn'.session = s /\ conn'.phase = "online"
        /\ conn'.disconnect = "none" /\ conn'.uris = {} /\ conn'.listen = 0 /\ conn'.auto = n
        /\ conn'.refreshes
    BY <1>5, <2>2, <2>4, <2>5 DEF Conn, WatchOK, Phases
  <2>7. PICK r : r = [open |-> TRUE, session |-> s, uris |-> {}]
    OBVIOUS
  <2>8. r \in [open: BOOLEAN, session: Nat, uris: SUBSET Uris] /\ r.open /\ r.session = s
    BY <1>3, <2>7
  <2>9. /\ stream' \in [Streams -> [open: BOOLEAN, session: Nat, uris: SUBSET Uris]]
        /\ \A m \in Streams : stream'[m].open <=> m = n
        /\ stream'[n].session = s
    BY <1>3, <2>1, <2>2, <2>7, <2>8
  <2>. QED BY <1>1, <1>2, <1>8, <2>5, <2>6, <2>9, InstallKeeps
<1>. QED BY <1>6, <1>7, <1>8 DEF Connect

(* The connection is not up after the step, or no longer.                  *)
LEMMA DownKeeps ==
  ASSUME IInv, UNCHANGED <<turns, call, sessions>>,
         conn' \in Conn, WatchOK(conn'.watch), conn'.session \in {0, conn.session},
         conn'.auto = conn.auto, conn'.refreshes = conn.refreshes,
         conn'.phase \in {"offline", "failed", "draining", "quarantined"},
         conn'.disconnect \in {"drain", "stream", "client"} => conn'.phase = "draining",
         conn'.phase = "draining" => conn'.session # 0,
         conn'.disconnect \in {"stream", "client"} => \A k \in Calls : call[k] = Idle,
         Connecting => conn'.session = 0 /\ conn'.listen = 0,
         NEW S, Shut(stream', S), conn'.session = 0 => \A m \in Streams : ~stream'[m].open,
         promised' \in {promised, {}},
         \/ conn'.uris = conn.uris
         \/ promised' = {} /\ \A k \in Calls : call[k] = Idle
  PROVE  Kept
<1>1. TypeOK'
  BY DEF IInv, TypeOK, Shut, WatchOK
<1>2. SessionOrder'
  <2>1. \A m \in Streams : stream'[m].open => conn'.session # 0 /\ stream'[m].session = conn'.session
    BY DEF IInv, SessionOrder, Shut
  <2>2. conn'.session \in {0, sessions'} /\ \A i \in DOMAIN turns' : turns'[i].session \in 1..sessions'
    BY DEF IInv, SessionOrder
  <2>. QED BY <2>1, <2>2 DEF SessionOrder, WatchOK
<1>3. QueueOrder'
  BY DEF IInv, QueueOrder
<1>4. ConnectOrder'
  BY DEF IInv, ConnectOrder, Connecting
<1>5. PhaseOrder'
  BY DEF PhaseOrder
<1>6. ~Live(conn')
  BY DEF Live
<1>7. StreamOrder'
  BY <1>6 DEF IInv, StreamOrder, Live
<1>8. ASSUME PromiseOrder PROVE PromiseOrder'
  <2>1. FilterOrder'
    <3>1. turns # <<>> => 1 \in DOMAIN turns /\ turns[1].session # 0
      BY FirstTurn DEF IInv, TypeOK, SessionOrder
    <3>. QED BY <1>6, <1>8, <3>1 DEF PromiseOrder, FilterOrder
  <2>2. \A k \in Calls : call[k] = Idle => call[k].kind # "subscribe"
    BY DEF Idle
  <2>. QED BY <1>8, <2>1, <2>2 DEF PromiseOrder
<1>. QED BY <1>1, <1>2, <1>3, <1>4, <1>5, <1>7, <1>8 DEF IInv, Kept

LEMMA SessionLostKeeps ==
  ASSUME IInv, SessionLost
  PROVE  Kept
<1>1. /\ conn.session # 0 /\ conn.phase # "draining" /\ UNCHANGED <<turns, call, sessions>>
      /\ stream' = Closed(OfSession(conn.session)) /\ promised' = {}
      /\ conn' = [conn EXCEPT !.session = 0, !.listen = 0, !.phase = "failed", !.watch = NoWatch]
  BY DEF SessionLost
<1>2. /\ conn' \in Conn /\ WatchOK(conn'.watch) /\ conn'.session = 0 /\ conn'.listen = 0
      /\ conn'.phase = "failed" /\ conn'.auto = conn.auto /\ conn'.refreshes = conn.refreshes
      /\ conn'.disconnect = conn.disconnect /\ conn'.uris = conn.uris
  BY <1>1, NoWatchOK DEF IInv, TypeOK, Conn, WatchOK, Phases
<1>3. Shut(stream', OfSession(conn.session)) /\ \A m \in Streams : ~stream'[m].open
  BY <1>1, ClosedFields DEF IInv, SessionOrder, Shut, OfSession
<1>4. conn.disconnect \notin {"drain", "stream", "client"}
  BY <1>1 DEF IInv, PhaseOrder
<1>. QED BY <1>1, <1>2, <1>3, <1>4, DownKeeps

LEMMA DrainingKeeps ==
  ASSUME IInv, conn.session # 0, ~Connecting, conn' = Draining(conn),
         UNCHANGED <<stream, turns, call, promised, sessions>>
  PROVE  Kept
<1>1. /\ conn' \in Conn /\ WatchOK(conn'.watch) /\ conn'.session = conn.session
      /\ conn'.phase = "draining" /\ conn'.auto = conn.auto /\ conn'.refreshes = conn.refreshes
      /\ conn'.disconnect = "drain" /\ conn'.uris = conn.uris
  BY NoWatchOK DEF Draining, IInv, TypeOK, Conn, WatchOK, Phases
<1>2. Shut(stream', {})
  BY ClosedFields DEF IInv
<1>. QED BY <1>1, <1>2, DownKeeps

LEMMA DisconnectKeeps ==
  ASSUME IInv, Disconnect
  PROVE  Kept
<1>1. /\ conn.session # 0 /\ conn.disconnect = "none"
      /\ UNCHANGED <<stream, turns, call, promised, sessions>>
  BY DEF Disconnect
<1>2. CASE ~Connecting
  BY <1>1, <1>2, DrainingKeeps DEF Disconnect
<1>3. CASE Connecting
  <2>1. conn' = [conn EXCEPT !.disconnect = "connect"]
    BY <1>3 DEF Disconnect
  <2>2. /\ conn' \in Conn /\ conn'.watch = conn.watch /\ conn'.session = conn.session
        /\ conn'.phase = conn.phase /\ conn'.auto = conn.auto /\ conn'.refreshes = conn.refreshes
        /\ conn'.disconnect = "connect" /\ conn'.uris = conn.uris /\ conn'.listen = conn.listen
    BY <2>1 DEF IInv, TypeOK, Conn
  <2>3. TypeOK' /\ SessionOrder'
    BY <1>1, <2>2 DEF IInv, TypeOK, SessionOrder
  <2>4. QueueOrder' /\ PhaseOrder'
    BY <1>1, <2>2 DEF IInv, QueueOrder, PhaseOrder
  <2>5. ConnectOrder'
    BY <1>1, <2>2 DEF IInv, ConnectOrder
  <2>6. StreamOrder'
    BY <1>1, <2>2 DEF IInv, StreamOrder, Live, Closes
  <2>7. ASSUME PromiseOrder PROVE PromiseOrder'
    BY <1>1, <2>2, <2>7 DEF PromiseOrder, FilterOrder, Live
  <2>. QED BY <2>3, <2>4, <2>5, <2>6, <2>7 DEF IInv, Kept
<1>. QED BY <1>2, <1>3

LEMMA DisconnectAdvancesKeeps ==
  ASSUME IInv, DisconnectAdvances
  PROVE  Kept
<1>1. conn \in Conn /\ WatchOK(NoWatch) /\ WatchOK(conn.watch)
  BY NoWatchOK DEF IInv, TypeOK, SessionOrder, WatchOK, Conn
<1>2. conn.phase = "draining" => ~Connecting
  BY DEF IInv, PhaseOrder, ConnectOrder, Connecting
<1>3. \A S : Shut(Closed(S), S) /\ Shut(stream, {})
  BY ClosedFields DEF IInv
<1>4. conn.disconnect \in {"stream", "client"} => \A k \in Calls : call[k] = Idle
  BY DEF IInv, PhaseOrder
<1>5. conn.disconnect \in {"drain", "stream", "client"} =>
        conn.phase = "draining" /\ conn.session # 0
  BY DEF IInv, PhaseOrder
<1>6. CASE DisconnectAfterConnect
  <2>1. ~Connecting /\ UNCHANGED <<stream, turns, call, promised, sessions>>
    BY <1>6 DEF DisconnectAfterConnect
  <2>2. CASE conn.session = 0
    <3>1. conn' = [conn EXCEPT !.disconnect = "none", !.phase = "offline", !.watch = NoWatch]
      BY <1>6, <2>2 DEF DisconnectAfterConnect
    <3>2. /\ conn' \in Conn /\ WatchOK(conn'.watch) /\ conn'.session = conn.session
          /\ conn'.phase = "offline" /\ conn'.auto = conn.auto /\ conn'.refreshes = conn.refreshes
          /\ conn'.disconnect = "none" /\ conn'.uris = conn.uris
      BY <1>1, <3>1 DEF Conn, WatchOK, Phases
    <3>3. \A m \in Streams : ~stream'[m].open
      BY <2>1, <2>2 DEF IInv, SessionOrder
    <3>. QED BY <1>3, <2>1, <3>2, <3>3, DownKeeps
  <2>3. CASE conn.session # 0
    BY <1>6, <2>1, <2>3, DrainingKeeps DEF DisconnectAfterConnect
  <2>. QED BY <2>2, <2>3
<1>7. CASE Drained
  <2>1. /\ conn.disconnect = "drain" /\ \A k \in Calls : call[k] = Idle
        /\ conn' = [conn EXCEPT !.disconnect = "stream"] /\ stream' = Closed({conn.listen})
        /\ UNCHANGED <<turns, call, promised, sessions>>
    BY <1>7 DEF Drained
  <2>2. /\ conn' \in Conn /\ WatchOK(conn'.watch) /\ conn'.session = conn.session
        /\ conn'.phase = conn.phase /\ conn'.auto = conn.auto /\ conn'.refreshes = conn.refreshes
        /\ conn'.disconnect = "stream" /\ conn'.uris = conn.uris
    BY <1>1, <2>1 DEF Conn, WatchOK
  <2>3. Shut(stream', {conn.listen})
    BY <1>3, <2>1
  <2>. QED BY <1>2, <1>5, <2>1, <2>2, <2>3, DownKeeps
<1>8. CASE StreamClosed
  <2>1. /\ conn.disconnect = "stream" /\ promised' = {} /\ stream' = Closed({conn.auto})
        /\ conn' = [conn EXCEPT !.disconnect = "client", !.listen = 0, !.uris = {}]
        /\ UNCHANGED <<turns, call, sessions>>
    BY <1>8 DEF StreamClosed
  <2>2. /\ conn' \in Conn /\ WatchOK(conn'.watch) /\ conn'.session = conn.session
        /\ conn'.phase = conn.phase /\ conn'.auto = conn.auto /\ conn'.refreshes = conn.refreshes
        /\ conn'.disconnect = "client"
    BY <1>1, <2>1 DEF Conn, WatchOK
  <2>3. Shut(stream', {conn.auto})
    BY <1>3, <2>1
  <2>. QED BY <1>2, <1>4, <1>5, <2>1, <2>2, <2>3, DownKeeps
<1>9. CASE ClientClosed
  <2>1. /\ conn.disconnect = "client" /\ stream' = Closed(OfSession(conn.session))
        /\ conn' = [conn EXCEPT !.disconnect = "none", !.session = 0, !.phase = "offline",
                               !.watch = NoWatch]
        /\ UNCHANGED <<turns, call, promised, sessions>>
    BY <1>9 DEF ClientClosed
  <2>2. /\ conn' \in Conn /\ WatchOK(conn'.watch) /\ conn'.session = 0
        /\ conn'.phase = "offline" /\ conn'.auto = conn.auto /\ conn'.refreshes = conn.refreshes
        /\ conn'.disconnect = "none" /\ conn'.uris = conn.uris
    BY <1>1, <2>1 DEF Conn, WatchOK, Phases
  <2>3. Shut(stream', OfSession(conn.session)) /\ \A m \in Streams : ~stream'[m].open
    BY <1>3, <2>1 DEF IInv, SessionOrder, Shut, OfSession
  <2>. QED BY <1>2, <1>5, <2>1, <2>2, <2>3, DownKeeps
<1>10. CASE ClientCloseFails
  <2>1. /\ conn.disconnect = "client"
        /\ conn' = [conn EXCEPT !.disconnect = "none", !.phase = "quarantined", !.watch = NoWatch]
        /\ UNCHANGED <<stream, turns, call, promised, sessions>>
    BY <1>10 DEF ClientCloseFails
  <2>2. /\ conn' \in Conn /\ WatchOK(conn'.watch) /\ conn'.session = conn.session
        /\ conn'.phase = "quarantined" /\ conn'.auto = conn.auto
        /\ conn'.refreshes = conn.refreshes /\ conn'.disconnect = "none" /\ conn'.uris = conn.uris
    BY <1>1, <2>1 DEF Conn, WatchOK, Phases
  <2>3. Shut(stream', {})
    BY <1>3, <2>1
  <2>. QED BY <1>2, <1>5, <2>1, <2>2, <2>3, DownKeeps
<1>. QED BY <1>6, <1>7, <1>8, <1>9, <1>10 DEF DisconnectAdvances

(* A stream is dropped by the server.                                      *)
LEMMA DropKeeps ==
  ASSUME IInv, NEW n \in Streams, Drop(n)
  PROVE  Kept
<1> DEFINE watched == conn.session = stream[n].session /\ conn.watch.sub = n
<1>1. /\ stream[n].open /\ stream' = Closed({n}) /\ conn' = Dropped(n)
      /\ UNCHANGED <<turns, call, promised, sessions>> /\ n # 0
  BY ConstantsAssumption DEF Drop
<1>2. Shut(stream', {n}) /\ conn \in Conn /\ WatchOK(conn.watch) /\ conn.session = stream[n].session
      /\ conn.session # 0
  BY <1>1, ClosedFields DEF IInv, TypeOK, SessionOrder, WatchOK, Conn
<1>3. /\ conn' \in Conn /\ WatchOK(conn'.watch) /\ conn'.session = conn.session
      /\ conn'.phase = conn.phase /\ conn'.auto = conn.auto /\ conn'.refreshes = conn.refreshes
      /\ conn'.disconnect = conn.disconnect /\ conn'.uris = conn.uris
      /\ conn'.listen = (IF watched /\ conn.listen = n THEN 0 ELSE conn.listen)
      /\ conn'.watch.sub = IF watched THEN 0 ELSE conn.watch.sub
  <2>1. CASE ~watched
    BY <1>1, <1>2, <2>1 DEF Dropped
  <2>2. CASE watched
    <3>1. PICK w : w = [conn.watch EXCEPT !.sub = 0]
      OBVIOUS
    <3>2. WatchOK(w) /\ w.sub = 0 /\ w.session # 0
      BY <1>1, <1>2, <2>2, <3>1 DEF WatchOK, Watch, NoWatch
    <3>3. PICK x : x = IF conn.disconnect = "none" THEN Scheduled(w) ELSE w
      OBVIOUS
    <3>4. WatchOK(x) /\ x.sub = 0
      BY <3>2, <3>3, ScheduledOK
    <3>5. PICK l : l = IF conn.listen = n THEN 0 ELSE conn.listen
      OBVIOUS
    <3>6. conn' = [conn EXCEPT !.listen = l, !.watch = x]
      BY <1>1, <2>2, <3>1, <3>3, <3>5 DEF Dropped
    <3>7. l \in Streams \cup {0}
      BY <1>2, <3>5 DEF Conn
    <3>. QED BY <1>2, <2>2, <3>4, <3>5, <3>6, <3>7 DEF Conn, WatchOK
  <2>. QED BY <2>1, <2>2
<1>4. TypeOK'
  BY <1>1, <1>2, <1>3 DEF IInv, TypeOK, Shut, WatchOK
<1>5. SessionOrder'
  <2>1. \A m \in Streams : stream'[m].open => conn'.session # 0 /\ stream'[m].session = conn'.session
    BY <1>2, <1>3 DEF IInv, SessionOrder, Shut
  <2>2. conn'.session \in {0, sessions'} /\ \A i \in DOMAIN turns' : turns'[i].session \in 1..sessions'
    BY <1>1, <1>3 DEF IInv, SessionOrder
  <2>. QED BY <1>3, <2>1, <2>2 DEF SessionOrder, WatchOK
<1>6. QueueOrder'
  BY <1>1 DEF IInv, QueueOrder
<1>7. ConnectOrder'
  <2>1. conn.phase = "connecting" => conn'.watch.sub = conn'.listen
    BY <1>1, <1>3 DEF IInv, ConnectOrder
  <2>. QED BY <1>1, <1>2, <1>3, <2>1 DEF IInv, ConnectOrder
<1>8. PhaseOrder'
  BY <1>1, <1>2, <1>3 DEF IInv, PhaseOrder
<1>9. StreamOrder'
  <2>1. ASSUME Live(conn)
        PROVE  /\ conn'.watch.sub # 0 =>
                    stream'[conn'.watch.sub].open /\ conn'.watch.sub \in {conn'.listen, conn'.auto}
               /\ conn'.listen # 0 => conn'.watch.sub = conn'.listen /\ conn'.listen # conn'.auto
               /\ Closes => conn'.watch.sub = conn'.listen
               /\ \A m \in Streams :
                    stream'[m].open => m = conn'.watch.sub \/ (m = conn'.auto /\ Closes)
    <3>1. conn.watch.sub \in Streams \cup {0}
      BY <1>2 DEF Conn, Watch
    <3>2. CASE watched
      BY <1>1, <1>2, <1>3, <2>1, <3>1, <3>2 DEF IInv, StreamOrder, Shut
    <3>3. CASE ~watched
      <4>1. conn.watch.sub # n /\ conn'.listen = conn.listen /\ conn'.watch.sub = conn.watch.sub
        BY <1>2, <1>3, <3>3
      <4>2. \A m \in Streams : stream'[m].open <=> stream[m].open /\ m # n
        BY <1>2 DEF Shut
      <4>3. /\ conn.watch.sub # 0 =>
                 stream[conn.watch.sub].open /\ conn.watch.sub \in {conn.listen, conn.auto}
            /\ conn.listen # 0 => conn.watch.sub = conn.listen /\ conn.listen # conn.auto
            /\ Closes => conn.watch.sub = conn.listen
            /\ \A m \in Streams : stream[m].open => m = conn.watch.sub \/ (m = conn.auto /\ Closes)
        BY <2>1 DEF IInv, StreamOrder
      <4>. QED BY <1>3, <3>1, <4>1, <4>2, <4>3
    <3>. QED BY <3>2, <3>3
  <2>2. Closes' <=> Closes
    BY <1>1, <1>3 DEF Closes
  <2>. QED BY <1>3, <2>1, <2>2 DEF IInv, StreamOrder, Live
<1>10. ASSUME PromiseOrder PROVE PromiseOrder'
  <2>1. conn'.listen # 0 =>
          conn'.listen = conn.listen /\ stream'[conn.listen].uris = stream[conn.listen].uris
    BY <1>2, <1>3 DEF Shut, Conn
  <2>2. FilterOrder'
    BY <1>1, <1>3, <1>10, <2>1 DEF PromiseOrder, FilterOrder, Live
  <2>. QED BY <1>1, <1>3, <1>10, <2>2 DEF PromiseOrder
<1>. QED BY <1>4, <1>5, <1>6, <1>7, <1>8, <1>9, <1>10 DEF IInv, Kept

----------------------------------------------------------------------------
LEMMA InitHolds ==
  ASSUME Init
  PROVE  IInv /\ PromiseOrder
<1>1. /\ conn = [session |-> 0, phase |-> "offline", refreshes |-> FALSE, disconnect |-> "none",
                 uris |-> {}, listen |-> 0, auto |-> 0, watch |-> NoWatch]
      /\ stream = [m \in Streams |-> [open |-> FALSE, session |-> 0, uris |-> {}]]
      /\ turns = <<>> /\ call = [k \in Calls |-> Idle] /\ promised = {} /\ sessions = 0
  BY DEF Init
<1>2. conn \in Conn /\ ~conn.watch.timer /\ conn.watch = NoWatch
  BY <1>1, NoWatchOK DEF Conn, Phases, WatchOK
<1>3. /\ stream \in [Streams -> [open: BOOLEAN, session: Nat, uris: SUBSET Uris]]
      /\ \A m \in Streams : ~stream[m].open
  BY <1>1
<1>4. turns \in Seq(Turn) /\ DOMAIN turns = {}
  BY <1>1
<1>5. TypeOK
  BY <1>1, <1>2, <1>3, <1>4, ConstantsAssumption DEF TypeOK, Call
<1>6. SessionOrder /\ QueueOrder /\ ConnectOrder /\ PhaseOrder
  BY <1>1, <1>2, <1>3, <1>4 DEF SessionOrder, QueueOrder, ConnectOrder, PhaseOrder
<1>7. StreamOrder /\ FilterOrder
  BY <1>1 DEF StreamOrder, FilterOrder, Live
<1>8. PromiseOrder
  BY <1>1, <1>7 DEF PromiseOrder, Idle
<1>. QED BY <1>5, <1>6, <1>7, <1>8 DEF IInv

LEMMA NextKeeps ==
  ASSUME IInv, [Next]_vars
  PROVE  Kept
<1>1. CASE HostCall
  BY <1>1, ConnectKeeps, DisconnectKeeps, SubscribeKeeps, UnsubscribeKeeps DEF HostCall
<1>2. CASE TurnAdvances
  BY <1>2, ListenOpensKeeps, ListenFailsKeeps, CloseConfirmedKeeps, TurnEndsKeeps DEF TurnAdvances
<1>3. CASE DisconnectAdvances
  BY <1>3, DisconnectAdvancesKeeps
<1>4. CASE TimerFires
  BY <1>4, TimerKeeps
<1>5. CASE SessionLost
  BY <1>5, SessionLostKeeps
<1>6. CASE \E n \in Streams : Drop(n)
  BY <1>6, DropKeeps
<1>7. CASE UNCHANGED vars
  <2>1. UNCHANGED <<conn, stream, turns, call, promised, sessions>>
    BY <1>7 DEF vars
  <2>2. Like(conn, conn)
    BY DEF Like, IInv, TypeOK, SessionOrder, WatchOK, Conn
  <2>. QED BY <2>1, <2>2, WatchKeeps
<1>. QED BY <1>1, <1>2, <1>3, <1>4, <1>5, <1>6, <1>7 DEF Next

(* The connection, its streams, the turns and the calls are in order, in   *)
(* every state, whatever is asked, dropped and lost.                       *)
THEOREM InvAlways == Spec => []IInv
<1>1. Init => IInv
  BY InitHolds
<1>2. IInv /\ [Next]_vars => IInv'
  BY NextKeeps DEF Kept
<1>. QED BY <1>1, <1>2, PTL DEF Spec

LEMMA InUseFollows ==
  ASSUME IInv
  PROVE  StreamInUse
<1>1. TypeOK
  BY DEF IInv
<1>2. OneStream
  BY DEF IInv, SessionOrder, StreamOrder, Live, Closes, OneStream, Usable
<1>3. InUseIsWatched
  <2>1. SUFFICES ASSUME Usable, conn.session # 0, conn.listen # 0
                 PROVE  stream[conn.listen].open /\ stream[conn.listen].session = conn.session
                        /\ conn.watch.sub = conn.listen
    BY DEF InUseIsWatched
  <2>2. conn.watch.sub = conn.listen /\ stream[conn.listen].open /\ conn.listen \in Streams
    BY <2>1 DEF IInv, TypeOK, StreamOrder, Live, Usable, Conn
  <2>. QED BY <2>2 DEF IInv, SessionOrder
<1>. QED BY <1>1, <1>2, <1>3 DEF StreamInUse

(* #relisten, #watchListen: whatever turns, drops and sessions overlap, no *)
(* more than one stream stays open, and the one in use is open, of the     *)
(* session that is up, and watched.                                        *)
THEOREM StreamAlwaysInUse == Spec => []StreamInUse
<1>1. IInv => StreamInUse
  BY InUseFollows
<1>. QED BY <1>1, InvAlways, PTL

(* subscribeResource: when no two calls are about the same URI, a URI      *)
(* whose subscription was confirmed is in the filter of every stream that  *)
(* is in use for the rest of the session.                                  *)
THEOREM PromiseAlwaysKept ==
  ASSUME OwnUris
  PROVE  Spec => []PromiseKept
<1>1. Init => IInv /\ PromiseOrder
  BY InitHolds
<1>2. IInv /\ PromiseOrder /\ [Next]_vars => IInv' /\ PromiseOrder'
  BY NextKeeps DEF Kept
<1>3. IInv /\ PromiseOrder => PromiseKept
  BY DEF IInv, PhaseOrder, PromiseOrder, FilterOrder, PromiseKept, Live, Usable
<1>. QED BY <1>1, <1>2, <1>3, PTL DEF Spec

=============================================================================
