----------------------- MODULE ConnectionOrderProofs -----------------------
(* The order ConnectionLifecycle keeps, proved for every number of entries,*)
(* operations, definitions, ids and attempts.                              *)
(*                                                                         *)
(* ConnectionLifecycleProofs has the invariant IInv: types, sessions that  *)
(* drain before they are closed, catalogs of the generation that is up,    *)
(* generations of which no two entries share one.  Order adds to it what   *)
(* the manager relies on and states nowhere: which phases, tasks, clients  *)
(* and continuations an entry can have at once (InOrder), and how          *)
(* operations, generations, the registry, attempts and open clients go     *)
(* with the entries.  From it follow EntriesSound and NoOrphanClient, and  *)
(* each step is a step of GenerationService or none: ImplementsService.    *)
(*                                                                         *)
(* The hypothesis is Callers = {}: nobody completes an authorization.      *)
(* With a completion that has outlived its connection neither EntriesSound *)
(* nor ImplementsService holds (README, 11).                               *)
(*                                                                         *)
(* The proof has three layers.  The first takes each record operator of    *)
(* the model (Transition, Attempting, Draining ...) and shows that an      *)
(* orderly entry stays Orderly, and what it Kept of its clients.  The      *)
(* second lifts this to handlers, that may change many entries (Handled)   *)
(* or one (OneStep), and to the service's view of them.  The third has     *)
(* one lemma for each action.                                              *)
EXTENDS ConnectionLifecycleProofs

(* Where a connect task has an attempt under way, and where a disconnect   *)
(* has not begun to take the session down.                                 *)
Trying == {"open", "listen", "cleanup"}
Ahead  == {"none", "connect"}

(* A continuation that is not in a queue, or at most once.                 *)
Lacks(q, x) == \A i \in DOMAIN q : q[i] # x
Once(q, x)  == \A i, j \in DOMAIN q : q[i] = x /\ q[j] = x => i = j

(* The empty queue has none.                                               *)
LEMMA EmptyTokens ==
  ASSUME NEW x PROVE Lacks(<<>>, x) /\ Once(<<>>, x)
BY DEF Lacks, Once

(* One more continuation at the end of a queue.                            *)
LEMMA AppendTokens ==
  ASSUME NEW q \in Seq(Continuations), NEW y \in Continuations, NEW x
  PROVE  /\ Lacks(Append(q, y), x) <=> Lacks(q, x) /\ y # x
         /\ Lacks(q, x) => Once(Append(q, y), x)
         /\ Once(q, x) /\ y # x => Once(Append(q, y), x)
<1>1. /\ Len(q) \in Nat /\ DOMAIN q = 1..Len(q)
      /\ DOMAIN Append(q, y) = 1..(Len(q) + 1)
      /\ Append(q, y)[Len(q) + 1] = y
      /\ \A i \in 1..Len(q) : Append(q, y)[i] = q[i]
  BY AppendProperties, LenProperties
<1>2. Lacks(Append(q, y), x) <=> Lacks(q, x) /\ y # x
  BY <1>1 DEF Lacks
<1>3. Lacks(q, x) => Once(Append(q, y), x)
  BY <1>1 DEF Lacks, Once
<1>4. Once(q, x) /\ y # x => Once(Append(q, y), x)
  BY <1>1 DEF Once
<1>. QED BY <1>2, <1>3, <1>4

(* Two queues one after the other.                                         *)
LEMMA ConcatTokens ==
  ASSUME NEW q \in Seq(Continuations), NEW r \in Seq(Continuations), NEW x
  PROVE  /\ Lacks(q \o r, x) <=> Lacks(q, x) /\ Lacks(r, x)
         /\ Lacks(q, x) /\ Once(r, x) => Once(q \o r, x)
         /\ Once(q, x) /\ Lacks(r, x) => Once(q \o r, x)
<1>1. /\ Len(q) \in Nat /\ DOMAIN q = 1..Len(q) /\ Len(r) \in Nat /\ DOMAIN r = 1..Len(r)
      /\ DOMAIN (q \o r) = 1..(Len(q) + Len(r))
      /\ \A i \in 1..(Len(q) + Len(r)) :
           (q \o r)[i] = IF i <= Len(q) THEN q[i] ELSE r[i - Len(q)]
  BY ConcatProperties, LenProperties
<1>2. ASSUME Lacks(q \o r, x) PROVE Lacks(q, x)
  <2> SUFFICES ASSUME NEW i \in 1..Len(q) PROVE q[i] # x
    BY <1>1 DEF Lacks
  <2>1. i \in 1..(Len(q) + Len(r)) /\ i <= Len(q)
    BY <1>1
  <2>. QED BY <2>1, <1>1, <1>2 DEF Lacks
<1>3. ASSUME Lacks(q \o r, x) PROVE Lacks(r, x)
  <2> SUFFICES ASSUME NEW i \in 1..Len(r) PROVE r[i] # x
    BY <1>1 DEF Lacks
  <2>1. /\ i + Len(q) \in 1..(Len(q) + Len(r)) /\ ~(i + Len(q) <= Len(q))
        /\ (i + Len(q)) - Len(q) = i
    BY <1>1
  <2>2. (q \o r)[i + Len(q)] = r[i]
    BY <2>1, <1>1
  <2>. QED BY <2>1, <2>2, <1>1, <1>3 DEF Lacks
<1>4. \A i \in 1..(Len(q) + Len(r)) :
        \/ i \in 1..Len(q) /\ (q \o r)[i] = q[i]
        \/ i \notin 1..Len(q) /\ i - Len(q) \in 1..Len(r) /\ (q \o r)[i] = r[i - Len(q)]
  BY <1>1
<1>5. ASSUME Lacks(q, x), Lacks(r, x) PROVE Lacks(q \o r, x)
  BY <1>1, <1>4, <1>5 DEF Lacks
<1>6. ASSUME Lacks(q, x), Once(r, x) PROVE Once(q \o r, x)
  <2> SUFFICES ASSUME NEW i \in 1..(Len(q) + Len(r)), NEW j \in 1..(Len(q) + Len(r)),
                      (q \o r)[i] = x, (q \o r)[j] = x
               PROVE  i = j
    BY <1>1 DEF Once
  <2>1. /\ i - Len(q) \in 1..Len(r) /\ r[i - Len(q)] = x
        /\ j - Len(q) \in 1..Len(r) /\ r[j - Len(q)] = x
    BY <1>1, <1>4, <1>6 DEF Lacks
  <2>2. i - Len(q) = j - Len(q)
    BY <2>1, <1>1, <1>6 DEF Once
  <2>. QED BY <2>2, <1>1
<1>7. ASSUME Once(q, x), Lacks(r, x) PROVE Once(q \o r, x)
  BY <1>1, <1>4, <1>7 DEF Lacks, Once
<1>. QED BY <1>2, <1>3, <1>5, <1>6, <1>7

(* A queue whose first continuation is taken off.                          *)
LEMMA TailTokens ==
  ASSUME NEW q \in Seq(Continuations), q # <<>>, NEW x
  PROVE  /\ Lacks(q, x) => Lacks(Tail(q), x)
         /\ Once(q, x) => Once(Tail(q), x)
         /\ Once(q, x) /\ Head(q) = x => Lacks(Tail(q), x)
<1>1. /\ Len(q) \in Nat \ {0} /\ DOMAIN q = 1..Len(q) /\ Head(q) = q[1]
      /\ DOMAIN Tail(q) = 1..(Len(q) - 1)
      /\ \A i \in 1..(Len(q) - 1) : Tail(q)[i] = q[i + 1]
  BY HeadTailProperties, LenProperties, EmptySeq
<1>2. \A i \in 1..(Len(q) - 1) : i + 1 \in 1..Len(q) /\ i + 1 # 1
  BY <1>1
<1>3. 1 \in 1..Len(q)
  BY <1>1
<1>. QED BY <1>1, <1>2, <1>3 DEF Lacks, Once

----------------------------------------------------------------------------
(* What a connect task has to do with the phase, and with the clients that *)
(* are set aside: none while one is under way.                             *)
ConnectOrder(s) ==
  /\ s.connect \in {"open", "cleanup"} => s.phase = "connecting" /\ s.session = 0
  /\ s.connect = "listen" => s.phase \in {"connecting", "failed", "offline"}
  /\ s.connect = "drain" => s.phase \in {"failed", "offline", "online", "degraded"} /\ s.session = 0
  /\ s.phase = "connecting" => s.connect \in Trying
  /\ s.connect # "none" => s.pending = 0 /\ s.cleanup = 0
  /\ s.phase \in {"quarantined", "authorizing"} => s.connect = "none"

(* A parked client is there only while the user authorizes, a client that  *)
(* could not be closed only in quarantine, and no session without the      *)
(* generation it came up under.                                            *)
ClientOrder(s) ==
  /\ s.pending # 0 => s.phase = "authorizing"
  /\ s.cleanup # 0 => s.phase \in {"quarantined", "draining"} /\ s.session = 0
  /\ s.phase \in {"failed", "offline", "authorizing"} => s.session = 0
  /\ s.session # 0 => s.gen # 0

(* An entry is draining while its disconnect is past the wait for the      *)
(* connect, and what it has to close says where the disconnect is.         *)
DisconnectOrder(s) ==
  /\ s.phase = "draining" <=> s.disconnect \notin Ahead
  /\ s.phase = "draining" =>
       /\ s.connect = "none"
       /\ s.disconnect \in {"drain", "close"} <=> s.session # 0
       /\ s.cleanup # 0 <=> s.disconnect = "cleanup"
  /\ s.releasing # 0 => s.disconnect = "release"
  /\ s.timer => s.phase = "failed"

(* Who waits for whom: the disconnect waits in at most one place, a removal*)
(* only behind the disconnect, and nobody for a task that is not there.    *)
TokenOrder(s) ==
  /\ s.disconnect # "connect" => Lacks(s.ready, "disconnect") /\ Lacks(s.onConnect, "disconnect")
  /\ s.connect # "none" => Lacks(s.ready, "disconnect")
  /\ s.connect = "none" => s.onConnect = <<>>
  /\ s.disconnect = "none" => s.onDisconnect = <<>>
  /\ Once(s.ready, "disconnect") /\ Once(s.onConnect, "disconnect")
  /\ Lacks(s.onDisconnect, "disconnect")
  /\ Lacks(s.onConnect, "remove")
  /\ ~Lacks(s.onDisconnect, "remove") => s.removing

(* No operation runs on a connection that is being opened, waits for its   *)
(* user, could not be closed, or is being closed.                          *)
BusyOrder(s, busy) ==
  busy => /\ s.connect \notin Trying
          /\ s.phase \notin {"authorizing", "quarantined"}
          /\ s.disconnect \notin {"release", "cleanup", "close"}
          /\ s.gen # 0

(* At rest, with no task.                                                  *)
Dead(s) ==
  /\ s.phase = "offline" /\ s.connect = "none" /\ s.disconnect = "none"

(* An entry that is not registered is dead; it is dead already when its    *)
(* removal goes on, and stays so until then.                               *)
RemovalOrder(s, busy, known) ==
  /\ ~known => Dead(s) /\ ~busy
  /\ ~Lacks(s.ready, "remove") => Dead(s) /\ ~busy /\ (known => s.removing)
  /\ s.owner = None => s.gen = 0 /\ ~known /\ s.ready = <<>>

(* An entry in order, with operations or not, registered or not.           *)
Orderly(s, busy, known) ==
  /\ ConnectOrder(s) /\ ClientOrder(s) /\ DisconnectOrder(s) /\ TokenOrder(s)
  /\ BusyOrder(s, busy) /\ RemovalOrder(s, busy, known)

----------------------------------------------------------------------------
(* The fields of an entry in groups, and what each record operator of the  *)
(* model does to them, without the EXCEPTs.                                *)
SameClients(s, t) ==
  /\ t.gen = s.gen /\ t.session = s.session /\ t.pending = s.pending
  /\ t.cleanup = s.cleanup /\ t.releasing = s.releasing
SameConnect(s, t) ==
  t.connect = s.connect /\ t.attempt = s.attempt /\ t.onConnect = s.onConnect
SameDisconnect(s, t) ==
  /\ t.disconnect = s.disconnect /\ t.onDisconnect = s.onDisconnect
  /\ t.removing = s.removing
SameQueue(s, t) == t.ready = s.ready /\ t.owner = s.owner
Same(s, t) ==
  /\ t.phase = s.phase /\ t.timer = s.timer
  /\ SameClients(s, t) /\ SameConnect(s, t) /\ SameDisconnect(s, t) /\ SameQueue(s, t)

(* Transition to phase p.                                                  *)
IsTransition(s, t, p) ==
  /\ t.phase = p /\ t.timer = (s.timer /\ p = "failed")
  /\ SameClients(s, t) /\ SameConnect(s, t) /\ SameDisconnect(s, t) /\ SameQueue(s, t)

(* Rescheduled: the reconnect timer may be armed after a failure.          *)
IsRescheduled(s, t) ==
  /\ t.phase = s.phase /\ (t.timer => s.timer \/ s.phase = "failed")
  /\ SameClients(s, t) /\ SameConnect(s, t) /\ SameDisconnect(s, t) /\ SameQueue(s, t)

(* NoSession: the session is given up.                                     *)
IsNoSession(s, t) ==
  /\ t.phase = s.phase /\ t.timer = s.timer /\ t.gen = s.gen /\ t.session = 0
  /\ t.pending = s.pending /\ t.cleanup = s.cleanup /\ t.releasing = s.releasing
  /\ SameConnect(s, t) /\ SameDisconnect(s, t) /\ SameQueue(s, t)

(* ConnectSettled: those who waited for the connect go on.                 *)
IsConnectSettled(s, t) ==
  /\ t.phase = s.phase /\ t.timer = s.timer
  /\ SameClients(s, t) /\ SameDisconnect(s, t)
  /\ t.connect = "none" /\ t.attempt = 0 /\ t.onConnect = <<>>
  /\ t.ready \in {s.ready \o s.onConnect, s.ready \o <<"retry">> \o s.onConnect}
  /\ t.owner = s.owner

(* DisconnectSettled: those who waited for the disconnect go on, if it     *)
(* succeeded.                                                              *)
IsDisconnectSettled(s, t, ok) ==
  /\ t.phase = s.phase /\ t.timer = s.timer
  /\ SameClients(s, t) /\ SameConnect(s, t)
  /\ t.disconnect = "none" /\ t.onDisconnect = <<>>
  /\ t.removing = (s.removing /\ ok)
  /\ t.ready = (IF ok THEN s.ready \o s.onDisconnect ELSE s.ready)
  /\ t.owner = s.owner

(* Attempting: attempt n begins.                                           *)
IsAttempting(s, t, n) ==
  /\ t.phase = "connecting" /\ ~t.timer
  /\ SameClients(s, t) /\ SameDisconnect(s, t) /\ SameQueue(s, t)
  /\ t.connect = "open" /\ t.attempt = n /\ t.onConnect = s.onConnect

(* Adopted: the attempt's client is the session of generation g.           *)
IsAdopted(s, t, g) ==
  /\ t.phase = s.phase /\ t.timer = s.timer /\ t.gen = g /\ t.session = s.attempt
  /\ t.pending = s.pending /\ t.cleanup = s.cleanup /\ t.releasing = s.releasing
  /\ SameConnect(s, t) /\ SameDisconnect(s, t) /\ SameQueue(s, t)

(* The operators are what these relations say.                             *)
LEMMA TransitionFields ==
  ASSUME NEW s \in Entry, NEW p
  PROVE  IsTransition(s, Transition(s, p), p)
BY ZenonT(60) DEF Entry, Transition, IsTransition, SameClients, SameConnect, SameDisconnect,
                  SameQueue

LEMMA NoSessionFields ==
  ASSUME NEW s \in Entry
  PROVE  IsNoSession(s, NoSession(s))
BY ZenonT(60) DEF Entry, NoSession, IsNoSession, SameConnect, SameDisconnect, SameQueue

LEMMA ConnectSettledFields ==
  ASSUME NEW s \in Entry, NEW ok
  PROVE  IsConnectSettled(s, ConnectSettled(s, ok))
<1> DEFINE q == IF s.retrying /\ ~ok THEN s.ready \o <<"retry">> \o s.onConnect
                                     ELSE s.ready \o s.onConnect
           t == ConnectSettled(s, ok)
<1>1. q \in {s.ready \o s.onConnect, s.ready \o <<"retry">> \o s.onConnect}
  OBVIOUS
<1>2. t.ready = q
  BY ZenonT(60) DEF Entry, ConnectSettled
<1>. HIDE DEF q
<1>3. /\ t.phase = s.phase /\ t.timer = s.timer
      /\ SameClients(s, t) /\ SameDisconnect(s, t)
      /\ t.connect = "none" /\ t.attempt = 0 /\ t.onConnect = <<>>
      /\ t.owner = s.owner
  BY ZenonT(60) DEF Entry, ConnectSettled, SameClients, SameDisconnect
<1>. QED BY <1>1, <1>2, <1>3 DEF IsConnectSettled

LEMMA DisconnectSettledFields ==
  ASSUME NEW s \in Entry, NEW ok
  PROVE  IsDisconnectSettled(s, DisconnectSettled(s, ok), ok)
BY ZenonT(60) DEF Entry, DisconnectSettled, IsDisconnectSettled, SameClients, SameConnect

LEMMA RescheduledFields ==
  ASSUME NEW s \in Entry
  PROVE  IsRescheduled(s, Rescheduled(s))
<1>1. CASE ~MayReconnect(s)
  BY <1>1 DEF Rescheduled, IsRescheduled, SameClients, SameConnect, SameDisconnect, SameQueue
<1>2. CASE MayReconnect(s)
  <2> DEFINE resets  == s.def \in ResetLater /\ s.streak = "elapsed"
             spent   == IF resets THEN 0 ELSE s.tries
             started == IF s.streak = "none" THEN "tried" ELSE s.streak
             tries   == IF spent < MaxTries THEN spent + 1 ELSE spent
             arms    == spent < MaxTries
             t       == [s EXCEPT !.streak = started, !.tries = tries, !.timer = arms]
  <2>1. Rescheduled(s) = t
    BY <1>2, Zenon DEF Rescheduled
  <2>2. s.phase = "failed"
    BY <1>2, Zenon DEF MayReconnect
  <2>. HIDE DEF started, tries, arms
  <2>3. t.phase = s.phase /\ SameClients(s, t) /\ SameConnect(s, t)
    BY ZenonT(60) DEF Entry, SameClients, SameConnect
  <2>4. SameDisconnect(s, t) /\ SameQueue(s, t)
    BY ZenonT(60) DEF Entry, SameDisconnect, SameQueue
  <2>. QED BY <2>1, <2>2, <2>3, <2>4, Zenon DEF IsRescheduled
<1>. QED BY <1>1, <1>2

LEMMA AttemptingFields ==
  ASSUME NEW s \in Entry, NEW n
  PROVE  IsAttempting(s, Attempting(s, n), n)
BY ZenonT(60) DEF Entry, Attempting, Transition, IsAttempting, SameClients, SameDisconnect,
                  SameQueue

LEMMA AdoptedFields ==
  ASSUME NEW s \in Entry, NEW g
  PROVE  IsAdopted(s, Adopted(s, g), g)
BY ZenonT(60) DEF Entry, Adopted, IsAdopted, SameConnect, SameDisconnect, SameQueue

----------------------------------------------------------------------------
(* The tokens a settled connect task releases.                             *)
LEMMA ReleasedTokens ==
  ASSUME NEW q \in Seq(Continuations), NEW r \in Seq(Continuations),
         NEW u \in {q \o r, q \o <<"retry">> \o r},
         Lacks(q, "disconnect"), Lacks(q, "remove"), Lacks(r, "remove"),
         Once(r, "disconnect")
  PROVE  /\ Lacks(u, "remove") /\ Once(u, "disconnect")
         /\ Lacks(r, "disconnect") => Lacks(u, "disconnect")
<1> DEFINE y == <<"retry">>
<1>1. y \in Seq(Continuations) /\ Lacks(y, "remove") /\ Lacks(y, "disconnect")
  BY DEF Continuations, Lacks
<1>2. q \o y \in Seq(Continuations)
  BY <1>1, ConcatProperties
<1>. HIDE DEF y
<1>3. Lacks(q \o y, "remove") /\ Lacks(q \o y, "disconnect")
  BY <1>1, ConcatTokens
<1>4. /\ Lacks(q \o r, "remove") /\ Once(q \o r, "disconnect")
      /\ Lacks(r, "disconnect") => Lacks(q \o r, "disconnect")
  BY ConcatTokens
<1>5. /\ Lacks(q \o y \o r, "remove") /\ Once(q \o y \o r, "disconnect")
      /\ Lacks(r, "disconnect") => Lacks(q \o y \o r, "disconnect")
  BY <1>2, <1>3, ConcatTokens
<1>6. u \in {q \o r, q \o y \o r}
  BY DEF y
<1>. QED BY <1>4, <1>5, <1>6

(* The clients an entry holds besides that of an attempt.                  *)
InHand(s) == {s.session, s.pending, s.cleanup, s.releasing}

(* What a handler that takes no session away does to an entry: it leaves   *)
(* owner, generation and clients alone, may begin to drain the session,    *)
(* and may begin an attempt.                                               *)
Kept(s, t) ==
  /\ t.owner = s.owner /\ t.gen = s.gen /\ t.session = s.session
  /\ InHand(t) = InHand(s)
  /\ \/ SessionState(t) = SessionState(s)
     \/ SessionState(s) \in {"up", "stuck"} /\ SessionState(t) = "draining"
  /\ \/ t.attempt = s.attempt /\ t.connect = s.connect
     \/ t.attempt = s.attempt /\ s.connect \notin Trying /\ t.connect \notin Trying
     \/ t.attempt = attempts + 1 /\ s.connect \notin Trying /\ t.connect = "open"

(* What the service sees of an entry.                                      *)
LEMMA SessionStates ==
  ASSUME NEW s
  PROVE  /\ s.session = 0 => SessionState(s) = "none"
         /\ s.session # 0 /\ s.phase = "draining" => SessionState(s) = "draining"
         /\ s.session # 0 /\ s.phase = "quarantined" => SessionState(s) = "stuck"
         /\ s.session # 0 /\ s.phase \notin {"draining", "quarantined"} => SessionState(s) = "up"
BY DEF SessionState

(* Two operators of this kind, one after the other, are one.               *)
LEMMA KeptTrans ==
  ASSUME NEW s, NEW t, NEW u, Kept(s, t), Kept(t, u)
  PROVE  Kept(s, u)
BY DEF Kept, Trying

(* So is none at all.                                                      *)
LEMMA KeptSelf ==
  ASSUME NEW s PROVE Kept(s, s)
BY DEF Kept

(* Equal fields, equal order.                                              *)
LEMMA SameOrderly ==
  ASSUME NEW s, NEW t, Same(s, t), NEW b, NEW k, Orderly(s, b, k)
  PROVE  Orderly(t, b, k) /\ Kept(s, t)
<1>1. Kept(s, t)
  BY DEF Same, SameClients, SameConnect, SameQueue, Kept, InHand, SessionState
<1>2. Orderly(t, b, k)
  BY DEF Same, SameClients, SameConnect, SameDisconnect, SameQueue, Orderly, ConnectOrder,
         ClientOrder, DisconnectOrder, TokenOrder, BusyOrder, RemovalOrder, Dead
<1>. QED BY <1>1, <1>2

(* An entry in order is so with fewer operations, too.                     *)
LEMMA OrderlyLess ==
  ASSUME NEW s, NEW b, NEW c, NEW k, Orderly(s, b, k), c => b
  PROVE  Orderly(s, c, k)
BY DEF Orderly, BusyOrder, RemovalOrder

(* A reconnect may be scheduled.                                           *)
LEMMA RescheduledOrderly ==
  ASSUME NEW c, NEW s \in Sound(c), NEW b, NEW k, Orderly(s, b, k)
  PROVE  Orderly(Rescheduled(s), b, k) /\ Kept(s, Rescheduled(s))
<1> DEFINE t == Rescheduled(s)
<1>1. IsRescheduled(s, t)
  BY SoundIs, RescheduledFields
<1>. HIDE DEF t
<1>2. Kept(s, t)
  BY <1>1 DEF IsRescheduled, SameClients, SameConnect, SameQueue, Kept, InHand, SessionState
<1>3. Orderly(t, b, k)
  BY <1>1 DEF IsRescheduled, SameClients, SameConnect, SameDisconnect, SameQueue, Orderly,
         ConnectOrder, ClientOrder, DisconnectOrder, TokenOrder, BusyOrder, RemovalOrder, Dead
<1>. QED BY <1>2, <1>3 DEF t

(* An attempt may begin where nothing is up, parked, kept or waited for.   *)
LEMMA AttemptingOrderly ==
  ASSUME NEW c, NEW s \in Sound(c), NEW k, Orderly(s, FALSE, k), k,
         s.session = 0, s.pending = 0, s.cleanup = 0,
         s.connect \in {"none", "drain"},
         s.disconnect = "none" \/ s.connect = "drain",
         s.phase # "draining", Lacks(s.ready, "remove")
  PROVE  Orderly(Attempting(s, attempts + 1), FALSE, k) /\ Kept(s, Attempting(s, attempts + 1))
<1> DEFINE t == Attempting(s, attempts + 1)
<1>1. IsAttempting(s, t, attempts + 1)
  BY SoundIs, AttemptingFields
<1>. HIDE DEF t
<1>2. Kept(s, t)
  BY <1>1 DEF IsAttempting, SameClients, SameQueue, Kept, InHand, SessionState, Trying
<1>3. Orderly(t, FALSE, k)
  BY <1>1 DEF IsAttempting, SameClients, SameDisconnect, SameQueue, Orderly, Trying, Ahead,
         ConnectOrder, ClientOrder, DisconnectOrder, TokenOrder, BusyOrder, RemovalOrder, Dead
<1>. QED BY <1>2, <1>3 DEF t

(* connect() of an entry: it waits for a disconnect, joins, starts an      *)
(* attempt, or waits for operations of the old session.                    *)
LEMMA ConnectedOrderly ==
  ASSUME NEW c, NEW s \in Sound(c), NEW b \in BOOLEAN, Orderly(s, b, TRUE)
  PROVE  Orderly(Connected(s, b, attempts + 1), b, TRUE) /\ Kept(s, Connected(s, b, attempts + 1))
<1> DEFINE t == [s EXCEPT !.connect = "drain"]
           joined == \E i \in DOMAIN s.onDisconnect : s.onDisconnect[i] = "connect"
           q == IF joined THEN s.onDisconnect ELSE Append(s.onDisconnect, "connect")
           u == [s EXCEPT !.onDisconnect = q]
           blocked == s.phase \in {"quarantined", "authorizing"} \/ s.removing
           moot == s.connect # "none" \/ (Usable(s) /\ s.session # 0)
<1>0. s \in Entry /\ s.phase \in Phases /\ s.connect \in ConnectAt
  BY SoundIs DEF Entry
<1>1. CASE s.disconnect # "none"
  <2>1. s.onDisconnect \in Seq(Continuations) /\ "connect" \in Continuations
    BY <1>0 DEF Entry, Continuations
  <2>2. /\ Lacks(q, "disconnect") <=> Lacks(s.onDisconnect, "disconnect")
        /\ Lacks(q, "remove") <=> Lacks(s.onDisconnect, "remove")
    BY <2>1, AppendTokens
  <2>. HIDE DEF q
  <2>3. /\ u.phase = s.phase /\ u.timer = s.timer
        /\ SameClients(s, u) /\ SameConnect(s, u) /\ SameQueue(s, u)
        /\ u.disconnect = s.disconnect /\ u.onDisconnect = q /\ u.removing = s.removing
    BY <1>0, ZenonT(60) DEF Entry, SameClients, SameConnect, SameQueue
  <2>4. Connected(s, b, attempts + 1) \in {s, u}
    BY <1>1, Zenon DEF Connected, q
  <2>. HIDE DEF u
  <2>5. Kept(s, u)
    BY <2>3 DEF SameClients, SameConnect, SameQueue, Kept, InHand, SessionState
  <2>6. Orderly(u, b, TRUE)
    BY <1>1, <2>2, <2>3 DEF SameClients, SameConnect, SameQueue, Orderly, ConnectOrder, ClientOrder,
         DisconnectOrder, TokenOrder, BusyOrder, RemovalOrder, Dead
  <2>. QED BY <2>4, <2>5, <2>6, KeptSelf
<1>2. CASE s.disconnect = "none" /\ (blocked \/ moot)
  <2>1. Connected(s, b, attempts + 1) = s
    BY <1>2, Zenon DEF Connected
  <2>. QED BY <2>1, KeptSelf
<1>3. CASE s.disconnect = "none" /\ ~blocked /\ ~moot
  <2>1. Connected(s, b, attempts + 1) = IF b THEN t ELSE Attempting(s, attempts + 1)
    BY <1>3, Zenon DEF Connected
  <2>2. /\ s.session = 0 /\ s.pending = 0 /\ s.cleanup = 0 /\ s.connect = "none"
        /\ s.phase \in {"failed", "offline", "online", "degraded"}
        /\ Lacks(s.ready, "remove")
    BY <1>0, <1>3 DEF Orderly, ConnectOrder, ClientOrder, DisconnectOrder, RemovalOrder, Phases,
         Ahead, Trying, Usable
  <2>3. CASE ~b
    BY <2>1, <2>2, <2>3, <1>3, AttemptingOrderly
  <2>4. CASE b
    <3>1. /\ t.phase = s.phase /\ t.timer = s.timer
          /\ SameClients(s, t) /\ SameDisconnect(s, t) /\ SameQueue(s, t)
          /\ t.connect = "drain" /\ t.attempt = s.attempt /\ t.onConnect = s.onConnect
      BY <1>0, ZenonT(60) DEF Entry, SameClients, SameDisconnect, SameQueue
    <3>. HIDE DEF t
    <3>2. Kept(s, t)
      BY <2>2, <3>1 DEF SameClients, SameQueue, Kept, InHand, SessionState, Trying
    <3>3. Orderly(t, b, TRUE)
      BY <1>3, <2>2, <3>1 DEF SameClients, SameDisconnect, SameQueue, Orderly, ConnectOrder,
         ClientOrder, DisconnectOrder, TokenOrder, BusyOrder, RemovalOrder, Dead, Trying
    <3>. QED BY <2>1, <2>4, <3>2, <3>3
  <2>. QED BY <2>3, <2>4
<1>. QED BY <1>1, <1>2, <1>3

(* Going offline at the end of a disconnect: nothing is left of the        *)
(* connection.                                                             *)
IsWentOffline(s, t) ==
  /\ t.phase = "offline" /\ ~t.timer
  /\ SameClients(s, t) /\ SameConnect(s, t)
  /\ t.disconnect = "none" /\ t.onDisconnect = <<>> /\ t.removing = s.removing
  /\ t.ready = s.ready \o s.onDisconnect /\ t.owner = s.owner

(* WentOffline is what the relation says.                                  *)
LEMMA WentOfflineFields ==
  ASSUME NEW c, NEW s \in Sound(c)
  PROVE  IsWentOffline(s, WentOffline(s))
<1> DEFINE u == Transition(s, "offline")
           t == DisconnectSettled(u, TRUE)
<1>1. s \in Entry /\ "offline" \in Phases
  BY SoundIs DEF Phases
<1>2. IsTransition(s, u, "offline") /\ u \in Entry /\ u.removing \in BOOLEAN
  BY <1>1, TransitionFields, TransitionSound, SoundIs DEF Entry
<1>. HIDE DEF u
<1>3. IsDisconnectSettled(u, t, TRUE)
  BY <1>2, DisconnectSettledFields
<1>4. t = WentOffline(s)
  BY DEF WentOffline, u
<1>. HIDE DEF t
<1>5. IsWentOffline(s, t)
  BY <1>2, <1>3 DEF IsTransition, IsDisconnectSettled, IsWentOffline, SameClients, SameConnect,
     SameDisconnect, SameQueue
<1>. QED BY <1>4, <1>5

(* The entry, none of whose clients is left, is in order and dead.         *)
LEMMA WentOfflineOrderly ==
  ASSUME NEW c, NEW s \in Sound(c), NEW b, NEW k, Orderly(s, b, k), ~b,
         s.connect = "none", Lacks(s.ready, "disconnect"),
         NEW x \in Sound(c), x.gen = s.gen,
         x.session = 0, x.pending = 0, x.cleanup = 0, x.releasing = 0,
         SameConnect(s, x), SameDisconnect(s, x), SameQueue(s, x)
  PROVE  Orderly(WentOffline(x), b, k) /\ Dead(WentOffline(x))
<1> DEFINE t == WentOffline(x)
<1>1. IsWentOffline(x, t)
  BY WentOfflineFields
<1>2. s.ready \in Seq(Continuations) /\ s.onDisconnect \in Seq(Continuations)
  <2>1. s \in Entry
    BY SoundIs
  <2>. QED BY <2>1 DEF Entry
<1>. HIDE DEF t
<1>3. t.ready = s.ready \o s.onDisconnect
  BY <1>1 DEF IsWentOffline, SameDisconnect, SameQueue
<1>4. /\ Lacks(t.ready, "disconnect")
      /\ Lacks(t.ready, "remove") <=> Lacks(s.ready, "remove") /\ Lacks(s.onDisconnect, "remove")
  BY <1>2, <1>3, ConcatTokens DEF Orderly, TokenOrder
<1>5. s.ready = <<>> /\ s.onDisconnect = <<>> => t.ready = <<>>
  BY <1>3
<1>6. Once(t.ready, "disconnect") /\ Lacks(<<>>, "disconnect") /\ Lacks(<<>>, "remove")
  BY <1>4, EmptyTokens DEF Lacks, Once
<1>7. /\ t.phase = "offline" /\ ~t.timer /\ t.gen = s.gen
      /\ t.session = 0 /\ t.pending = 0 /\ t.cleanup = 0 /\ t.releasing = 0
      /\ t.connect = "none" /\ t.onConnect = s.onConnect
      /\ t.disconnect = "none" /\ t.onDisconnect = <<>>
      /\ t.removing = s.removing /\ t.owner = s.owner
  BY <1>1 DEF IsWentOffline, SameClients, SameConnect, SameDisconnect, SameQueue
<1>8. Orderly(t, b, k)
  BY <1>4, <1>5, <1>6, <1>7 DEF Orderly, ConnectOrder, ClientOrder, DisconnectOrder, TokenOrder,
     BusyOrder, RemovalOrder, Dead, Ahead, Trying
<1>. QED BY <1>7, <1>8 DEF Dead, t

(* A disconnect begins to take the connection down: what it has to close   *)
(* first is the parked client, the kept one or the session; an entry with  *)
(* nothing to close is dead at once.                                       *)
LEMMA DrainingOrderly ==
  ASSUME NEW c, NEW s \in Sound(c), NEW b \in BOOLEAN, NEW k, Orderly(s, b, k),
         s.connect = "none", s.phase # "draining", Lacks(s.ready, "disconnect")
  PROVE  /\ Orderly(Draining(s, b), b, k) /\ Kept(s, Draining(s, b))
         /\ Draining(s, b).disconnect = "none" => Dead(Draining(s, b)) /\ ~b
<1> DEFINE t == [s EXCEPT !.disconnect = "release", !.releasing = s.pending, !.pending = 0]
           u(at) == [s EXCEPT !.disconnect = at]
<1>1. s \in Entry /\ "draining" \in Phases /\ s.pending \in Nat
  BY SoundIs DEF Entry, Phases
<1>2. CASE s.pending # 0
  <2> DEFINE x == Transition(t, "draining")
  <2>1. Draining(s, b) = x
    BY <1>2 DEF Draining
  <2>2. /\ t.phase = s.phase /\ t.timer = s.timer /\ t.gen = s.gen /\ t.session = s.session
        /\ t.pending = 0 /\ t.cleanup = s.cleanup /\ t.releasing = s.pending
        /\ SameConnect(s, t) /\ SameQueue(s, t)
        /\ t.disconnect = "release" /\ t.onDisconnect = s.onDisconnect
        /\ t.removing = s.removing
    BY <1>1, ZenonT(60) DEF Entry, SameConnect, SameQueue
  <2>3. t \in Entry
    <3>1. "release" \in DisconnectAt
      BY DEF DisconnectAt
    <3>. QED BY <1>1, <3>1, ZenonT(60) DEF Entry
  <2>. HIDE DEF t
  <2>4. IsTransition(t, x, "draining")
    BY <2>3, TransitionFields
  <2>. HIDE DEF x
  <2>5. Kept(s, x)
    <3>1. s.session = 0 /\ s.releasing = 0
      BY <1>2 DEF Orderly, ClientOrder, DisconnectOrder, Ahead
    <3>2. SessionState(x) = SessionState(s)
      BY <2>2, <2>4, <3>1, SessionStates DEF IsTransition, SameClients
    <3>3. InHand(x) = InHand(s)
      BY <2>2, <2>4, <3>1 DEF IsTransition, SameClients, InHand
    <3>. QED BY <2>2, <2>4, <3>2, <3>3 DEF IsTransition, SameClients, SameConnect, SameQueue, Kept
  <2>6. Orderly(x, b, k)
    BY <1>2, <2>2, <2>4, EmptyTokens DEF IsTransition, SameClients, SameConnect, SameDisconnect, SameQueue,
       Orderly, ConnectOrder, ClientOrder, DisconnectOrder, TokenOrder, BusyOrder,
       RemovalOrder, Dead, Ahead
  <2>. QED BY <2>1, <2>2, <2>4, <2>5, <2>6 DEF IsTransition, SameDisconnect
<1>3. ASSUME NEW at \in {"cleanup", "drain", "drainDead"}, s.pending = 0,
             at = "cleanup" <=> s.cleanup # 0,
             at = "drain" => s.session # 0,
             at = "drainDead" => s.session = 0 /\ b
      PROVE  /\ Orderly(Transition(u(at), "draining"), b, k)
             /\ Kept(s, Transition(u(at), "draining"))
             /\ Transition(u(at), "draining").disconnect # "none"
  <2> DEFINE v == u(at)
             x == Transition(v, "draining")
  <2>1. /\ v.phase = s.phase /\ v.timer = s.timer /\ SameClients(s, v)
        /\ SameConnect(s, v) /\ SameQueue(s, v)
        /\ v.disconnect = at /\ v.onDisconnect = s.onDisconnect /\ v.removing = s.removing
    BY <1>1, ZenonT(60) DEF Entry, SameClients, SameConnect, SameQueue
  <2>2. v \in Entry
    <3>1. at \in DisconnectAt
      BY DEF DisconnectAt
    <3>. QED BY <1>1, <3>1, ZenonT(60) DEF Entry
  <2>. HIDE DEF v
  <2>3. IsTransition(v, x, "draining")
    BY <2>2, TransitionFields
  <2>. HIDE DEF x
  <2>4. Kept(s, x)
    <3>1. \/ SessionState(x) = SessionState(s)
          \/ SessionState(s) \in {"up", "stuck"} /\ SessionState(x) = "draining"
      BY <2>1, <2>3, SessionStates DEF IsTransition, SameClients
    <3>. QED BY <2>1, <2>3, <3>1 DEF IsTransition, SameClients, SameConnect, SameQueue, Kept, InHand
  <2>5. Orderly(x, b, k)
    BY <1>3, <2>1, <2>3, EmptyTokens, ZenonT(60) DEF IsTransition, SameClients, SameConnect, SameDisconnect, SameQueue,
       Orderly, ConnectOrder, ClientOrder, DisconnectOrder, TokenOrder, BusyOrder,
       RemovalOrder, Dead, Ahead
  <2>6. x.disconnect # "none"
    BY <2>1, <2>3 DEF IsTransition, SameDisconnect
  <2>. QED BY <2>4, <2>5, <2>6 DEF x, v
<1>4. CASE s.pending = 0 /\ s.cleanup # 0
  <2>1. Draining(s, b) = Transition(u("cleanup"), "draining")
    BY <1>4 DEF Draining
  <2>. HIDE DEF u
  <2>. QED BY <1>3, <1>4, <2>1
<1>5. CASE s.pending = 0 /\ s.cleanup = 0 /\ s.session # 0
  <2>1. Draining(s, b) = Transition(u("drain"), "draining")
    BY <1>5 DEF Draining
  <2>. HIDE DEF u
  <2>. QED BY <1>3, <1>5, <2>1
<1>6. CASE s.pending = 0 /\ s.cleanup = 0 /\ s.session = 0 /\ b
  <2>1. Draining(s, b) = Transition(u("drainDead"), "draining")
    BY <1>6 DEF Draining
  <2>. HIDE DEF u
  <2>. QED BY <1>3, <1>6, <2>1
<1>7. CASE s.pending = 0 /\ s.cleanup = 0 /\ s.session = 0 /\ ~b
  <2> DEFINE x == WentOffline(s)
  <2>1. Draining(s, b) = x
    BY <1>7 DEF Draining
  <2>2. s.releasing = 0
    BY DEF Orderly, DisconnectOrder, Ahead
  <2>3. Orderly(x, b, k) /\ Dead(x)
    BY <1>7, <2>2, WentOfflineOrderly DEF SameConnect, SameDisconnect, SameQueue
  <2>4. /\ x.phase = "offline" /\ SameClients(s, x) /\ SameConnect(s, x) /\ x.owner = s.owner
    BY WentOfflineFields DEF IsWentOffline
  <2>. HIDE DEF x
  <2>5. Kept(s, x)
    BY <1>7, <2>4 DEF SameClients, SameConnect, Kept, InHand, SessionState
  <2>. QED BY <1>7, <2>1, <2>3, <2>5
<1>. QED BY <1>2, <1>4, <1>5, <1>6, <1>7

(* disconnect() of an entry: it joins one under way, waits for the connect *)
(* task, or begins.                                                        *)
LEMMA DisconnectingOrderly ==
  ASSUME NEW c, NEW s \in Sound(c), NEW b \in BOOLEAN, NEW k, Orderly(s, b, k)
  PROVE  /\ Orderly(Disconnecting(s, b), b, k) /\ Kept(s, Disconnecting(s, b))
         /\ Disconnecting(s, b).disconnect = "none" => Dead(Disconnecting(s, b)) /\ ~b
<1> DEFINE q == Append(s.onConnect, "disconnect")
           t == [s EXCEPT !.disconnect = "connect", !.onConnect = q]
<1>1. s \in Entry /\ s.onConnect \in Seq(Continuations) /\ "disconnect" \in Continuations
  BY SoundIs DEF Entry, Continuations
<1>2. CASE s.disconnect # "none"
  BY <1>2, KeptSelf DEF Disconnecting
<1>3. CASE s.disconnect = "none" /\ s.connect # "none"
  <2>1. /\ Lacks(q, "remove") <=> Lacks(s.onConnect, "remove")
        /\ Lacks(s.onConnect, "disconnect") => Once(q, "disconnect")
    BY <1>1, AppendTokens
  <2>. HIDE DEF q
  <2>2. /\ t.phase = s.phase /\ t.timer = s.timer /\ SameClients(s, t) /\ SameQueue(s, t)
        /\ t.connect = s.connect /\ t.attempt = s.attempt /\ t.onConnect = q
        /\ t.disconnect = "connect" /\ t.onDisconnect = s.onDisconnect
        /\ t.removing = s.removing
    BY <1>1, ZenonT(60) DEF Entry, SameClients, SameQueue
  <2>3. Disconnecting(s, b) = t
    BY <1>3 DEF Disconnecting, q
  <2>. HIDE DEF t
  <2>4. Kept(s, t)
    BY <2>2 DEF SameClients, SameQueue, Kept, InHand, SessionState
  <2>5. Orderly(t, b, k)
    BY <1>3, <2>1, <2>2 DEF SameClients, SameQueue, Orderly, ConnectOrder, ClientOrder,
       DisconnectOrder, TokenOrder, BusyOrder, RemovalOrder, Dead, Ahead
  <2>. QED BY <2>2, <2>3, <2>4, <2>5
<1>4. CASE s.disconnect = "none" /\ s.connect = "none"
  <2>1. s.phase # "draining" /\ Lacks(s.ready, "disconnect")
    BY <1>4 DEF Orderly, DisconnectOrder, TokenOrder, Ahead
  <2>2. Disconnecting(s, b) = Draining(s, b)
    BY <1>4 DEF Disconnecting
  <2>. QED BY <1>4, <2>1, <2>2, DrainingOrderly
<1>. QED BY <1>2, <1>3, <1>4

----------------------------------------------------------------------------
(* The end of a connect task: what has become of the attempt's client, and *)
(* the phase that goes with it.                                            *)
Ended(s, t) ==
  /\ t.connect = "none" /\ t.attempt = 0 /\ t.onConnect = <<>>
  /\ t.ready \in {s.ready \o s.onConnect, s.ready \o <<"retry">> \o s.onConnect}
  /\ SameDisconnect(s, t) /\ t.owner = s.owner /\ t.releasing = s.releasing
  /\ t.timer => s.timer /\ t.phase = "failed"
  /\ t.session # 0 => t.gen # 0
  /\ \/ t.phase = "failed" /\ t.session = 0 /\ t.pending = 0 /\ t.cleanup = 0
     \/ t.phase = "quarantined" /\ t.session = 0 /\ t.pending = 0
     \/ t.phase = "authorizing" /\ t.session = 0 /\ t.cleanup = 0
     \/ t.phase = "online" /\ t.pending = 0 /\ t.cleanup = 0

(* Such an entry is in order.                                              *)
LEMMA EndedOrderly ==
  ASSUME NEW c, NEW s \in Sound(c), NEW b, NEW k, Orderly(s, b, k), s.connect \in Trying,
         NEW t, Ended(s, t)
  PROVE  Orderly(t, b, k)
<1>1. /\ s.ready \in Seq(Continuations) /\ s.onConnect \in Seq(Continuations)
  BY SoundIs DEF Entry
<1>2. /\ Lacks(s.ready, "disconnect") /\ Lacks(s.ready, "remove")
      /\ Lacks(s.onConnect, "remove") /\ Once(s.onConnect, "disconnect")
  BY DEF Orderly, TokenOrder, RemovalOrder, Dead, Trying
<1>3. /\ Lacks(t.ready, "remove") /\ Once(t.ready, "disconnect")
      /\ Lacks(s.onConnect, "disconnect") => Lacks(t.ready, "disconnect")
  BY <1>1, <1>2, ReleasedTokens DEF Ended
<1>4. ~b /\ k /\ s.owner # None
  BY DEF Orderly, BusyOrder, RemovalOrder, Dead, Trying
<1>. QED BY <1>2, <1>3, <1>4, EmptyTokens DEF Ended, SameDisconnect, Orderly, ConnectOrder,
            ClientOrder, DisconnectOrder, TokenOrder, BusyOrder, RemovalOrder, Dead,
            Trying, Ahead

(* A connect task that has settled in phase p, and what is left alone.     *)
IsSettled(s, t, p) ==
  /\ t.connect = "none" /\ t.attempt = 0 /\ t.onConnect = <<>>
  /\ t.ready \in {s.ready \o s.onConnect, s.ready \o <<"retry">> \o s.onConnect}
  /\ SameClients(s, t) /\ SameDisconnect(s, t) /\ t.owner = s.owner
  /\ t.phase = p /\ (t.timer => s.timer /\ p = "failed")

(* A connect task that ends in phase p with the given clients.             *)
LEMMA SettledEnds ==
  ASSUME NEW c, NEW s \in Sound(c), NEW p \in Phases, NEW ok
  PROVE  IsSettled(s, ConnectSettled(Transition(s, p), ok), p)
<1> DEFINE u == Transition(s, p)
           t == ConnectSettled(u, ok)
<1>1. s \in Entry /\ u \in Entry
  BY SoundIs, TransitionSound
<1>2. IsTransition(s, u, p)
  BY <1>1, TransitionFields
<1>. HIDE DEF u
<1>3. IsConnectSettled(u, t)
  BY <1>1, ConnectSettledFields
<1>. HIDE DEF t
<1>4. IsSettled(s, t, p)
  BY <1>2, <1>3 DEF IsSettled, IsTransition, IsConnectSettled, SameClients, SameConnect, SameDisconnect,
     SameQueue
<1>. QED BY <1>4 DEF t, u

(* An attempt that failed and left nothing behind.                         *)
LEMMA FailedOrderly ==
  ASSUME NEW c, NEW s \in Sound(c), NEW b, NEW k, Orderly(s, b, k),
         s.connect \in {"open", "cleanup"}
  PROVE  LET t == ConnectSettled(Transition(s, "failed"), FALSE)
         IN  /\ Orderly(t, b, k) /\ SameClients(s, t) /\ t.connect = "none"
             /\ t.attempt = 0 /\ t.owner = s.owner /\ t.phase = "failed"
<1> DEFINE t == ConnectSettled(Transition(s, "failed"), FALSE)
<1>1. "failed" \in Phases
  BY DEF Phases
<1>2. IsSettled(s, t, "failed")
  BY <1>1, SettledEnds, Zenon
<1>. HIDE DEF t
<1>3. Ended(s, t)
  BY <1>2 DEF IsSettled, Ended, SameClients, Orderly, ConnectOrder, ClientOrder
<1>4. Orderly(t, b, k)
  BY <1>3, EndedOrderly DEF Trying
<1>. QED BY <1>2, <1>4 DEF t, IsSettled

(* The client of an attempt is set aside: quarantined, or parked for the   *)
(* authorization round.                                                    *)
LEMMA SetAsideOrderly ==
  ASSUME NEW c, NEW s \in Sound(c), NEW b, NEW k, Orderly(s, b, k),
         s.connect \in {"open", "cleanup"}
  PROVE  LET t == ConnectSettled(Transition([s EXCEPT !.cleanup = s.attempt], "quarantined"), FALSE)
             u == ConnectSettled(Transition([s EXCEPT !.pending = s.attempt], "authorizing"), FALSE)
         IN  /\ Orderly(t, b, k) /\ t.cleanup = s.attempt /\ t.pending = s.pending
             /\ t.releasing = s.releasing /\ t.session = s.session /\ t.gen = s.gen
             /\ t.connect = "none" /\ t.attempt = 0 /\ t.owner = s.owner
             /\ t.phase = "quarantined"
             /\ Orderly(u, b, k) /\ u.pending = s.attempt /\ u.cleanup = s.cleanup
             /\ u.releasing = s.releasing /\ u.session = s.session /\ u.gen = s.gen
             /\ u.connect = "none" /\ u.attempt = 0 /\ u.owner = s.owner
             /\ u.phase = "authorizing"
<1> DEFINE x == [s EXCEPT !.cleanup = s.attempt]
           t == ConnectSettled(Transition(x, "quarantined"), FALSE)
           y == [s EXCEPT !.pending = s.attempt]
           u == ConnectSettled(Transition(y, "authorizing"), FALSE)
<1>1. /\ s \in Entry /\ s.attempt \in Nat /\ "none" \in ConnectAt /\ "none" \in Streaks
      /\ s.ready \in Seq(Continuations) /\ s.def \in Defs
      /\ "quarantined" \in Phases /\ "authorizing" \in Phases
  BY SoundIs DEF Entry, ConnectAt, Streaks, Phases
<1>2. x \in Sound(c) /\ y \in Sound(c)
  BY <1>1, Recording
<1>3. /\ x.phase = s.phase /\ x.timer = s.timer /\ x.gen = s.gen /\ x.session = s.session
      /\ x.pending = s.pending /\ x.cleanup = s.attempt /\ x.releasing = s.releasing
      /\ SameConnect(s, x) /\ SameDisconnect(s, x) /\ SameQueue(s, x)
  BY <1>1, ZenonT(60) DEF Entry, SameConnect, SameDisconnect, SameQueue
<1>4. /\ y.phase = s.phase /\ y.timer = s.timer /\ y.gen = s.gen /\ y.session = s.session
      /\ y.pending = s.attempt /\ y.cleanup = s.cleanup /\ y.releasing = s.releasing
      /\ SameConnect(s, y) /\ SameDisconnect(s, y) /\ SameQueue(s, y)
  BY <1>1, ZenonT(60) DEF Entry, SameConnect, SameDisconnect, SameQueue
<1>. HIDE DEF x, y
<1>5. IsSettled(x, t, "quarantined")
  BY <1>1, <1>2, SettledEnds, Zenon
<1>6. IsSettled(y, u, "authorizing")
  BY <1>1, <1>2, SettledEnds, Zenon
<1>. HIDE DEF t, u
<1>7. Ended(s, t)
  BY <1>3, <1>5 DEF IsSettled, Ended, SameClients, SameConnect, SameDisconnect, SameQueue, Orderly,
     ConnectOrder, ClientOrder
<1>8. Ended(s, u)
  BY <1>4, <1>6 DEF IsSettled, Ended, SameClients, SameConnect, SameDisconnect, SameQueue, Orderly,
     ConnectOrder, ClientOrder
<1>9. Orderly(t, b, k) /\ Orderly(u, b, k)
  BY <1>7, <1>8, EndedOrderly DEF Trying
<1>10. /\ t.cleanup = s.attempt /\ t.pending = s.pending /\ t.releasing = s.releasing
       /\ t.session = s.session /\ t.gen = s.gen /\ t.owner = s.owner
       /\ u.pending = s.attempt /\ u.cleanup = s.cleanup /\ u.releasing = s.releasing
       /\ u.session = s.session /\ u.gen = s.gen /\ u.owner = s.owner
  BY <1>3, <1>4, <1>5, <1>6 DEF IsSettled, SameClients, SameQueue
<1>. QED BY <1>5, <1>6, <1>9, <1>10 DEF IsSettled, t, u, x, y

(* A connect that succeeds goes online, at once or when its listen stream  *)
(* has been repaired.                                                      *)
LEMMA OnlineOrderly ==
  ASSUME NEW c, NEW s \in Sound(c), NEW b, NEW k, Orderly(s, b, k), s.connect = "listen"
  PROVE  LET t == Online(s)
         IN  /\ Orderly(t, b, k) /\ SameClients(s, t) /\ t.connect = "none"
             /\ t.attempt = 0 /\ t.owner = s.owner /\ t.phase = "online"
<1> DEFINE t == ConnectSettled(Transition(s, "online"), TRUE)
<1>1. "online" \in Phases
  BY DEF Phases
<1>2. IsSettled(s, t, "online")
  BY <1>1, SettledEnds, Zenon
<1>. HIDE DEF t
<1>3. Ended(s, t)
  BY <1>2 DEF IsSettled, Ended, SameClients, Orderly, ConnectOrder, ClientOrder
<1>4. Orderly(t, b, k)
  BY <1>3, EndedOrderly DEF Trying
<1>. QED BY <1>2, <1>4 DEF t, Online, IsSettled

(* A connect that goes online with the session it has adopted.             *)
LEMMA AdoptedOrderly ==
  ASSUME NEW c, NEW s \in Sound(c), NEW b, NEW k, Orderly(s, b, k), s.connect = "open",
         NEW g \in Nat \ {0}
  PROVE  LET a == Adopted(s, g)
             t == Online(a)
             u == [a EXCEPT !.connect = "listen"]
         IN  /\ Orderly(t, b, k) /\ t.session = s.attempt /\ t.gen = g /\ t.owner = s.owner
             /\ t.pending = 0 /\ t.cleanup = 0 /\ t.releasing = s.releasing
             /\ t.connect = "none" /\ t.attempt = 0 /\ t.phase = "online"
             /\ Orderly(u, b, k) /\ u.session = s.attempt /\ u.gen = g /\ u.owner = s.owner
             /\ u.pending = 0 /\ u.cleanup = 0 /\ u.releasing = s.releasing
             /\ u.connect = "listen" /\ u.attempt = s.attempt /\ u.phase = "connecting"
<1> DEFINE a == Adopted(s, g)
           t == ConnectSettled(Transition(a, "online"), TRUE)
           u == [a EXCEPT !.connect = "listen"]
<1>1. s \in Entry /\ a \in Sound(c) /\ a \in Entry /\ "online" \in Phases
  BY SoundIs, AdoptedSound DEF Phases
<1>2. IsAdopted(s, a, g)
  BY <1>1, AdoptedFields
<1>3. s.phase = "connecting" /\ s.pending = 0 /\ s.cleanup = 0
  BY DEF Orderly, ConnectOrder
<1>. HIDE DEF a
<1>4. IsSettled(a, t, "online")
  BY <1>1, SettledEnds, Zenon
<1>5. /\ u.phase = a.phase /\ u.timer = a.timer /\ SameClients(a, u)
      /\ SameDisconnect(a, u) /\ SameQueue(a, u)
      /\ u.connect = "listen" /\ u.attempt = a.attempt /\ u.onConnect = a.onConnect
  BY <1>1, ZenonT(60) DEF Entry, SameClients, SameDisconnect, SameQueue
<1>. HIDE DEF t, u
<1>6. Ended(s, t)
  BY <1>2, <1>3, <1>4 DEF IsSettled, IsAdopted, Ended, SameClients, SameConnect, SameDisconnect, SameQueue
<1>7. Orderly(t, b, k)
  BY <1>6, EndedOrderly DEF Trying
<1>8. Orderly(u, b, k)
  BY <1>2, <1>3, <1>5 DEF IsAdopted, SameClients, SameConnect, SameDisconnect, SameQueue, Orderly,
     ConnectOrder, ClientOrder, DisconnectOrder, TokenOrder, BusyOrder, RemovalOrder, Dead,
     Trying, Ahead
<1>9. /\ t.session = s.attempt /\ t.gen = g /\ t.owner = s.owner
      /\ t.pending = 0 /\ t.cleanup = 0 /\ t.releasing = s.releasing
      /\ u.session = s.attempt /\ u.gen = g /\ u.owner = s.owner
      /\ u.pending = 0 /\ u.cleanup = 0 /\ u.releasing = s.releasing
      /\ u.attempt = s.attempt /\ u.phase = "connecting"
  BY <1>2, <1>3, <1>4, <1>5 DEF IsSettled, IsAdopted, SameClients, SameConnect, SameQueue
<1>. QED BY <1>4, <1>5, <1>7, <1>8, <1>9 DEF IsSettled, t, u, a, Online

----------------------------------------------------------------------------
(* The ends of a disconnect task.                                          *)
LEMMA TakenDownOrderly ==
  ASSUME NEW c, NEW s \in Sound(c), NEW b, NEW k, Orderly(s, b, k), ~b,
         s.disconnect \notin Ahead
  PROVE  /\ s.disconnect = "release" =>
              /\ Orderly(WentOffline([s EXCEPT !.releasing = 0]), b, k)
              /\ IsWentOffline([s EXCEPT !.releasing = 0], WentOffline([s EXCEPT !.releasing = 0]))
         /\ s.disconnect = "cleanup" =>
              /\ Orderly(WentOffline([s EXCEPT !.cleanup = 0]), b, k)
              /\ IsWentOffline([s EXCEPT !.cleanup = 0], WentOffline([s EXCEPT !.cleanup = 0]))
         /\ s.disconnect = "drainDead" =>
              /\ Orderly(WentOffline(s), b, k)
              /\ IsWentOffline(s, WentOffline(s))
         /\ s.disconnect = "close" =>
              /\ Orderly(WentOffline(NoSession(s)), b, k)
              /\ IsWentOffline(NoSession(s), WentOffline(NoSession(s)))
<1> DEFINE x == [s EXCEPT !.releasing = 0]
           y == [s EXCEPT !.cleanup = 0]
           z == NoSession(s)
<1>1. /\ s \in Entry /\ 0 \in Nat
  BY SoundIs
<1>2. /\ "none" \in ConnectAt /\ "none" \in Streaks /\ s.ready \in Seq(Continuations)
      /\ s.def \in Defs
  BY <1>1 DEF Entry, ConnectAt, Streaks
<1>3. x \in Sound(c) /\ y \in Sound(c) /\ z \in Sound(c)
  BY <1>1, <1>2, Recording, NoSessionSound
<1>4. /\ x.gen = s.gen /\ x.session = s.session /\ x.pending = s.pending
      /\ x.cleanup = s.cleanup /\ x.releasing = 0
      /\ SameConnect(s, x) /\ SameDisconnect(s, x) /\ SameQueue(s, x)
  BY <1>1, ZenonT(60) DEF Entry, SameConnect, SameDisconnect, SameQueue
<1>5. /\ y.gen = s.gen /\ y.session = s.session /\ y.pending = s.pending
      /\ y.cleanup = 0 /\ y.releasing = s.releasing
      /\ SameConnect(s, y) /\ SameDisconnect(s, y) /\ SameQueue(s, y)
  BY <1>1, ZenonT(60) DEF Entry, SameConnect, SameDisconnect, SameQueue
<1>6. IsNoSession(s, z)
  BY <1>1, NoSessionFields
<1>. HIDE DEF x, y, z
<1>7. /\ s.connect = "none" /\ Lacks(s.ready, "disconnect") /\ s.pending = 0
      /\ s.disconnect \in {"release", "cleanup", "drainDead"} => s.session = 0
      /\ s.disconnect # "cleanup" => s.cleanup = 0
      /\ s.disconnect # "release" => s.releasing = 0
  BY DEF Orderly, ClientOrder, DisconnectOrder, TokenOrder, Ahead
<1>8. CASE s.disconnect = "release"
  <2>1. Orderly(WentOffline(x), b, k)
    BY <1>3, <1>4, <1>7, <1>8, WentOfflineOrderly
  <2>. QED BY <1>3, <1>8, <2>1, WentOfflineFields DEF x
<1>9. CASE s.disconnect = "cleanup"
  <2>1. Orderly(WentOffline(y), b, k)
    BY <1>3, <1>5, <1>7, <1>9, WentOfflineOrderly
  <2>. QED BY <1>3, <1>9, <2>1, WentOfflineFields DEF y
<1>10. CASE s.disconnect = "drainDead"
  <2>1. Orderly(WentOffline(s), b, k)
    BY <1>7, <1>10, WentOfflineOrderly DEF SameConnect, SameDisconnect, SameQueue
  <2>. QED BY <1>10, <2>1, WentOfflineFields
<1>11. CASE s.disconnect = "close"
  <2>1. Orderly(WentOffline(z), b, k)
    BY <1>3, <1>6, <1>7, <1>11, WentOfflineOrderly DEF IsNoSession
  <2>. QED BY <1>3, <1>11, <2>1, WentOfflineFields DEF z
<1>12. CASE s.disconnect \notin {"release", "cleanup", "drainDead", "close"}
  BY <1>12
<1>. QED BY <1>8, <1>9, <1>10, <1>11, <1>12

(* A close that failed: the session stays, in quarantine.                  *)
LEMMA QuarantinedOrderly ==
  ASSUME NEW c, NEW s \in Sound(c), NEW b, NEW k, Orderly(s, b, k),
         s.disconnect \in {"cleanup", "close"}
  PROVE  LET t == DisconnectSettled(Transition(s, "quarantined"), FALSE)
         IN  /\ Orderly(t, b, k) /\ SameClients(s, t) /\ SameConnect(s, t)
             /\ t.owner = s.owner /\ t.phase = "quarantined"
<1> DEFINE u == Transition(s, "quarantined")
           t == DisconnectSettled(u, FALSE)
<1>0. "quarantined" \in Phases
  BY DEF Phases
<1>1. s \in Entry /\ u \in Entry
  BY <1>0, SoundIs, TransitionSound
<1>2. IsTransition(s, u, "quarantined")
  BY <1>1, TransitionFields
<1>. HIDE DEF u
<1>3. IsDisconnectSettled(u, t, FALSE)
  BY <1>1, DisconnectSettledFields
<1>. HIDE DEF t
<1>4. /\ t.phase = "quarantined" /\ ~t.timer /\ SameClients(s, t) /\ SameConnect(s, t)
      /\ t.disconnect = "none" /\ t.onDisconnect = <<>> /\ ~t.removing
      /\ t.ready = s.ready /\ t.owner = s.owner
  BY <1>2, <1>3 DEF IsTransition, IsDisconnectSettled, SameClients, SameConnect, SameDisconnect,
     SameQueue
<1>5. Orderly(t, b, k)
  BY <1>4, EmptyTokens DEF SameClients, SameConnect, Orderly, ConnectOrder, ClientOrder,
     DisconnectOrder, TokenOrder, BusyOrder, RemovalOrder, Dead, Trying, Ahead
<1>. QED BY <1>4, <1>5 DEF t, u

(* No operation is left on a session that drains: it is closed next.       *)

(* A session has drained.                                                  *)
LEMMA DrainedOrderly ==
  ASSUME NEW c, NEW s \in Sound(c), NEW b, NEW k, Orderly(s, b, k), ~b, s.disconnect = "drain"
  PROVE  LET t == [s EXCEPT !.disconnect = "close"]
         IN  Orderly(t, b, k) /\ Kept(s, t)
<1> DEFINE t == [s EXCEPT !.disconnect = "close"]
<1>1. s \in Entry
  BY SoundIs
<1>2. /\ t.phase = s.phase /\ t.timer = s.timer /\ SameClients(s, t) /\ SameConnect(s, t)
      /\ t.disconnect = "close" /\ t.onDisconnect = s.onDisconnect /\ t.removing = s.removing
      /\ SameQueue(s, t)
  BY <1>1, ZenonT(60) DEF Entry, SameClients, SameConnect, SameQueue
<1>. HIDE DEF t
<1>3. Kept(s, t)
  BY <1>2 DEF SameClients, SameConnect, SameQueue, Kept, InHand, SessionState
<1>4. Orderly(t, b, k)
  BY <1>2 DEF SameClients, SameConnect, SameQueue, Orderly, ConnectOrder, ClientOrder,
     DisconnectOrder, TokenOrder, BusyOrder, RemovalOrder, Dead, Ahead
<1>. QED BY <1>3, <1>4 DEF t

(* A session that breaks leaves the connection failed, unless it is being  *)
(* taken down.                                                             *)
LEMMA LostOrderly ==
  ASSUME NEW c, NEW s \in Sound(c), NEW b, NEW k, Orderly(s, b, k),
         s.session # 0, s.phase # "draining"
  PROVE  LET t == Lost(s, s.session)
         IN  /\ Orderly(t, b, k) /\ t.session = 0 /\ t.gen = s.gen /\ t.owner = s.owner
             /\ t.pending = s.pending /\ t.cleanup = s.cleanup /\ t.releasing = s.releasing
             /\ t.connect = s.connect /\ t.attempt = s.attempt /\ t.phase = "failed"
<1> DEFINE x == NoSession(s)
           y == Transition(x, "failed")
           t == Rescheduled(y)
<1>0. "failed" \in Phases
  BY DEF Phases
<1>1. s \in Entry /\ x \in Sound(c) /\ y \in Sound(c)
  BY <1>0, SoundIs, NoSessionSound, TransitionSound
<1>2. x \in Entry /\ y \in Entry
  BY <1>1, SoundIs
<1>3. IsNoSession(s, x)
  BY <1>1, NoSessionFields
<1>4. s.phase # "offline"
  BY DEF Orderly, ClientOrder
<1>5. Lost(s, s.session) = t
  BY <1>4 DEF Lost
<1>. HIDE DEF x
<1>6. IsTransition(x, y, "failed")
  BY <1>2, TransitionFields
<1>. HIDE DEF y
<1>7. IsRescheduled(y, t)
  BY <1>2, RescheduledFields
<1>. HIDE DEF t
<1>8. /\ t.phase = "failed" /\ t.gen = s.gen /\ t.session = 0 /\ t.pending = s.pending
      /\ t.cleanup = s.cleanup /\ t.releasing = s.releasing
      /\ SameConnect(s, t) /\ SameDisconnect(s, t) /\ SameQueue(s, t)
  BY <1>3, <1>6, <1>7 DEF IsNoSession, IsTransition, IsRescheduled, SameClients, SameConnect,
     SameDisconnect, SameQueue
<1>9. Orderly(t, b, k)
  BY <1>8 DEF SameConnect, SameDisconnect, SameQueue, Orderly, ConnectOrder, ClientOrder,
     DisconnectOrder, TokenOrder, BusyOrder, RemovalOrder, Dead, Trying, Ahead
<1>. QED BY <1>5, <1>8, <1>9 DEF SameConnect, SameQueue

----------------------------------------------------------------------------
(* Fields the order does not speak of.                                     *)
LEMMA MarksOrderly ==
  ASSUME NEW c, NEW s \in Sound(c), NEW b, NEW k, Orderly(s, b, k), NEW v
  PROVE  /\ Orderly([s EXCEPT !.swap = v], b, k) /\ Kept(s, [s EXCEPT !.swap = v])
         /\ Orderly([s EXCEPT !.swapLive = v], b, k) /\ Kept(s, [s EXCEPT !.swapLive = v])
         /\ Orderly([s EXCEPT !.swapTo = v], b, k) /\ Kept(s, [s EXCEPT !.swapTo = v])
         /\ Orderly([s EXCEPT !.streak = v], b, k) /\ Kept(s, [s EXCEPT !.streak = v])
         /\ Orderly([s EXCEPT !.retrying = v], b, k) /\ Kept(s, [s EXCEPT !.retrying = v])
<1>1. s \in Entry
  BY SoundIs
<1>2. /\ Same(s, [s EXCEPT !.swap = v])
      /\ Same(s, [s EXCEPT !.swapLive = v])
      /\ Same(s, [s EXCEPT !.swapTo = v])
      /\ Same(s, [s EXCEPT !.streak = v])
      /\ Same(s, [s EXCEPT !.retrying = v])
  BY <1>1, ZenonT(60) DEF Entry, Same, SameClients, SameConnect, SameDisconnect, SameQueue
<1>. QED BY <1>2, SameOrderly

(* The timer that is cancelled or has fired.                               *)
LEMMA TimerOrderly ==
  ASSUME NEW c, NEW s \in Sound(c), NEW b, NEW k, Orderly(s, b, k)
  PROVE  Orderly([s EXCEPT !.timer = FALSE], b, k) /\ Kept(s, [s EXCEPT !.timer = FALSE])
<1> DEFINE t == [s EXCEPT !.timer = FALSE]
<1>1. s \in Entry
  BY SoundIs
<1>2. /\ t.phase = s.phase /\ ~t.timer
      /\ SameClients(s, t) /\ SameConnect(s, t) /\ SameDisconnect(s, t) /\ SameQueue(s, t)
  BY <1>1, ZenonT(60) DEF Entry, SameClients, SameConnect, SameDisconnect, SameQueue
<1>. HIDE DEF t
<1>3. Kept(s, t)
  BY <1>2 DEF SameClients, SameConnect, SameQueue, Kept, InHand, SessionState
<1>4. Orderly(t, b, k)
  BY <1>2 DEF SameClients, SameConnect, SameDisconnect, SameQueue, Orderly, ConnectOrder,
         ClientOrder, DisconnectOrder, TokenOrder, BusyOrder, RemovalOrder, Dead
<1>. QED BY <1>3, <1>4 DEF t

(* A phase of a usable connection changes to another usable one.           *)
LEMMA UsableOrderly ==
  ASSUME NEW c, NEW s \in Sound(c), NEW b, NEW k, Orderly(s, b, k), Usable(s),
         NEW p \in {"online", "degraded"}, NEW g
  PROVE  LET t == Transition([s EXCEPT !.catalog = g], p)
             u == Transition(s, p)
         IN  /\ Orderly(t, b, k) /\ Kept(s, t) /\ Orderly(u, b, k) /\ Kept(s, u)
             /\ IsTransition(s, t, p) /\ IsTransition(s, u, p)
<1> DEFINE t == Transition([s EXCEPT !.catalog = g], p)
           u == Transition(s, p)
<1>1. s \in Entry
  BY SoundIs
<1>2. IsTransition(s, u, p)
  BY <1>1, TransitionFields
<1>3. IsTransition(s, t, p)
  BY <1>1, ZenonT(60) DEF Entry, Transition, IsTransition, SameClients, SameConnect,
     SameDisconnect, SameQueue
<1>. HIDE DEF t, u
<1>4. ASSUME NEW x, IsTransition(s, x, p)
      PROVE  Kept(s, x) /\ Orderly(x, b, k)
  <2>1. SessionState(x) = SessionState(s)
    BY <1>4, SessionStates DEF IsTransition, SameClients, Usable
  <2>2. Kept(s, x)
    BY <1>4, <2>1 DEF IsTransition, SameClients, SameConnect, SameQueue, Kept, InHand
  <2>3. Orderly(x, b, k)
    BY <1>4, ZenonT(60) DEF IsTransition, SameClients, SameConnect, SameDisconnect, SameQueue, Orderly,
       ConnectOrder, ClientOrder, DisconnectOrder, TokenOrder, BusyOrder, RemovalOrder, Dead,
       Usable, Trying, Ahead
  <2>. QED BY <2>2, <2>3
<1>. QED BY <1>2, <1>3, <1>4 DEF t, u

(* The next continuation is taken off the queue.                           *)
LEMMA TailOrderly ==
  ASSUME NEW c, NEW s \in Sound(c), NEW b, NEW k, Orderly(s, b, k), s.ready # <<>>
  PROVE  LET t == [s EXCEPT !.ready = Tail(s.ready)]
         IN  /\ Orderly(t, b, k) /\ Kept(s, t) /\ t.owner # None
             /\ SameClients(s, t) /\ SameConnect(s, t) /\ SameDisconnect(s, t)
             /\ t.phase = s.phase /\ t.timer = s.timer /\ t.owner = s.owner
             /\ Head(s.ready) = "disconnect" =>
                  /\ t.connect = "none" /\ t.phase # "draining"
                  /\ Lacks(t.ready, "disconnect")
             /\ Head(s.ready) = "remove" => Dead(t) /\ ~b /\ (k => t.removing)
<1> DEFINE q == Tail(s.ready)
           t == [s EXCEPT !.ready = q]
<1>1. s \in Entry
  BY SoundIs
<1>2. s.ready \in Seq(Continuations)
  BY <1>1 DEF Entry
<1>3. /\ Lacks(s.ready, "disconnect") => Lacks(q, "disconnect")
      /\ Lacks(s.ready, "remove") => Lacks(q, "remove")
      /\ Once(s.ready, "disconnect") => Once(q, "disconnect")
      /\ Once(s.ready, "disconnect") /\ Head(s.ready) = "disconnect" => Lacks(q, "disconnect")
  BY <1>2, TailTokens
<1>4. /\ Lacks(s.ready, "disconnect") => Head(s.ready) # "disconnect"
      /\ Lacks(s.ready, "remove") => Head(s.ready) # "remove"
  <2>1. Len(s.ready) \in Nat \ {0} /\ DOMAIN s.ready = 1..Len(s.ready) /\ Head(s.ready) = s.ready[1]
    BY <1>2, HeadTailProperties, LenProperties, EmptySeq
  <2>2. 1 \in DOMAIN s.ready
    BY <2>1
  <2>. QED BY <2>1, <2>2 DEF Lacks
<1>. HIDE DEF q
<1>5. /\ t.phase = s.phase /\ t.timer = s.timer /\ SameClients(s, t) /\ SameConnect(s, t)
      /\ SameDisconnect(s, t) /\ t.owner = s.owner /\ t.ready = q
  BY <1>1, ZenonT(60) DEF Entry, SameClients, SameConnect, SameDisconnect
<1>. HIDE DEF t
<1>6. Kept(s, t)
  BY <1>5 DEF SameClients, SameConnect, Kept, InHand, SessionState
<1>7. Orderly(t, b, k) /\ t.owner # None
  BY <1>3, <1>5 DEF SameClients, SameConnect, SameDisconnect, Orderly, ConnectOrder,
     ClientOrder, DisconnectOrder, TokenOrder, BusyOrder, RemovalOrder, Dead
<1>8. Head(s.ready) = "disconnect" =>
        t.connect = "none" /\ t.phase # "draining" /\ Lacks(t.ready, "disconnect")
  BY <1>3, <1>4, <1>5 DEF SameConnect, SameDisconnect, Orderly, DisconnectOrder, TokenOrder, Ahead
<1>9. Head(s.ready) = "remove" => Dead(t) /\ ~b /\ (k => t.removing)
  BY <1>4, <1>5 DEF SameConnect, SameDisconnect, Orderly, RemovalOrder, Dead
<1>. QED BY <1>5, <1>6, <1>7, <1>8, <1>9 DEF t, q

(* The swap continues when a task has settled.                             *)
LEMMA SwapTokenOrderly ==
  ASSUME NEW c, NEW s \in Sound(c), NEW b, NEW k, Orderly(s, b, k), s.owner # None
  PROVE  /\ LET t == [s EXCEPT !.ready = Append(s.ready, "swap")]
            IN  Orderly(t, b, k) /\ Kept(s, t)
         /\ s.disconnect # "none" =>
              LET t == [s EXCEPT !.onDisconnect = Append(s.onDisconnect, "swap")]
              IN  Orderly(t, b, k) /\ Kept(s, t)
         /\ s.connect # "none" =>
              LET t == [s EXCEPT !.onConnect = Append(s.onConnect, "swap")]
              IN  Orderly(t, b, k) /\ Kept(s, t)
<1> DEFINE q == Append(s.ready, "swap")
           r == Append(s.onDisconnect, "swap")
           p == Append(s.onConnect, "swap")
           x == [s EXCEPT !.ready = q]
           y == [s EXCEPT !.onDisconnect = r]
           z == [s EXCEPT !.onConnect = p]
<1>1. s \in Entry /\ "swap" \in Continuations
  BY SoundIs DEF Continuations
<1>2. /\ s.ready \in Seq(Continuations) /\ s.onDisconnect \in Seq(Continuations)
      /\ s.onConnect \in Seq(Continuations)
  BY <1>1 DEF Entry
<1>3. /\ Lacks(s.ready, "disconnect") => Lacks(q, "disconnect")
      /\ Lacks(q, "remove") <=> Lacks(s.ready, "remove")
      /\ Once(s.ready, "disconnect") => Once(q, "disconnect")
      /\ Lacks(s.onDisconnect, "disconnect") => Lacks(r, "disconnect")
      /\ Lacks(r, "remove") <=> Lacks(s.onDisconnect, "remove")
      /\ Lacks(s.onConnect, "disconnect") => Lacks(p, "disconnect")
      /\ Lacks(s.onConnect, "remove") => Lacks(p, "remove")
      /\ Once(s.onConnect, "disconnect") => Once(p, "disconnect")
  BY <1>1, <1>2, AppendTokens
<1>. HIDE DEF p, q, r
<1>4. /\ x.phase = s.phase /\ x.timer = s.timer /\ SameClients(s, x) /\ SameConnect(s, x)
      /\ SameDisconnect(s, x) /\ x.owner = s.owner /\ x.ready = q
  BY <1>1, ZenonT(60) DEF Entry, SameClients, SameConnect, SameDisconnect
<1>5. /\ y.phase = s.phase /\ y.timer = s.timer /\ SameClients(s, y) /\ SameConnect(s, y)
      /\ SameQueue(s, y) /\ y.disconnect = s.disconnect /\ y.onDisconnect = r
      /\ y.removing = s.removing
  BY <1>1, ZenonT(60) DEF Entry, SameClients, SameConnect, SameQueue
<1>6. /\ z.phase = s.phase /\ z.timer = s.timer /\ SameClients(s, z) /\ SameDisconnect(s, z)
      /\ SameQueue(s, z) /\ z.connect = s.connect /\ z.onConnect = p
      /\ z.attempt = s.attempt
  BY <1>1, ZenonT(60) DEF Entry, SameClients, SameDisconnect, SameQueue
<1>. HIDE DEF x, y, z
<1>7. Kept(s, x) /\ Kept(s, y) /\ Kept(s, z)
  BY <1>4, <1>5, <1>6 DEF SameClients, SameConnect, SameQueue, Kept, InHand, SessionState
<1>8. Orderly(x, b, k)
  BY <1>3, <1>4 DEF SameClients, SameConnect, SameDisconnect, Orderly, ConnectOrder,
     ClientOrder, DisconnectOrder, TokenOrder, BusyOrder, RemovalOrder, Dead
<1>9. s.disconnect # "none" => Orderly(y, b, k)
  BY <1>3, <1>5 DEF SameClients, SameConnect, SameQueue, Orderly, ConnectOrder,
     ClientOrder, DisconnectOrder, TokenOrder, BusyOrder, RemovalOrder, Dead
<1>10. s.connect # "none" => Orderly(z, b, k)
  BY <1>3, <1>6 DEF SameClients, SameDisconnect, SameQueue, Orderly, ConnectOrder,
     ClientOrder, DisconnectOrder, TokenOrder, BusyOrder, RemovalOrder, Dead
<1>. QED BY <1>7, <1>8, <1>9, <1>10 DEF x, y, z, p, q, r

(* The removal waits for its disconnect, or goes on at once.               *)
LEMMA RemoveTokenOrderly ==
  ASSUME NEW c, NEW s \in Sound(c), NEW b, NEW k, Orderly(s, b, k), s.owner # None
  PROVE  LET r == [s EXCEPT !.removing = TRUE]
             x == [r EXCEPT !.ready = Append(r.ready, "remove")]
             y == [r EXCEPT !.onDisconnect = Append(r.onDisconnect, "remove")]
         IN  /\ Dead(s) /\ ~b => Orderly(x, b, k) /\ Kept(s, x)
             /\ s.disconnect # "none" => Orderly(y, b, k) /\ Kept(s, y)
<1> DEFINE w == [s EXCEPT !.removing = TRUE]
           q == Append(s.ready, "remove")
           r == Append(s.onDisconnect, "remove")
           x == [w EXCEPT !.ready = Append(w.ready, "remove")]
           y == [w EXCEPT !.onDisconnect = Append(w.onDisconnect, "remove")]
<1>1. s \in Entry /\ "remove" \in Continuations
  BY SoundIs DEF Continuations
<1>2. s.ready \in Seq(Continuations) /\ s.onDisconnect \in Seq(Continuations)
  BY <1>1 DEF Entry
<1>3. /\ Lacks(s.ready, "disconnect") => Lacks(q, "disconnect")
      /\ Once(s.ready, "disconnect") => Once(q, "disconnect")
      /\ Lacks(s.onDisconnect, "disconnect") => Lacks(r, "disconnect")
  BY <1>1, <1>2, AppendTokens
<1>4. /\ x.phase = s.phase /\ x.timer = s.timer /\ SameClients(s, x) /\ SameConnect(s, x)
      /\ x.disconnect = s.disconnect /\ x.onDisconnect = s.onDisconnect /\ x.removing
      /\ x.owner = s.owner /\ x.ready = q
  <2>. HIDE DEF q
  <2>1. w.ready = s.ready
    BY <1>1, ZenonT(60) DEF Entry
  <2>2. x = [w EXCEPT !.ready = q]
    BY <2>1 DEF q
  <2>. QED BY <1>1, <2>2, ZenonT(60) DEF Entry, SameClients, SameConnect
<1>5. /\ y.phase = s.phase /\ y.timer = s.timer /\ SameClients(s, y) /\ SameConnect(s, y)
      /\ SameQueue(s, y) /\ y.disconnect = s.disconnect /\ y.onDisconnect = r /\ y.removing
  <2>. HIDE DEF r
  <2>1. w.onDisconnect = s.onDisconnect
    BY <1>1, ZenonT(60) DEF Entry
  <2>2. y = [w EXCEPT !.onDisconnect = r]
    BY <2>1 DEF r
  <2>. QED BY <1>1, <2>2, ZenonT(60) DEF Entry, SameClients, SameConnect, SameQueue
<1>. HIDE DEF x, y, q, r
<1>6. Kept(s, x) /\ Kept(s, y)
  BY <1>4, <1>5 DEF SameClients, SameConnect, SameQueue, Kept, InHand, SessionState
<1>7. Dead(s) /\ ~b => Orderly(x, b, k)
  BY <1>3, <1>4 DEF SameClients, SameConnect, Orderly, ConnectOrder,
     ClientOrder, DisconnectOrder, TokenOrder, BusyOrder, RemovalOrder, Dead
<1>8. s.disconnect # "none" => Orderly(y, b, k)
  BY <1>3, <1>5 DEF SameClients, SameConnect, SameQueue, Orderly, ConnectOrder,
     ClientOrder, DisconnectOrder, TokenOrder, BusyOrder, RemovalOrder, Dead
<1>. QED BY <1>6, <1>7, <1>8 DEF x, y, w

(* The swap of a definition.                                               *)
LEMMA SwappedOrderly ==
  ASSUME NEW c, NEW s \in Sound(c), NEW b, NEW k, Orderly(s, b, k)
  PROVE  Orderly(Swapped(s), b, k) /\ Kept(s, Swapped(s))
<1> DEFINE w == IF s.swapLive THEN "reconnect" ELSE "none"
           t == [s EXCEPT !.def = s.swapTo, !.verdict = FALSE, !.tries = 0,
                     !.timer = FALSE, !.streak = "none", !.swap = w,
                     !.swapLive = FALSE]
           u == Transition(t, "offline")
<1>1. s \in Entry /\ s.swapTo \in Defs
  BY SoundIs DEF Entry
<1>2. w \in SwapAt /\ "none" \in Streaks /\ 0 \in 0..MaxTries
  BY ConstantsAssumption DEF SwapAt, Streaks
<1>3. t \in Entry
  <2>. HIDE DEF w
  <2>. QED BY <1>1, <1>2, ZenonT(60) DEF Entry
<1>4. /\ t.phase = s.phase /\ ~t.timer
      /\ SameClients(s, t) /\ SameConnect(s, t) /\ SameDisconnect(s, t) /\ SameQueue(s, t)
  <2>. HIDE DEF w
  <2>. QED BY <1>1, ZenonT(60) DEF Entry, SameClients, SameConnect, SameDisconnect, SameQueue
<1>5. IsTransition(t, u, "offline")
  BY <1>3, TransitionFields
<1>6. Swapped(s) = IF s.phase = "failed" THEN u ELSE t
  BY Zenon DEF Swapped
<1>. HIDE DEF t, u
<1>7. Kept(s, t) /\ Orderly(t, b, k)
  BY <1>4 DEF SameClients, SameConnect, SameDisconnect, SameQueue, Kept, InHand, SessionState,
     Orderly, ConnectOrder, ClientOrder, DisconnectOrder, TokenOrder, BusyOrder,
     RemovalOrder, Dead
<1>8. s.phase = "failed" => Kept(s, u)
  <2>1. s.phase = "failed" => SessionState(u) = SessionState(s)
    BY <1>4, <1>5, SessionStates DEF IsTransition, SameClients, Orderly, ClientOrder
  <2>. QED BY <1>4, <1>5, <2>1 DEF IsTransition, SameClients, SameConnect, SameQueue, Kept, InHand
<1>9. s.phase = "failed" => Orderly(u, b, k)
  BY <1>4, <1>5, ZenonT(60) DEF IsTransition, SameClients, SameConnect, SameDisconnect, SameQueue,
     Orderly, ConnectOrder, ClientOrder, DisconnectOrder, TokenOrder, BusyOrder, RemovalOrder,
     Dead, Ahead
<1>. QED BY <1>6, <1>7, <1>8, <1>9

(* client.connect was rejected: the attempt goes on to close its client.   *)
LEMMA RejectedOrderly ==
  ASSUME NEW c, NEW s \in Sound(c), NEW b, NEW k, Orderly(s, b, k), s.connect = "open"
  PROVE  LET t == [s EXCEPT !.connect = "cleanup"]
         IN  Orderly(t, b, k) /\ SameClients(s, t) /\ t.connect = "cleanup"
             /\ t.attempt = s.attempt /\ t.owner = s.owner
<1> DEFINE t == [s EXCEPT !.connect = "cleanup"]
<1>1. s \in Entry
  BY SoundIs
<1>2. /\ t.phase = s.phase /\ t.timer = s.timer /\ SameClients(s, t)
      /\ SameDisconnect(s, t) /\ SameQueue(s, t)
      /\ t.connect = "cleanup" /\ t.attempt = s.attempt /\ t.onConnect = s.onConnect
  BY <1>1, ZenonT(60) DEF Entry, SameClients, SameDisconnect, SameQueue
<1>. HIDE DEF t
<1>3. Orderly(t, b, k)
  BY <1>2 DEF SameClients, SameDisconnect, SameQueue, Orderly, ConnectOrder, ClientOrder,
     DisconnectOrder, TokenOrder, BusyOrder, RemovalOrder, Dead, Trying
<1>. QED BY <1>2, <1>3 DEF t, SameQueue

(* A new entry is in order, registered or not yet.                         *)
LEMMA FreshOrderly ==
  ASSUME NEW id \in Ids \cup {None}, NEW d, NEW k, k => id # None
  PROVE  /\ Orderly(Fresh(id, d), FALSE, k) /\ Fresh(id, d).owner = id
         /\ Fresh(id, d).gen = 0 /\ Fresh(id, d).session = 0 /\ Fresh(id, d).attempt = 0
         /\ Fresh(id, d).connect = "none" /\ InHand(Fresh(id, d)) = {0}
<1> DEFINE t == Fresh(id, d)
<1>1. /\ t.owner = id /\ t.phase = "offline" /\ t.gen = 0 /\ t.session = 0 /\ t.pending = 0
      /\ t.cleanup = 0 /\ t.releasing = 0 /\ t.connect = "none" /\ t.attempt = 0
      /\ t.onConnect = <<>> /\ t.disconnect = "none" /\ t.onDisconnect = <<>>
      /\ t.ready = <<>> /\ ~t.timer /\ ~t.removing
  BY DEF Fresh
<1>. HIDE DEF t
<1>2. Orderly(t, FALSE, k)
  BY <1>1, EmptyTokens DEF Orderly, ConnectOrder, ClientOrder, DisconnectOrder, TokenOrder,
     BusyOrder, RemovalOrder, Dead, Trying, Ahead
<1>3. InHand(t) = {0}
  BY <1>1 DEF InHand
<1>. QED BY <1>1, <1>2, <1>3 DEF t

(* The removal of an entry has ended.                                      *)
LEMMA RemovedKept ==
  ASSUME NEW s \in Entry
  PROVE  Kept(s, [s EXCEPT !.removing = FALSE])
<1> DEFINE t == [s EXCEPT !.removing = FALSE]
<1>1. SameClients(s, t) /\ SameConnect(s, t) /\ SameQueue(s, t) /\ t.phase = s.phase
  BY ZenonT(60) DEF Entry, SameClients, SameConnect, SameQueue
<1>. HIDE DEF t
<1>2. Kept(s, t)
  BY <1>1 DEF SameClients, SameConnect, SameQueue, Kept, InHand, SessionState
<1>. QED BY <1>2 DEF t

(* An entry that leaves the registry is dead by then.                      *)
LEMMA UnregisteredOrderly ==
  ASSUME NEW s \in Entry, NEW b, NEW k, Orderly(s, b, k), Dead(s), ~b, s.owner # None
  PROVE  Orderly([s EXCEPT !.removing = FALSE], b, FALSE)
<1> DEFINE t == [s EXCEPT !.removing = FALSE]
<1>1. /\ t.phase = s.phase /\ t.timer = s.timer /\ SameClients(s, t) /\ SameConnect(s, t)
      /\ t.disconnect = s.disconnect /\ t.onDisconnect = s.onDisconnect /\ SameQueue(s, t)
  BY ZenonT(60) DEF Entry, SameClients, SameConnect, SameQueue
<1>. HIDE DEF t
<1>2. Orderly(t, b, FALSE)
  BY <1>1, EmptyTokens DEF SameClients, SameConnect, SameQueue, Orderly, ConnectOrder,
     ClientOrder, DisconnectOrder, TokenOrder, BusyOrder, RemovalOrder, Dead
<1>. QED BY <1>2 DEF t

----------------------------------------------------------------------------
(* The entries a handler that takes no session away leaves behind.         *)
Handled(E) ==
  /\ E \in Legal
  /\ \A e \in Entries :
       Orderly(E[e], Busy(e), Registered(e)) /\ Kept(entry[e], E[e])

(* Every entry is in order.                                                *)
InOrder == \A e \in Entries : Orderly(entry[e], Busy(e), Registered(e))

(* What is known of an entry after a handler's first steps.                *)
LEMMA HandledAt ==
  ASSUME NEW E, Handled(E), NEW e \in Entries
  PROVE  /\ E \in Legal /\ E[e] \in Entry /\ E[e] \in Sound(~Busy(e))
         /\ Orderly(E[e], Busy(e), Registered(e)) /\ Kept(entry[e], E[e])
BY LegalAt DEF Handled

(* A handler that has done nothing yet.                                    *)
LEMMA NothingHandled ==
  ASSUME entry \in Legal, InOrder
  PROVE  Handled(entry)
BY KeptSelf DEF Handled, InOrder

(* A handler goes on with one of the entries.                              *)
LEMMA HandledExcept ==
  ASSUME NEW E, Handled(E), NEW e \in Entries, NEW t \in Sound(~Busy(e)),
         Orderly(t, Busy(e), Registered(e)), Kept(E[e], t)
  PROVE  Handled([E EXCEPT ![e] = t]) /\ [E EXCEPT ![e] = t][e] = t
<1> DEFINE F == [E EXCEPT ![e] = t]
<1>1. E \in Legal /\ E \in [Entries -> Entry]
  BY LegalAt DEF Handled
<1>2. F \in Legal
  BY <1>1, LegalExcept
<1>3. F[e] = t /\ \A f \in Entries : f # e => F[f] = E[f]
  BY <1>1
<1>. HIDE DEF F
<1>4. Kept(entry[e], t)
  BY KeptTrans DEF Handled
<1>5. ASSUME NEW f \in Entries
      PROVE  Orderly(F[f], Busy(f), Registered(f)) /\ Kept(entry[f], F[f])
  BY <1>3, <1>4 DEF Handled
<1>6. Handled(F)
  BY <1>2, <1>5 DEF Handled
<1>. QED BY <1>3, <1>6 DEF F

(* Both are Booleans.                                                      *)
LEMMA BusyIs == \A e : Busy(e) \in BOOLEAN /\ Registered(e) \in BOOLEAN
BY DEF Busy, Registered

(* An entry that is found is registered, under the id it was found by.     *)
LEMMA LookupRegistered ==
  ASSUME registry \in [Ids -> Entries \cup {None}], NEW id, Lookup(id) # None
  PROVE  Lookup(id) \in Entries /\ Registered(Lookup(id)) /\ id \in Ids /\ registry[id] = Lookup(id)
<1>1. id \in Ids
  BY DEF Lookup
<1>. QED BY <1>1 DEF Lookup, Registered

(* A handler may connect an id.                                            *)
LEMMA ConnectByIdHandled ==
  ASSUME NEW E, Handled(E), NEW id, registry \in [Ids -> Entries \cup {None}],
         attempts \in Nat
  PROVE  Handled(ConnectById(id, E))
<1> DEFINE e == Lookup(id)
           t == Connected(E[e], Busy(e), attempts + 1)
<1>1. CASE closed \/ e = None
  BY <1>1 DEF ConnectById
<1>2. CASE ~(closed \/ e = None)
  <2>1. e \in Entries /\ Registered(e) = TRUE /\ Busy(e) \in BOOLEAN
    BY <1>2, LookupRegistered, BusyIs
  <2>2. ConnectById(id, E) = [E EXCEPT ![e] = t]
    BY <1>2 DEF ConnectById
  <2>. HIDE DEF e
  <2>3. E[e] \in Sound(~Busy(e)) /\ Orderly(E[e], Busy(e), TRUE)
    BY <2>1, HandledAt
  <2>4. t \in Sound(~Busy(e))
    BY <2>3, ConnectedSound
  <2>5. Orderly(t, Busy(e), TRUE) /\ Kept(E[e], t)
    BY <2>1, <2>3, ConnectedOrderly, Zenon
  <2>. HIDE DEF t
  <2>6. Orderly(t, Busy(e), Registered(e))
    BY <2>1, <2>5, Zenon
  <2>7. Handled([E EXCEPT ![e] = t])
    BY <2>1, <2>4, <2>5, <2>6, HandledExcept, Zenon
  <2>. QED BY <2>2, <2>7
<1>. QED BY <1>1, <1>2

(* A swap may reach its end: the definition is replaced, and the entry     *)
(* connected again if it was live.                                         *)
LEMMA SwapFinishesHandled ==
  ASSUME NEW E, Handled(E), NEW e \in Entries, registry \in [Ids -> Entries \cup {None}],
         attempts \in Nat
  PROVE  Handled(SwapFinishes(e, E))
<1> DEFINE id == E[e].owner
           w == [E[e] EXCEPT !.swap = "none"]
           x == Swapped(E[e])
           swapped == [E EXCEPT ![e] = x]
           C == ConnectById(id, swapped)
           y == ReconnectSettles(C[e])
           left == [E EXCEPT ![e] = w]
           up == [C EXCEPT ![e] = y]
<1>1. /\ E[e] \in Sound(~Busy(e)) /\ Orderly(E[e], Busy(e), Registered(e))
      /\ "none" \in SwapAt /\ TRUE \in BOOLEAN
  BY HandledAt DEF SwapAt
<1>2. Handled(left)
  <2>1. w \in Sound(~Busy(e)) /\ Orderly(w, Busy(e), Registered(e)) /\ Kept(E[e], w)
    BY <1>1, Marking, MarksOrderly
  <2>. HIDE DEF w
  <2>. QED BY <2>1, HandledExcept
<1>3. Handled(swapped)
  <2>1. x \in Sound(~Busy(e)) /\ Orderly(x, Busy(e), Registered(e)) /\ Kept(E[e], x)
    BY <1>1, SwappedSound, SwappedOrderly
  <2>. HIDE DEF x
  <2>. QED BY <2>1, HandledExcept
<1>4. Handled(C)
  <2>. HIDE DEF swapped
  <2>. QED BY <1>3, ConnectByIdHandled
<1>5. Handled(up)
  <2>. HIDE DEF C
  <2>1. C[e] \in Sound(~Busy(e)) /\ Orderly(C[e], Busy(e), Registered(e))
    BY <1>4, HandledAt
  <2>2. y \in Sound(~Busy(e)) /\ Orderly(y, Busy(e), Registered(e)) /\ Kept(C[e], y)
    BY <2>1, ReconnectSettlesSound, MarksOrderly DEF ReconnectSettles
  <2>. HIDE DEF y
  <2>. QED BY <1>4, <2>2, HandledExcept
<1>6. SwapFinishes(e, E) \in {left, swapped, up}
  BY Zenon DEF SwapFinishes
<1>. HIDE DEF left, swapped, up
<1>. QED BY <1>2, <1>3, <1>5, <1>6

(* A swap may go on: to its disconnect, or to its end.                     *)
LEMMA SwapProceedsHandled ==
  ASSUME NEW E, Handled(E), NEW e \in Entries, registry \in [Ids -> Entries \cup {None}],
         attempts \in Nat, E[e].owner # None
  PROVE  Handled(SwapProceeds(e, E))
<1> DEFINE s == [E[e] EXCEPT !.swapLive = Usable(E[e])]
           g == Disconnecting(s, Busy(e))
           d == [g EXCEPT !.swap = "disconnect"]
           F == [E EXCEPT ![e] = s]
           x == [d EXCEPT !.ready = Append(d.ready, "swap")]
           y == [d EXCEPT !.onDisconnect = Append(d.onDisconnect, "swap")]
           atOnce == [E EXCEPT ![e] = x]
           later == [E EXCEPT ![e] = y]
<1>1. /\ E[e] \in Sound(~Busy(e)) /\ Orderly(E[e], Busy(e), Registered(e))
      /\ "disconnect" \in SwapAt /\ TRUE \in BOOLEAN /\ "none" \in SwapAt
      /\ "swap" \in Continuations /\ Usable(E[e]) \in BOOLEAN /\ Busy(e) \in BOOLEAN
  BY HandledAt, BusyIs DEF SwapAt, Continuations, Usable
<1>2. s \in Sound(~Busy(e)) /\ Orderly(s, Busy(e), Registered(e)) /\ Kept(E[e], s)
  BY <1>1, Marking, MarksOrderly
<1>3. Handled(F)
  <2>. HIDE DEF s
  <2>. QED BY <1>2, HandledExcept
<1>4. Handled(SwapFinishes(e, F))
  <2>. HIDE DEF F
  <2>. QED BY <1>3, SwapFinishesHandled
<1>. HIDE DEF s
<1>5. g \in Sound(~Busy(e)) /\ Orderly(g, Busy(e), Registered(e)) /\ Kept(s, g)
  BY <1>1, <1>2, DisconnectingSound, DisconnectingOrderly
<1>. HIDE DEF g
<1>6. d \in Sound(~Busy(e)) /\ Orderly(d, Busy(e), Registered(e)) /\ Kept(g, d)
  BY <1>1, <1>5, Marking, MarksOrderly
<1>7. Kept(E[e], d) /\ d.owner # None
  BY <1>2, <1>5, <1>6, KeptTrans DEF Kept
<1>. HIDE DEF d
<1>8. x \in Sound(~Busy(e)) /\ y \in Sound(~Busy(e))
  BY <1>1, <1>6, Registering
<1>9. Orderly(x, Busy(e), Registered(e)) /\ Kept(d, x)
  BY <1>6, <1>7, SwapTokenOrderly
<1>10. d.disconnect # "none" => Orderly(y, Busy(e), Registered(e)) /\ Kept(d, y)
  BY <1>6, <1>7, SwapTokenOrderly
<1>. HIDE DEF x, y
<1>11. Handled(atOnce)
  BY <1>7, <1>8, <1>9, HandledExcept, KeptTrans
<1>12. d.disconnect # "none" => Handled(later)
  BY <1>7, <1>8, <1>10, HandledExcept, KeptTrans
<1>13. \/ SwapProceeds(e, E) = SwapFinishes(e, F)
       \/ SwapProceeds(e, E) = atOnce
       \/ SwapProceeds(e, E) = later /\ d.disconnect # "none"
  BY Zenon DEF SwapProceeds, d, g, s, x, y
<1>. HIDE DEF F, atOnce, later
<1>. QED BY <1>4, <1>11, <1>12, <1>13

----------------------------------------------------------------------------
(* The rest of the invariant: what operations, generations, the registry   *)
(* and the open clients have to do with the entries.                       *)

(* An operation is of the generation of its entry.                         *)
OpOrder(o) ==
  IF op[o].entry = None THEN op[o] = IdleOp
  ELSE op[o].gen = entry[op[o].entry].gen /\ op[o].session # 0

(* Generations come from the counter, and no two entries share one.        *)
GenOrder == (\A e \in Entries : entry[e].gen <= seq) /\ GenerationsUnique

(* The registry names the entries by the ids that own them.                *)
RegOrder == \A id \in Ids : registry[id] # None => entry[registry[id]].owner = id

(* An attempt has a number that was given out; at the repair of the listen *)
(* stream its client is the session, or closed.                            *)
AttemptOrder(e) ==
  /\ entry[e].attempt <= attempts
  /\ entry[e].connect \in Trying => entry[e].attempt # 0
  /\ entry[e].connect = "listen" =>
       entry[e].attempt = entry[e].session \/ entry[e].attempt \notin live

(* Every open client is held by an entry.                                  *)
LiveHeld ==
  0 \notin live /\ \A c \in live : \E e \in Entries : c \in Held(entry[e])

(* The invariant.                                                          *)
Order ==
  /\ InOrder /\ GenOrder /\ RegOrder /\ LiveHeld
  /\ \A o \in Ops : OpOrder(o)
  /\ \A e \in Entries : AttemptOrder(e)

(* What a step must be for the service.                                    *)
ServiceStep == [Service!Next]_(Service!vars)

(* A handler that takes no session away takes no client away either.       *)
LEMMA KeptHeld ==
  ASSUME NEW s, NEW t, Kept(s, t)
  PROVE  Held(s) \subseteq Held(t)
BY DEF Kept, Held, InHand, Trying

(* The number of the attempt a handler has begun is the next one.          *)
LEMMA InstallBegins ==
  ASSUME NEW E, NEW dead, attempts \in Nat, Install(E, dead)
  PROVE  /\ entry' = E /\ attempts <= attempts' /\ attempts' \in Nat
         /\ live' \subseteq (live \ dead) \cup {attempts + 1}
         /\ attempts + 1 \in live' \ live => \E e \in Entries : E[e].attempt = attempts + 1
         /\ (\E e \in Entries : E[e].attempt = attempts + 1) => attempts' = attempts + 1
<1>1. CASE \E e \in Entries : E[e].attempt = attempts + 1
  <2>1. attempts' = attempts + 1 /\ live' = (live \ dead) \cup {attempts + 1} /\ entry' = E
    BY <1>1, Zenon DEF Install
  <2>. QED BY <1>1, <2>1
<1>2. CASE ~\E e \in Entries : E[e].attempt = attempts + 1
  BY <1>2 DEF Install
<1>. QED BY <1>1, <1>2

(* ... and a handler that begins none leaves the attempts alone.           *)
LEMMA InstallQuiet ==
  ASSUME NEW E, NEW dead, attempts \in Nat, Install(E, dead),
         \A e \in Entries : E[e].attempt \in Nat /\ E[e].attempt <= attempts
  PROVE  entry' = E /\ attempts' = attempts /\ live' = live \ dead
<1>1. ~\E e \in Entries : E[e].attempt = attempts + 1
  <2> SUFFICES ASSUME NEW e \in Entries, E[e].attempt = attempts + 1 PROVE FALSE
    OBVIOUS
  <2>. QED OBVIOUS
<1>. QED BY <1>1 DEF Install

(* No entry loses its session.                                             *)
AllKept(E) == \A e \in Entries : Kept(entry[e], E[e])

(* A handler that takes no session away: the service drains the sessions   *)
(* of the entries it has asked to go.                                      *)
LEMMA HandledDrains ==
  ASSUME NEW E, AllKept(E), entry' = E, UNCHANGED <<op, seq>>
  PROVE  ServiceStep
<1> DEFINE S == {e \in Entries : SessionState(E[e]) # SessionState(entry[e])}
<1>1. S \in SUBSET Entries
  OBVIOUS
<1>2. \A e \in S : /\ SessionState(entry[e]) \in {"up", "stuck"}
                   /\ SessionState(E[e]) = "draining"
  BY DEF AllKept, Kept
<1>3. \A e \in Entries : E[e].gen = entry[e].gen
  BY DEF AllKept, Kept
<1>4. [e \in Entries |-> SessionState(E[e])]
        = [e \in Entries |-> IF e \in S THEN "draining" ELSE SessionState(entry[e])]
  BY <1>2
<1>. HIDE DEF S
<1>5. Service!Drain(S)
  <2>1. \A e \in S : [f \in Entries |-> SessionState(entry[f])][e] \in {"up", "stuck"}
    BY <1>1, <1>2
  <2>2. [e \in Entries |-> SessionState(entry[e])]'
          = [e \in Entries |-> IF e \in S THEN "draining"
                               ELSE [f \in Entries |-> SessionState(entry[f])][e]]
    BY <1>1, <1>4 DEF SessionState
  <2>3. [e \in Entries |-> entry[e].gen]' = [e \in Entries |-> entry[e].gen]
    BY <1>3
  <2>4. [o \in Ops |-> op[o].gen]' = [o \in Ops |-> op[o].gen]
    OBVIOUS
  <2>. QED BY <2>1, <2>2, <2>3, <2>4 DEF Service!Drain
<1>. QED BY <1>1, <1>5 DEF ServiceStep, Service!Next

(* What such a handler leaves of the invariant, whatever becomes of the    *)
(* registry.                                                               *)
LEMMA HandledStep ==
  ASSUME IInv, Order, NEW E, AllKept(E), Install(E, {}), UNCHANGED <<op, seq>>
  PROVE  /\ entry' = E /\ \A e \in Entries : E[e].owner = entry[e].owner
         /\ GenOrder' /\ LiveHeld' /\ (\A o \in Ops : OpOrder(o))'
         /\ (\A e \in Entries : AttemptOrder(e))'
         /\ ServiceStep
<1>1. /\ attempts \in Nat /\ entry \in Legal /\ op \in [Ops -> Operation]
      /\ \A e \in Entries : entry[e] \in Entry
  BY LegalAt DEF IInv, TypeOK
<1>2. \A e \in Entries : entry[e].attempt \in Nat /\ entry[e].gen \in Nat
  BY <1>1 DEF Entry
<1>3. /\ entry' = E /\ attempts <= attempts' /\ attempts' \in Nat
      /\ live' \subseteq live \cup {attempts + 1}
      /\ attempts + 1 \in live' \ live => \E e \in Entries : E[e].attempt = attempts + 1
      /\ (\E e \in Entries : E[e].attempt = attempts + 1) => attempts' = attempts + 1
  <2>1. live \ {} = live
    OBVIOUS
  <2>. QED BY <1>1, <2>1, InstallBegins
<1>4. \A e \in Entries : E[e].owner = entry[e].owner /\ E[e].gen = entry[e].gen
  BY DEF AllKept, Kept
<1>5. ServiceStep
  BY <1>3, HandledDrains
<1>6. GenOrder'
  BY <1>3, <1>4 DEF Order, GenOrder, GenerationsUnique
<1>7. (\A o \in Ops : OpOrder(o))'
  <2> SUFFICES ASSUME NEW o \in Ops PROVE OpOrder(o)'
    OBVIOUS
  <2>1. op' = op /\ OpOrder(o)
    BY DEF Order
  <2>2. CASE op[o].entry = None
    BY <2>1, <2>2 DEF OpOrder
  <2>3. CASE op[o].entry # None
    <3>1. op[o].entry \in Entries
      BY <1>1, <2>3 DEF Operation
    <3>2. E[op[o].entry].gen = entry[op[o].entry].gen
      BY <1>4, <3>1
    <3>. QED BY <1>3, <2>1, <2>3, <3>2 DEF OpOrder
  <2>. QED BY <2>2, <2>3
<1>8. ASSUME NEW e \in Entries
      PROVE  /\ E[e].attempt <= attempts'
             /\ E[e].connect \in Trying => E[e].attempt # 0
             /\ E[e].connect = "listen" => E[e].attempt = E[e].session \/ E[e].attempt \notin live'
  <2>1. AttemptOrder(e) /\ Kept(entry[e], E[e])
    BY DEF Order, AllKept
  <2>2. CASE E[e].attempt = attempts + 1 /\ E[e].connect = "open"
    BY <1>1, <1>3, <2>2
  <2>3. CASE E[e].attempt = entry[e].attempt /\ E[e].connect = entry[e].connect
    <3>1. entry[e].attempt <= attempts'
      BY <1>1, <1>2, <1>3, <2>1 DEF AttemptOrder
    <3>2. entry[e].attempt # attempts + 1
      BY <1>1, <1>2, <2>1 DEF AttemptOrder
    <3>3. entry[e].attempt \notin live => entry[e].attempt \notin live'
      BY <1>3, <3>2
    <3>. QED BY <2>1, <2>3, <3>1, <3>3 DEF AttemptOrder, Kept
  <2>4. CASE E[e].attempt = entry[e].attempt /\ E[e].connect \notin Trying
    <3>1. entry[e].attempt <= attempts'
      BY <1>1, <1>2, <1>3, <2>1 DEF AttemptOrder
    <3>. QED BY <2>4, <3>1 DEF Trying
  <2>. QED BY <2>1, <2>2, <2>3, <2>4 DEF Kept
<1>9. (\A e \in Entries : AttemptOrder(e))'
  BY <1>3, <1>8 DEF AttemptOrder
<1>10. LiveHeld'
  <2>1. \A c \in live : \E e \in Entries : c \in Held(E[e])
    BY KeptHeld DEF Order, LiveHeld, AllKept
  <2>2. ASSUME NEW e \in Entries, E[e].attempt = attempts + 1
        PROVE  attempts + 1 \in Held(E[e])
    <3>1. E[e].attempt # entry[e].attempt
      BY <1>1, <1>2, <2>2 DEF Order, AttemptOrder
    <3>2. E[e].connect = "open"
      BY <3>1 DEF AllKept, Kept
    <3>. QED BY <2>2, <3>2 DEF Held
  <2>3. \A c \in live' : \E e \in Entries : c \in Held(E[e])
    BY <1>3, <2>1, <2>2
  <2>4. 0 \notin live'
    BY <1>1, <1>3 DEF Order, LiveHeld
  <2>. QED BY <1>3, <2>3, <2>4 DEF LiveHeld, Held
<1>. QED BY <1>3, <1>4, <1>5, <1>6, <1>7, <1>9, <1>10

(* A handler that leaves the registry alone as well.                       *)
LEMMA HandledPreserves ==
  ASSUME IInv, Order, NEW E, Handled(E), Install(E, {}), UNCHANGED <<registry, op, seq>>
  PROVE  Order' /\ ServiceStep
<1>1. /\ entry' = E /\ \A e \in Entries : E[e].owner = entry[e].owner
      /\ GenOrder' /\ LiveHeld' /\ (\A o \in Ops : OpOrder(o))'
      /\ (\A e \in Entries : AttemptOrder(e))' /\ ServiceStep
  BY HandledStep DEF Handled, AllKept
<1>2. InOrder'
  BY <1>1 DEF InOrder, Handled, Busy, Registered
<1>3. RegOrder'
  BY <1>1 DEF RegOrder, Order, IInv, TypeOK
<1>. QED BY <1>1, <1>2, <1>3 DEF Order

(* The operations that end or go on in a step.                             *)
OpsEnd ==
  \A o \in Ops :
    \/ op'[o] = op[o] \/ op'[o] = IdleOp
    \/ /\ op[o].entry # None /\ op'[o].entry = op[o].entry
       /\ op'[o].session = op[o].session /\ op'[o].gen = op[o].gen

(* A step that gives one entry another record and closes the clients that  *)
(* entry no longer holds.                                                  *)
LEMMA OneEntry ==
  ASSUME IInv, Order, NEW e \in Entries, NEW t \in Entry, NEW dead,
         Orderly(t, Busy(e), Registered(e)), t.owner = entry[e].owner,
         Held(entry[e]) \subseteq Held(t) \cup dead \cup {0},
         t.attempt \in {entry[e].attempt, 0},
         t.connect \in Trying => t.attempt = entry[e].attempt /\ entry[e].connect \in Trying,
         t.connect = "listen" =>
           \/ t.attempt = t.session
           \/ /\ entry[e].connect = "listen"
              /\ t.session = entry[e].session \/ entry[e].session \in dead,
         Install([entry EXCEPT ![e] = t], dead), OpsEnd, UNCHANGED registry
  PROVE  /\ InOrder' /\ RegOrder' /\ LiveHeld' /\ (\A f \in Entries : AttemptOrder(f))'
         /\ entry'[e] = t /\ \A f \in Entries : f # e => entry'[f] = entry[f]
<1> DEFINE E == [entry EXCEPT ![e] = t]
<1>1. /\ attempts \in Nat /\ entry \in Legal /\ op \in [Ops -> Operation]
      /\ \A f \in Entries : entry[f] \in Entry
      /\ entry \in [Entries -> Entry] /\ None \notin Entries
  BY LegalAt, ConstantsAssumption DEF IInv, TypeOK
<1>2. E[e] = t /\ \A f \in Entries : f # e => E[f] = entry[f]
  BY <1>1
<1>. HIDE DEF E
<1>3. \A f \in Entries : E[f].attempt \in Nat /\ E[f].attempt <= attempts
  <2>1. \A f \in Entries : entry[f].attempt \in Nat /\ entry[f].attempt <= attempts
    BY <1>1 DEF Order, AttemptOrder, Entry
  <2>2. t.attempt \in Nat /\ t.attempt <= attempts
    BY <1>1, <2>1
  <2>. QED BY <1>2, <2>1, <2>2
<1>4. entry' = E /\ attempts' = attempts /\ live' = live \ dead
  BY <1>1, <1>3, InstallQuiet DEF E
<1>5. \A f \in Entries : E[f].owner = entry[f].owner
  BY <1>2
<1>6. RegOrder'
  BY <1>4, <1>5 DEF Order, RegOrder, IInv, TypeOK
<1>8. \A f \in Entries : Busy(f)' => Busy(f)
  BY <1>1 DEF OpsEnd, Busy, IdleOp
<1>9. InOrder'
  <2> SUFFICES ASSUME NEW f \in Entries PROVE Orderly(E[f], Busy(f)', Registered(f))
    BY <1>4 DEF InOrder, Registered
  <2>1. Orderly(E[f], Busy(f), Registered(f))
    BY <1>2 DEF Order, InOrder
  <2>. QED BY <1>8, <2>1, OrderlyLess
<1>10. (\A f \in Entries : AttemptOrder(f))'
  <2> SUFFICES ASSUME NEW f \in Entries
               PROVE  /\ E[f].attempt <= attempts
                      /\ E[f].connect \in Trying => E[f].attempt # 0
                      /\ E[f].connect = "listen" =>
                           E[f].attempt = E[f].session \/ E[f].attempt \notin live \ dead
    BY <1>4 DEF AttemptOrder
  <2>1. AttemptOrder(f) /\ AttemptOrder(e)
    BY DEF Order
  <2>2. CASE f # e
    BY <1>2, <2>1, <2>2 DEF AttemptOrder
  <2>3. CASE f = e
    BY <1>1, <1>2, <1>3, <2>1, <2>3 DEF AttemptOrder, Trying
  <2>. QED BY <2>2, <2>3
<1>11. LiveHeld'
  <2>1. \A c \in live \ dead : \E f \in Entries : c \in Held(E[f])
    BY <1>2 DEF Order, LiveHeld
  <2>. QED BY <1>4, <2>1 DEF Order, LiveHeld, Held
<1>. QED BY <1>2, <1>4, <1>6, <1>9, <1>10, <1>11

(* ... under the same generation.                                          *)
LEMMA OneStep ==
  ASSUME IInv, Order, NEW e \in Entries, NEW t \in Entry, NEW dead,
         Orderly(t, Busy(e), Registered(e)),
         t.owner = entry[e].owner, t.gen = entry[e].gen,
         Held(entry[e]) \subseteq Held(t) \cup dead \cup {0},
         t.attempt \in {entry[e].attempt, 0},
         t.connect \in Trying => t.attempt = entry[e].attempt /\ entry[e].connect \in Trying,
         t.connect = "listen" =>
           entry[e].connect = "listen" /\ (t.session = entry[e].session \/ entry[e].session \in dead),
         Install([entry EXCEPT ![e] = t], dead), OpsEnd, UNCHANGED <<registry, seq>>
  PROVE  /\ Order'
         /\ entry'[e] = t /\ \A f \in Entries : f # e => entry'[f] = entry[f]
<1>1. /\ InOrder' /\ RegOrder' /\ LiveHeld' /\ (\A f \in Entries : AttemptOrder(f))'
      /\ entry'[e] = t /\ \A f \in Entries : f # e => entry'[f] = entry[f]
  BY OneEntry
<1>2. op \in [Ops -> Operation]
  BY DEF IInv, TypeOK
<1>3. \A f \in Entries : entry'[f].gen = entry[f].gen
  BY <1>1
<1>4. GenOrder'
  BY <1>3 DEF Order, GenOrder, GenerationsUnique
<1>5. (\A o \in Ops : OpOrder(o))'
  <2> SUFFICES ASSUME NEW o \in Ops PROVE OpOrder(o)'
    OBVIOUS
  <2>1. OpOrder(o)
    BY DEF Order
  <2>2. CASE op'[o] = IdleOp
    BY <2>2 DEF OpOrder, IdleOp
  <2>3. CASE op'[o] # IdleOp
    <3>1. op[o].entry # None /\ op'[o].entry = op[o].entry
          /\ op'[o].session = op[o].session /\ op'[o].gen = op[o].gen
      BY <2>1, <2>3 DEF OpsEnd, OpOrder
    <3>2. op[o].entry \in Entries
      BY <1>2, <3>1 DEF Operation
    <3>. QED BY <1>3, <2>1, <3>1, <3>2 DEF OpOrder
  <2>. QED BY <2>2, <2>3
<1>. QED BY <1>1, <1>4, <1>5 DEF Order

(* ... and takes no session away.                                          *)
LEMMA ServiceSame ==
  ASSUME NEW e \in Entries, \A f \in Entries : f # e => entry'[f] = entry[f],
         SessionState(entry'[e]) = SessionState(entry[e]), entry'[e].gen = entry[e].gen,
         \A o \in Ops : op'[o].gen = op[o].gen, UNCHANGED seq
  PROVE  ServiceStep
<1>1. [f \in Entries |-> SessionState(entry'[f])] = [f \in Entries |-> SessionState(entry[f])]
  OBVIOUS
<1>2. [f \in Entries |-> entry'[f].gen] = [f \in Entries |-> entry[f].gen]
  OBVIOUS
<1>3. [o \in Ops |-> op'[o].gen] = [o \in Ops |-> op[o].gen]
  OBVIOUS
<1>4. UNCHANGED Service!vars
  BY <1>1, <1>2, <1>3 DEF Service!vars, SessionState
<1>. QED BY <1>4 DEF ServiceStep

(* One session changes its state: what the service sees.                   *)
LEMMA ServiceChanges ==
  ASSUME NEW e \in Entries, \A f \in Entries : f # e => entry'[f] = entry[f],
         entry'[e].gen = entry[e].gen
  PROVE  /\ [f \in Entries |-> SessionState(entry[f])]'
              = [[f \in Entries |-> SessionState(entry[f])]
                   EXCEPT ![e] = SessionState(entry'[e])]
         /\ [f \in Entries |-> entry[f].gen]' = [f \in Entries |-> entry[f].gen]
<1>1. [f \in Entries |-> SessionState(entry'[f])]
        = [[f \in Entries |-> SessionState(entry[f])] EXCEPT ![e] = SessionState(entry'[e])]
  OBVIOUS
<1>2. [f \in Entries |-> entry'[f].gen] = [f \in Entries |-> entry[f].gen]
  OBVIOUS
<1>. QED BY <1>1, <1>2 DEF SessionState

(* An operation is one of the users of its session, and only those are.    *)
LEMMA UsersAreBusy ==
  ASSUME IInv, Order, NEW e \in Entries, entry[e].gen # 0, ~Busy(e), NEW o \in Ops
  PROVE  op[o].gen # entry[e].gen
<1>1. op[o] \in Operation /\ OpOrder(o) /\ op[o].entry # e
  BY DEF IInv, TypeOK, Order, Busy
<1>2. CASE op[o].entry = None
  BY <1>1, <1>2 DEF OpOrder, IdleOp
<1>3. CASE op[o].entry # None
  BY <1>1, <1>3 DEF OpOrder, Operation, Order, GenOrder, GenerationsUnique
<1>. QED BY <1>2, <1>3

(* A session that is being taken down is closed, or cannot be.             *)
LEMMA ServiceCloses ==
  ASSUME IInv, Order, NEW e \in Entries, entry[e].session # 0, entry[e].disconnect = "close",
         \A f \in Entries : f # e => entry'[f] = entry[f], entry'[e].gen = entry[e].gen,
         NEW to \in {"none", "stuck"}, SessionState(entry'[e]) = to, UNCHANGED <<op, seq>>
  PROVE  ServiceStep
<1>1. /\ Orderly(entry[e], Busy(e), Registered(e))
  BY DEF Order, InOrder
<1>2. /\ entry[e].phase = "draining" /\ entry[e].gen # 0 /\ ~Busy(e)
  BY <1>1 DEF Orderly, DisconnectOrder, ClientOrder, BusyOrder, Ahead
<1>3. SessionState(entry[e]) = "draining"
  BY <1>2, SessionStates
<1>4. \A o \in Ops : op[o].gen # entry[e].gen
  BY <1>2, UsersAreBusy
<1>5. Service!Closes(e, to)
  <2>1. [f \in Entries |-> SessionState(entry[f])][e] = "draining"
    BY <1>3
  <2>2. {o \in Ops : [p \in Ops |-> op[p].gen][o] = [f \in Entries |-> entry[f].gen][e]} = {}
    BY <1>4
  <2>3. [o \in Ops |-> op[o].gen]' = [o \in Ops |-> op[o].gen]
    OBVIOUS
  <2>. QED BY <2>1, <2>2, <2>3, ServiceChanges DEF Service!Closes, Service!Users
<1>. QED BY <1>5 DEF ServiceStep, Service!Next

(* A session that is up, or could not be closed, breaks.                   *)
LEMMA ServiceBreaks ==
  ASSUME NEW e \in Entries, SessionState(entry[e]) \in {"up", "stuck"},
         \A f \in Entries : f # e => entry'[f] = entry[f], entry'[e].gen = entry[e].gen,
         SessionState(entry'[e]) = "none", UNCHANGED <<op, seq>>
  PROVE  ServiceStep
<1>1. Service!Break(e)
  <2>1. [f \in Entries |-> SessionState(entry[f])][e] \in {"up", "stuck"}
    OBVIOUS
  <2>2. [o \in Ops |-> op[o].gen]' = [o \in Ops |-> op[o].gen]
    OBVIOUS
  <2>. QED BY <2>1, <2>2, ServiceChanges DEF Service!Break
<1>. QED BY <1>1 DEF ServiceStep, Service!Next

(* A step of one connection without operations, that takes no session away.*)
LEMMA OneUpdate ==
  ASSUME IInv, Order, NEW e \in Entries, NEW t \in Entry, NEW dead,
         Orderly(t, Busy(e), Registered(e)),
         t.owner = entry[e].owner, t.gen = entry[e].gen,
         Held(entry[e]) \subseteq Held(t) \cup dead \cup {0},
         t.attempt \in {entry[e].attempt, 0},
         t.connect \in Trying => t.attempt = entry[e].attempt /\ entry[e].connect \in Trying,
         t.connect = "listen" =>
           entry[e].connect = "listen" /\ (t.session = entry[e].session \/ entry[e].session \in dead),
         Install([entry EXCEPT ![e] = t], dead), UNCHANGED <<registry, seq, op>>
  PROVE  /\ Order' /\ entry'[e] = t /\ \A f \in Entries : f # e => entry'[f] = entry[f]
         /\ SessionState(t) = SessionState(entry[e]) => ServiceStep
<1>1. OpsEnd
  BY DEF OpsEnd
<1>2. Order' /\ entry'[e] = t /\ \A f \in Entries : f # e => entry'[f] = entry[f]
  BY <1>1, OneStep
<1>. QED BY <1>1, <1>2, ServiceSame

(* A handler that takes no session away.                                   *)
LEMMA KeptUpdate ==
  ASSUME IInv, Order, NEW e \in Entries, NEW t \in Sound(~Busy(e)),
         Orderly(t, Busy(e), Registered(e)), Kept(entry[e], t),
         Update([entry EXCEPT ![e] = t], {})
  PROVE  Order' /\ ServiceStep
<1>1. Handled(entry)
  BY NothingHandled DEF IInv, Order
<1>2. Handled([entry EXCEPT ![e] = t])
  BY <1>1, HandledExcept
<1>. QED BY <1>2, HandledPreserves DEF Update

(* What is known of an entry.                                              *)
LEMMA EntryOrder ==
  ASSUME IInv, Order, NEW e \in Entries
  PROVE  /\ entry[e] \in Sound(~Busy(e)) /\ entry[e] \in Entry
         /\ Orderly(entry[e], Busy(e), Registered(e)) /\ AttemptOrder(e)
         /\ Busy(e) \in BOOLEAN /\ Registered(e) \in BOOLEAN
         /\ Handled(entry)
         /\ attempts \in Nat /\ live \subseteq Nat /\ registry \in [Ids -> Entries \cup {None}]
         /\ seq \in Nat /\ op \in [Ops -> Operation]
  BY LegalAt, BusyIs, NothingHandled DEF IInv, Order, InOrder, TypeOK

----------------------------------------------------------------------------
(* The steps.  A connect task first.                                       *)
LEMMA ConnectDrainedOrder ==
  ASSUME IInv, Order, NEW e \in Entries, ConnectDrained(e)
  PROVE  Order' /\ ServiceStep
<1> DEFINE s == entry[e]
           t == Attempting(s, attempts + 1)
<1>1. /\ s \in Sound(~Busy(e)) /\ s \in Entry /\ attempts + 1 \in Nat
      /\ Orderly(s, Busy(e), Registered(e)) /\ ~Busy(e) /\ s.connect = "drain"
      /\ Registered(e) \in BOOLEAN /\ Busy(e) \in BOOLEAN
  BY EntryOrder DEF ConnectDrained
<1>2. /\ s.session = 0 /\ s.pending = 0 /\ s.cleanup = 0 /\ s.phase # "draining"
      /\ Lacks(s.ready, "remove") /\ Registered(e)
  BY <1>1 DEF Orderly, ConnectOrder, DisconnectOrder, RemovalOrder, Dead, Ahead
<1>3. Busy(e) = FALSE
  BY <1>1
<1>4. Orderly(s, FALSE, Registered(e))
  BY <1>1, <1>3, Zenon
<1>5. Orderly(t, FALSE, Registered(e)) /\ Kept(s, t)
  BY <1>1, <1>2, <1>4, AttemptingOrderly
<1>6. t \in Sound(~Busy(e))
  BY <1>1, AttemptingSound
<1>7. Update([entry EXCEPT ![e] = t], {})
  BY DEF ConnectDrained
<1>. HIDE DEF t
<1>8. Orderly(t, Busy(e), Registered(e))
  BY <1>3, <1>5, Zenon
<1>. QED BY <1>5, <1>6, <1>7, <1>8, KeptUpdate

(* The attempt's client is closed, and the connect task settles as failed. *)
LEMMA AttemptFails ==
  ASSUME IInv, Order, NEW e \in Entries, OpenFails(e) \/ ConnectCleaned(e)
  PROVE  Order' /\ ServiceStep
<1> DEFINE s == entry[e]
           t == ConnectSettled(Transition(s, "failed"), FALSE)
<1>1. /\ s \in Sound(~Busy(e)) /\ s \in Entry /\ s.connect \in {"open", "cleanup"}
      /\ Orderly(s, Busy(e), Registered(e))
      /\ Update([entry EXCEPT ![e] = t], {s.attempt})
  BY EntryOrder DEF OpenFails, ConnectCleaned, Opening
<1>2. t \in Entry
  BY <1>1, TransitionSound, ConnectSettledSound, SoundIs DEF Phases
<1>3. /\ Orderly(t, Busy(e), Registered(e)) /\ SameClients(s, t) /\ t.connect = "none"
      /\ t.attempt = 0 /\ t.owner = s.owner /\ t.phase = "failed"
  BY <1>1, FailedOrderly
<1>. HIDE DEF t
<1>4. Held(s) \subseteq Held(t) \cup {s.attempt} \cup {0}
  BY <1>3 DEF Held, SameClients
<1>5. s.session = 0
  BY <1>1 DEF Orderly, ConnectOrder
<1>6. SessionState(t) = SessionState(s)
  BY <1>3, <1>5, SessionStates DEF SameClients
<1>. QED BY <1>1, <1>2, <1>3, <1>4, <1>6, OneUpdate DEF SameClients, Trying, Update

(* client.connect rejects.                                                 *)
LEMMA ConnectRejectedOrder ==
  ASSUME IInv, Order, NEW e \in Entries, ConnectRejected(e)
  PROVE  Order' /\ ServiceStep
<1> DEFINE s == entry[e]
           t == [s EXCEPT !.connect = "cleanup"]
<1>1. /\ s \in Sound(~Busy(e)) /\ s \in Entry /\ s.connect = "open"
      /\ Orderly(s, Busy(e), Registered(e))
  BY EntryOrder DEF ConnectRejected, Opening
<1>2. Update([entry EXCEPT ![e] = t], {})
  BY Zenon DEF ConnectRejected
<1>3. t \in Entry
  <2>1. "cleanup" \in ConnectAt
    BY DEF ConnectAt
  <2>. QED BY <1>1, <2>1, ZenonT(60) DEF Entry
<1>4. /\ Orderly(t, Busy(e), Registered(e)) /\ SameClients(s, t) /\ t.connect = "cleanup"
      /\ t.attempt = s.attempt /\ t.owner = s.owner
  BY <1>1, RejectedOrderly
<1>. HIDE DEF t
<1>5. Held(s) \subseteq Held(t) \cup {} \cup {0}
  BY <1>1, <1>4 DEF Held, SameClients
<1>6. s.session = 0
  BY <1>1 DEF Orderly, ConnectOrder
<1>7. SessionState(t) = SessionState(s)
  BY <1>4, <1>6, SessionStates DEF SameClients
<1>. QED BY <1>1, <1>2, <1>3, <1>4, <1>5, <1>7, OneUpdate DEF SameClients, Trying, Update

(* The attempt's client is parked or kept in quarantine, and the connect   *)
(* task settles.                                                           *)
LEMMA AttemptSetAside ==
  ASSUME IInv, Order, NEW e \in Entries, ConnectCleanupFails(e) \/ ConnectUnauthorized(e)
  PROVE  Order' /\ ServiceStep
<1> DEFINE s == entry[e]
           x == [s EXCEPT !.cleanup = s.attempt]
           y == [s EXCEPT !.pending = s.attempt]
           t == ConnectSettled(Transition(x, "quarantined"), FALSE)
           u == ConnectSettled(Transition(y, "authorizing"), FALSE)
<1>1. /\ s \in Sound(~Busy(e)) /\ s \in Entry /\ s.connect \in {"open", "cleanup"}
      /\ Orderly(s, Busy(e), Registered(e))
  BY EntryOrder DEF ConnectCleanupFails, ConnectUnauthorized, Opening
<1>2. \/ Update([entry EXCEPT ![e] = t], {})
      \/ Update([entry EXCEPT ![e] = u], {})
  BY Zenon DEF ConnectCleanupFails, ConnectUnauthorized
<1>3. x \in Sound(~Busy(e)) /\ y \in Sound(~Busy(e))
  <2>1. /\ s.attempt \in Nat /\ "none" \in ConnectAt /\ "none" \in Streaks
        /\ s.ready \in Seq(Continuations) /\ s.def \in Defs
    BY <1>1 DEF Entry, ConnectAt, Streaks
  <2>. QED BY <1>1, <2>1, Recording
<1>4. t \in Entry /\ u \in Entry
  <2>. HIDE DEF x, y
  <2>. QED BY <1>3, TransitionSound, ConnectSettledSound, SoundIs DEF Phases
<1>5. s.session = 0 /\ s.pending = 0 /\ s.cleanup = 0
  BY <1>1 DEF Orderly, ConnectOrder
<1>6. /\ Orderly(t, Busy(e), Registered(e)) /\ t.cleanup = s.attempt /\ t.pending = s.pending
      /\ t.releasing = s.releasing /\ t.session = s.session /\ t.gen = s.gen
      /\ t.connect = "none" /\ t.attempt = 0 /\ t.owner = s.owner
      /\ Orderly(u, Busy(e), Registered(e)) /\ u.pending = s.attempt /\ u.cleanup = s.cleanup
      /\ u.releasing = s.releasing /\ u.session = s.session /\ u.gen = s.gen
      /\ u.connect = "none" /\ u.attempt = 0 /\ u.owner = s.owner
  BY <1>1, SetAsideOrderly, ZenonT(60)
<1>. HIDE DEF t, u
<1>7. Held(s) \subseteq Held(t) \cup {} \cup {0} /\ Held(s) \subseteq Held(u) \cup {} \cup {0}
  BY <1>5, <1>6 DEF Held
<1>8. SessionState(t) = SessionState(s) /\ SessionState(u) = SessionState(s)
  BY <1>5, <1>6, SessionStates
<1>9. CASE Update([entry EXCEPT ![e] = t], {})
  BY <1>1, <1>4, <1>6, <1>7, <1>8, <1>9, OneUpdate DEF Trying, Update
<1>10. CASE Update([entry EXCEPT ![e] = u], {})
  BY <1>1, <1>4, <1>6, <1>7, <1>8, <1>10, OneUpdate DEF Trying, Update
<1>. QED BY <1>2, <1>9, <1>10

(* The repair of the listen stream ends, and with it the connect task.     *)
LEMMA ListenRepairedOrder ==
  ASSUME IInv, Order, NEW e \in Entries, ListenRepaired(e)
  PROVE  Order' /\ ServiceStep
<1> DEFINE s == entry[e]
           t == Online(s)
<1>1. /\ s \in Sound(~Busy(e)) /\ s \in Entry /\ s.connect = "listen"
      /\ Orderly(s, Busy(e), Registered(e)) /\ AttemptOrder(e)
      /\ Update([entry EXCEPT ![e] = t], {})
  BY EntryOrder DEF ListenRepaired
<1>2. t \in Entry
  BY <1>1, OnlineSound, SoundIs
<1>3. /\ Orderly(t, Busy(e), Registered(e)) /\ SameClients(s, t) /\ t.connect = "none"
      /\ t.attempt = 0 /\ t.owner = s.owner /\ t.phase = "online"
  BY <1>1, OnlineOrderly
<1>. HIDE DEF t
<1>4. s.session # 0 => s.phase = "connecting"
  BY <1>1 DEF Orderly, ConnectOrder, ClientOrder
<1>5. SessionState(t) = SessionState(s)
  BY <1>3, <1>4, SessionStates DEF SameClients
<1>6. CASE s.attempt = s.session
  <2>1. Held(s) \subseteq Held(t) \cup {} \cup {0}
    BY <1>3, <1>6 DEF Held, SameClients
  <2>. QED BY <1>1, <1>2, <1>3, <1>5, <2>1, OneUpdate DEF SameClients, Trying, Update
<1>7. CASE s.attempt \notin live
  <2>1. Held(s) \subseteq Held(t) \cup {s.attempt} \cup {0}
    BY <1>3, <1>7 DEF Held, SameClients
  <2>2. Install([entry EXCEPT ![e] = t], {s.attempt})
    BY <1>1, <1>7 DEF Update, Install
  <2>. QED BY <1>1, <1>2, <1>3, <1>5, <2>1, <2>2, OneUpdate DEF SameClients, Trying, Update
<1>. QED BY <1>1, <1>6, <1>7 DEF AttemptOrder

(* A session comes up, under a generation of its own.                      *)
LEMMA ConnectSucceedsOrder ==
  ASSUME IInv, Order, NEW e \in Entries, ConnectSucceeds(e)
  PROVE  Order' /\ ServiceStep
<1> DEFINE s == entry[e]
           g == seq + 1
           a == Adopted(s, g)
           x == Online(a)
           y == [a EXCEPT !.connect = "listen"]
           repairs == s.verdict /\ s.attemptDef \in RepairsListen
           t == IF repairs THEN y ELSE x
<1>1. /\ s \in Sound(~Busy(e)) /\ s \in Entry /\ s.connect = "open"
      /\ Orderly(s, Busy(e), Registered(e)) /\ AttemptOrder(e)
      /\ g \in Nat \ {0} /\ g > seq /\ seq \in Nat /\ op \in [Ops -> Operation]
      /\ \A f \in Entries : entry[f] \in Entry
  BY EntryOrder DEF ConnectSucceeds, Opening
<1>2. /\ Install([entry EXCEPT ![e] = t], {}) /\ seq' = g /\ UNCHANGED <<registry, op>>
  BY Zenon DEF ConnectSucceeds
<1>3. t \in Entry
  <2>1. a \in Sound(~Busy(e))
    BY <1>1, AdoptedSound
  <2>2. x \in Entry
    BY <2>1, OnlineSound, SoundIs
  <2>3. y \in Entry
    <3>1. a \in Entry
      BY <2>1, SoundIs
    <3>2. "listen" \in ConnectAt
      BY DEF ConnectAt
    <3>. HIDE DEF a
    <3>. QED BY <3>1, <3>2, ZenonT(60) DEF Entry
  <2>. HIDE DEF x, y
  <2>. QED BY <2>2, <2>3
<1>4. /\ Orderly(t, Busy(e), Registered(e)) /\ t.session = s.attempt /\ t.gen = g
      /\ t.owner = s.owner /\ t.pending = 0 /\ t.cleanup = 0 /\ t.releasing = s.releasing
      /\ \/ t.connect = "none" /\ t.attempt = 0 /\ t.phase = "online"
         \/ t.connect = "listen" /\ t.attempt = s.attempt /\ t.phase = "connecting"
  <2>1. /\ Orderly(x, Busy(e), Registered(e)) /\ x.session = s.attempt /\ x.gen = g
        /\ x.owner = s.owner /\ x.pending = 0 /\ x.cleanup = 0 /\ x.releasing = s.releasing
        /\ x.connect = "none" /\ x.attempt = 0 /\ x.phase = "online"
        /\ Orderly(y, Busy(e), Registered(e)) /\ y.session = s.attempt /\ y.gen = g
        /\ y.owner = s.owner /\ y.pending = 0 /\ y.cleanup = 0 /\ y.releasing = s.releasing
        /\ y.connect = "listen" /\ y.attempt = s.attempt /\ y.phase = "connecting"
    <3>. HIDE DEF g
    <3>1. /\ s \in Sound(~Busy(e)) /\ Orderly(s, Busy(e), Registered(e)) /\ s.connect = "open"
          /\ g \in Nat \ {0}
      BY <1>1
    <3>. HIDE DEF s
    <3>. QED BY <3>1, AdoptedOrderly
  <2>. HIDE DEF x, y, repairs
  <2>. QED BY <2>1
<1>. HIDE DEF t
<1>5. /\ s.phase = "connecting" /\ s.session = 0 /\ s.pending = 0 /\ s.cleanup = 0
      /\ s.attempt # 0 /\ ~Busy(e)
  BY <1>1 DEF Orderly, ConnectOrder, BusyOrder, AttemptOrder, Trying
<1>6. Held(s) \subseteq Held(t) \cup {} \cup {0}
  BY <1>1, <1>4, <1>5 DEF Held
<1>7. /\ InOrder' /\ RegOrder' /\ LiveHeld' /\ (\A f \in Entries : AttemptOrder(f))'
      /\ entry'[e] = t /\ \A f \in Entries : f # e => entry'[f] = entry[f]
  <2>1. OpsEnd
    BY <1>2 DEF OpsEnd
  <2>. QED BY <1>1, <1>2, <1>3, <1>4, <1>6, <2>1, OneEntry DEF Trying
<1>8. \A f \in Entries : entry[f].gen \in Nat /\ entry[f].gen <= seq
  BY <1>1 DEF Order, GenOrder, Entry
<1>9. GenOrder'
  <2>1. \A f \in Entries : entry'[f].gen <= g
    BY <1>1, <1>4, <1>7, <1>8
  <2>2. \A f \in Entries : f # e => entry'[f].gen # g
    BY <1>1, <1>7, <1>8
  <2>. QED BY <1>2, <1>4, <1>7, <2>1, <2>2 DEF Order, GenOrder, GenerationsUnique
<1>10. (\A o \in Ops : OpOrder(o))'
  <2> SUFFICES ASSUME NEW o \in Ops PROVE OpOrder(o)'
    OBVIOUS
  <2>1. OpOrder(o) /\ op'[o] = op[o] /\ op[o].entry # e /\ op[o] \in Operation
    BY <1>1, <1>2, <1>5 DEF Order, Busy
  <2>. QED BY <1>7, <2>1 DEF OpOrder, Operation
<1>11. Service!Open(e)
  <2>1. SessionState(s) = "none" /\ SessionState(t) = "up"
    BY <1>4, <1>5, SessionStates
  <2>2. [f \in Entries |-> SessionState(entry[f])][e] = "none"
    BY <2>1
  <2>3. [f \in Entries |-> SessionState(entry'[f])]
          = [[f \in Entries |-> SessionState(entry[f])] EXCEPT ![e] = "up"]
    BY <1>7, <2>1
  <2>4. [f \in Entries |-> SessionState(entry[f])]'
          = [[f \in Entries |-> SessionState(entry[f])] EXCEPT ![e] = "up"]
    BY <2>3 DEF SessionState
  <2>5. [f \in Entries |-> entry[f].gen]' = [[f \in Entries |-> entry[f].gen] EXCEPT ![e] = seq + 1]
    BY <1>4, <1>7
  <2>6. [o \in Ops |-> op[o].gen]' = [o \in Ops |-> op[o].gen]
    BY <1>2
  <2>. QED BY <1>2, <2>2, <2>4, <2>5, <2>6 DEF Service!Open
<1>. QED BY <1>7, <1>9, <1>10, <1>11 DEF Order, ServiceStep, Service!Next

(* Every step of a connect task.                                           *)
LEMMA ConnectingOrder ==
  ASSUME IInv, Order, NEW e \in Entries, Connecting(e)
  PROVE  Order' /\ ServiceStep
BY ConnectDrainedOrder, AttemptFails, ConnectRejectedOrder, AttemptSetAside,
   ConnectSucceedsOrder, ListenRepairedOrder DEF Connecting

(* The steps of a disconnect task.                                         *)
LEMMA TakenDownOrder ==
  ASSUME IInv, Order, NEW e \in Entries,
         ReleaseDone(e) \/ QuarantineCleaned(e) \/ DrainedDead(e) \/ CloseDone(e)
  PROVE  Order' /\ ServiceStep
<1> DEFINE s == entry[e]
           x == [s EXCEPT !.releasing = 0]
           y == [s EXCEPT !.cleanup = 0]
           z == NoSession(s)
<1>1. /\ s \in Sound(~Busy(e)) /\ s \in Entry /\ Orderly(s, Busy(e), Registered(e))
  BY EntryOrder
<1>2. /\ s.disconnect \in {"release", "cleanup", "drainDead", "close"} /\ s.disconnect \notin Ahead
  BY DEF ReleaseDone, QuarantineCleaned, DrainedDead, CloseDone, Ahead
<1>3. ~Busy(e)
  BY <1>1 DEF Orderly, BusyOrder, ReleaseDone, QuarantineCleaned, DrainedDead, CloseDone,
     DrainedOf
<1>4. /\ x \in Sound(~Busy(e)) /\ y \in Sound(~Busy(e)) /\ z \in Sound(~Busy(e))
  <2>1. /\ 0 \in Nat /\ "none" \in ConnectAt /\ "none" \in Streaks
        /\ s.ready \in Seq(Continuations) /\ s.def \in Defs
    BY <1>1 DEF Entry, ConnectAt, Streaks
  <2>. QED BY <1>1, <2>1, Recording, NoSessionSound
<1>5. /\ WentOffline(x) \in Entry /\ WentOffline(y) \in Entry /\ WentOffline(s) \in Entry
      /\ WentOffline(z) \in Entry
  <2>. HIDE DEF x, y, z
  <2>. QED BY <1>1, <1>4, WentOfflineSound, SoundIs
<1>6. /\ s.connect = "none" /\ s.pending = 0 /\ s.phase = "draining"
      /\ s.disconnect \in {"release", "cleanup", "drainDead"} => s.session = 0
      /\ s.disconnect = "close" => s.session # 0
  BY <1>1, <1>2 DEF Orderly, ClientOrder, DisconnectOrder
<1>7. /\ x.gen = s.gen /\ x.session = s.session /\ x.pending = s.pending
      /\ x.cleanup = s.cleanup /\ x.releasing = 0
      /\ SameConnect(s, x) /\ SameQueue(s, x)
  BY <1>1, ZenonT(60) DEF Entry, SameConnect, SameQueue
<1>8. /\ y.gen = s.gen /\ y.session = s.session /\ y.pending = s.pending
      /\ y.cleanup = 0 /\ y.releasing = s.releasing
      /\ SameConnect(s, y) /\ SameQueue(s, y)
  BY <1>1, ZenonT(60) DEF Entry, SameConnect, SameQueue
<1>9. /\ z.gen = s.gen /\ z.session = 0 /\ z.pending = s.pending
      /\ z.cleanup = s.cleanup /\ z.releasing = s.releasing
      /\ SameConnect(s, z) /\ SameQueue(s, z)
  BY <1>1, NoSessionFields DEF IsNoSession
<1>20. /\ s.disconnect = "release" =>
             Orderly(WentOffline(x), Busy(e), Registered(e)) /\ IsWentOffline(x, WentOffline(x))
       /\ s.disconnect = "cleanup" =>
             Orderly(WentOffline(y), Busy(e), Registered(e)) /\ IsWentOffline(y, WentOffline(y))
       /\ s.disconnect = "drainDead" =>
             Orderly(WentOffline(s), Busy(e), Registered(e)) /\ IsWentOffline(s, WentOffline(s))
       /\ s.disconnect = "close" =>
             Orderly(WentOffline(z), Busy(e), Registered(e)) /\ IsWentOffline(z, WentOffline(z))
  <2>1. /\ s \in Sound(~Busy(e)) /\ Orderly(s, Busy(e), Registered(e)) /\ ~Busy(e)
        /\ s.disconnect \notin Ahead
    BY <1>1, <1>2, <1>3
  <2>. HIDE DEF s
  <2>. QED BY <2>1, TakenDownOrderly
<1>. HIDE DEF x, y, z
<1>10. ASSUME NEW w, NEW dead, WentOffline(w) \in Entry, IsWentOffline(w, WentOffline(w)),
              Orderly(WentOffline(w), Busy(e), Registered(e)),
              w.gen = s.gen, w.session \in {0, s.session}, SameConnect(s, w), SameQueue(s, w),
              InHand(s) \subseteq InHand(w) \cup dead \cup {0}, w.session = s.session \/ s.disconnect = "close",
              w.session = 0,
              Update([entry EXCEPT ![e] = WentOffline(w)], dead)
       PROVE  Order' /\ ServiceStep
  <2> DEFINE t == WentOffline(w)
  <2>1. /\ t.gen = s.gen /\ t.owner = s.owner /\ t.session = 0 /\ InHand(t) = InHand(w)
        /\ t.connect = "none" /\ t.attempt = s.attempt
    BY <1>6, <1>10 DEF IsWentOffline, SameClients, SameConnect, SameQueue, InHand
  <2>. HIDE DEF t
  <2>2. Held(s) \subseteq Held(t) \cup dead \cup {0}
    BY <1>6, <1>10, <2>1 DEF Held, InHand
  <2>3. /\ Order' /\ entry'[e] = t /\ \A f \in Entries : f # e => entry'[f] = entry[f]
        /\ SessionState(t) = SessionState(s) => ServiceStep
    BY <1>1, <1>10, <2>1, <2>2, OneUpdate DEF Trying, Update, t
  <2>4. SessionState(t) = "none"
    BY <2>1, SessionStates
  <2>5. CASE s.session = 0
    BY <2>3, <2>4, <2>5, SessionStates
  <2>6. CASE s.session # 0
    <3>1. s.disconnect = "close" /\ UNCHANGED <<op, seq>>
      BY <1>10, <2>6 DEF Update
    <3>. QED BY <2>1, <2>3, <2>4, <2>6, <3>1, ServiceCloses
  <2>. QED BY <2>3, <2>5, <2>6
<1>11. CASE ReleaseDone(e)
  <2>1. s.disconnect = "release" /\ Update([entry EXCEPT ![e] = WentOffline(x)], {s.releasing})
    BY <1>11, Zenon DEF ReleaseDone, x
  <2>2. Orderly(WentOffline(x), Busy(e), Registered(e)) /\ IsWentOffline(x, WentOffline(x))
    BY <1>20, <2>1, Zenon
  <2>3. InHand(s) \subseteq InHand(x) \cup {s.releasing} \cup {0}
    BY <1>7 DEF InHand
  <2>. QED BY <1>5, <1>6, <1>7, <1>10, <2>1, <2>2, <2>3
<1>12. CASE QuarantineCleaned(e)
  <2>1. s.disconnect = "cleanup" /\ Update([entry EXCEPT ![e] = WentOffline(y)], {s.cleanup})
    BY <1>12, Zenon DEF QuarantineCleaned, y
  <2>2. Orderly(WentOffline(y), Busy(e), Registered(e)) /\ IsWentOffline(y, WentOffline(y))
    BY <1>20, <2>1, Zenon
  <2>3. InHand(s) \subseteq InHand(y) \cup {s.cleanup} \cup {0}
    BY <1>8 DEF InHand
  <2>. QED BY <1>5, <1>6, <1>8, <1>10, <2>1, <2>2, <2>3
<1>13. CASE DrainedDead(e)
  <2>1. s.disconnect = "drainDead" /\ Update([entry EXCEPT ![e] = WentOffline(s)], {})
    BY <1>13, Zenon DEF DrainedDead
  <2>2. Orderly(WentOffline(s), Busy(e), Registered(e)) /\ IsWentOffline(s, WentOffline(s))
    BY <1>20, <2>1, Zenon
  <2>3. SameConnect(s, s) /\ SameQueue(s, s) /\ InHand(s) \subseteq InHand(s) \cup {} \cup {0}
    BY DEF SameConnect, SameQueue
  <2>. QED BY <1>5, <1>6, <1>10, <2>1, <2>2, <2>3
<1>14. CASE CloseDone(e)
  <2>1. s.disconnect = "close" /\ Update([entry EXCEPT ![e] = WentOffline(z)], {s.session})
    BY <1>14, Zenon DEF CloseDone, z
  <2>2. Orderly(WentOffline(z), Busy(e), Registered(e)) /\ IsWentOffline(z, WentOffline(z))
    BY <1>20, <2>1, Zenon
  <2>3. InHand(s) \subseteq InHand(z) \cup {s.session} \cup {0}
    BY <1>9 DEF InHand
  <2>. QED BY <1>5, <1>9, <1>10, <2>1, <2>2, <2>3
<1>. QED BY <1>11, <1>12, <1>13, <1>14

(* The close of a session or of a kept client fails.                       *)
LEMMA CloseFailsOrder ==
  ASSUME IInv, Order, NEW e \in Entries, CloseFails(e)
  PROVE  Order' /\ ServiceStep
<1> DEFINE s == entry[e]
           t == DisconnectSettled(Transition(s, "quarantined"), FALSE)
<1>1. /\ s \in Sound(~Busy(e)) /\ s \in Entry /\ s.disconnect \in {"cleanup", "close"}
      /\ Orderly(s, Busy(e), Registered(e))
      /\ Update([entry EXCEPT ![e] = t], {})
  BY EntryOrder DEF CloseFails
<1>2. t \in Entry
  BY <1>1, TransitionSound, DisconnectSettledSound, SoundIs DEF Phases
<1>3. /\ Orderly(t, Busy(e), Registered(e)) /\ SameClients(s, t) /\ SameConnect(s, t)
      /\ t.owner = s.owner /\ t.phase = "quarantined"
  BY <1>1, QuarantinedOrderly
<1>. HIDE DEF t
<1>4. s.connect = "none" /\ (s.session # 0 => s.disconnect = "close")
  BY <1>1 DEF Orderly, DisconnectOrder, Ahead
<1>5. Held(s) \subseteq Held(t) \cup {} \cup {0}
  BY <1>3 DEF Held, SameClients, SameConnect
<1>6. /\ Order' /\ entry'[e] = t /\ \A f \in Entries : f # e => entry'[f] = entry[f]
      /\ SessionState(t) = SessionState(s) => ServiceStep
  BY <1>1, <1>2, <1>3, <1>4, <1>5, OneUpdate DEF Trying, Update, SameClients, SameConnect
<1>7. CASE s.session = 0
  BY <1>3, <1>6, <1>7, SessionStates DEF SameClients
<1>8. CASE s.session # 0
  <2>1. SessionState(t) = "stuck"
    BY <1>3, <1>8, SessionStates DEF SameClients
  <2>2. s.disconnect = "close" /\ UNCHANGED <<op, seq>>
    BY <1>1, <1>4, <1>8 DEF Update
  <2>. QED BY <1>3, <1>6, <1>8, <2>1, <2>2, ServiceCloses DEF SameClients
<1>. QED BY <1>6, <1>7, <1>8

LEMMA DrainedOrder ==
  ASSUME IInv, Order, NEW e \in Entries, Drained(e)
  PROVE  Order' /\ ServiceStep
<1> DEFINE s == entry[e]
           t == [s EXCEPT !.disconnect = "close"]
<1>1. /\ s \in Sound(~Busy(e)) /\ s \in Entry /\ s.disconnect = "drain" /\ ~Busy(e)
      /\ Orderly(s, Busy(e), Registered(e))
  BY EntryOrder DEF Drained, DrainedOf
<1>2. Update([entry EXCEPT ![e] = t], {})
  BY Zenon DEF Drained
<1>3. Orderly(t, Busy(e), Registered(e)) /\ Kept(s, t)
  BY <1>1, DrainedOrderly
<1>4. t \in Sound(~Busy(e))
  <2>1. "close" \in DisconnectAt
    BY DEF DisconnectAt
  <2>2. t \in Entry /\ t.phase = s.phase /\ t.gen = s.gen /\ t.catalog = s.catalog
    BY <1>1, <2>1, ZenonT(60) DEF Entry
  <2>. HIDE DEF t
  <2>. QED BY <1>1, <2>2 DEF Sound, CatalogOK, Usable
<1>. HIDE DEF t
<1>. QED BY <1>2, <1>3, <1>4, KeptUpdate

(* Every step of a disconnect task.                                        *)
LEMMA ClosingOrder ==
  ASSUME IInv, Order, NEW e \in Entries, Closing(e)
  PROVE  Order' /\ ServiceStep
BY TakenDownOrder, CloseFailsOrder, DrainedOrder DEF Closing

(* The continuations of settled tasks.                                     *)
LEMMA RestHandled ==
  ASSUME IInv, Order, NEW e \in Entries, entry[e].ready # <<>>
  PROVE  LET s == entry[e]
             r == Rest(e)[e]
         IN  /\ Handled(Rest(e)) /\ r.owner = s.owner /\ r.owner # None
             /\ Head(s.ready) = "disconnect" =>
                  r.connect = "none" /\ r.phase # "draining" /\ Lacks(r.ready, "disconnect")
             /\ Head(s.ready) = "remove" => Dead(r) /\ ~Busy(e)
<1> DEFINE s == entry[e]
           t == [s EXCEPT !.ready = Tail(s.ready)]
<1>1. /\ s \in Sound(~Busy(e)) /\ Orderly(s, Busy(e), Registered(e)) /\ entry \in Legal
      /\ Handled(entry) /\ s.ready # <<>>
  BY EntryOrder DEF IInv
<1>2. Rest(e) \in Legal /\ Rest(e) = [entry EXCEPT ![e] = t]
  BY <1>1, RestLegal DEF Rest
<1>3. /\ Orderly(t, Busy(e), Registered(e)) /\ Kept(s, t) /\ t.owner # None
      /\ t.owner = s.owner
      /\ Head(s.ready) = "disconnect" =>
           t.connect = "none" /\ t.phase # "draining" /\ Lacks(t.ready, "disconnect")
      /\ Head(s.ready) = "remove" => Dead(t) /\ ~Busy(e)
  <2>1. s \in Sound(~Busy(e)) /\ Orderly(s, Busy(e), Registered(e)) /\ s.ready # <<>>
    BY <1>1
  <2>. HIDE DEF s
  <2>. QED BY <2>1, TailOrderly
<1>. HIDE DEF t
<1>4. Rest(e)[e] = t
  BY <1>1, <1>2 DEF Legal
<1>5. t \in Sound(~Busy(e))
  BY <1>2, <1>4, LegalAt
<1>6. Handled([entry EXCEPT ![e] = t])
  BY <1>1, <1>3, <1>5, HandledExcept
<1>. QED BY <1>2, <1>3, <1>4, <1>6

(* The first continuation of an entry goes on.                             *)
LEMMA ContinueOrder ==
  ASSUME IInv, Order, NEW e \in Entries, Continue(e), ~RemoveAfterDisconnect(e)
  PROVE  Order' /\ ServiceStep
<1> DEFINE r == Rest(e)[e]
<1>0. entry[e].ready # <<>>
  BY DEF Continue, RetryAfterFailure, DisconnectAfterConnect, SwapContinues, QueuedConnect, Awaken
<1>1. /\ Handled(Rest(e)) /\ r.owner # None
      /\ Head(entry[e].ready) = "disconnect" =>
           r.connect = "none" /\ r.phase # "draining" /\ Lacks(r.ready, "disconnect")
  BY <1>0, RestHandled
<1>2. /\ entry[e] \in Sound(~Busy(e)) /\ Orderly(entry[e], Busy(e), Registered(e))
      /\ r \in Sound(~Busy(e)) /\ Orderly(r, Busy(e), Registered(e)) /\ Busy(e) \in BOOLEAN
      /\ attempts \in Nat /\ registry \in [Ids -> Entries \cup {None}]
  BY <1>1, EntryOrder, HandledAt
<1>3. ASSUME NEW E, Handled(E), Update(E, {}) PROVE Order' /\ ServiceStep
  BY <1>3, HandledPreserves DEF Update
<1>4. CASE RetryAfterFailure(e)
  <2> DEFINE t == Rescheduled(r)
  <2>1. Update([Rest(e) EXCEPT ![e] = t], {})
    BY <1>4, Zenon DEF RetryAfterFailure
  <2>2. t \in Sound(~Busy(e)) /\ Orderly(t, Busy(e), Registered(e)) /\ Kept(r, t)
    BY <1>2, RescheduledSound, RescheduledOrderly
  <2>. HIDE DEF t
  <2>. QED BY <1>1, <1>3, <2>1, <2>2, HandledExcept
<1>5. CASE DisconnectAfterConnect(e)
  <2> DEFINE t == Draining(r, Busy(e))
  <2>1. Update([Rest(e) EXCEPT ![e] = t], {})
    BY <1>5, Zenon DEF DisconnectAfterConnect
  <2>2. r.connect = "none" /\ r.phase # "draining" /\ Lacks(r.ready, "disconnect")
    <3>1. Head(entry[e].ready) = "disconnect"
      BY <1>5 DEF DisconnectAfterConnect, Awaken
    <3>. QED BY <1>1, <3>1
  <2>3. t \in Sound(~Busy(e))
    BY <1>2, DrainingSound
  <2>4. Orderly(t, Busy(e), Registered(e)) /\ Kept(r, t)
    BY <1>2, <2>2, DrainingOrderly
  <2>. HIDE DEF t
  <2>. QED BY <1>1, <1>3, <2>1, <2>3, <2>4, HandledExcept
<1>6. CASE SwapContinues(e)
  <2>1. Handled(SwapProceeds(e, Rest(e))) /\ Handled(SwapFinishes(e, Rest(e)))
    BY <1>1, <1>2, SwapProceedsHandled, SwapFinishesHandled
  <2>2. \/ Update(SwapProceeds(e, Rest(e)), {})
        \/ Update(SwapFinishes(e, Rest(e)), {})
    BY <1>6 DEF SwapContinues
  <2>. QED BY <1>3, <2>1, <2>2
<1>7. CASE QueuedConnect(e)
  <2> DEFINE C == ConnectById(entry[e].owner, Rest(e))
             t == ReconnectSettles(C[e])
  <2>1. Handled(C)
    BY <1>1, <1>2, ConnectByIdHandled
  <2>2. Update([C EXCEPT ![e] = t], {})
    BY <1>7, Zenon DEF QueuedConnect
  <2>. HIDE DEF C
  <2>3. C[e] \in Sound(~Busy(e)) /\ Orderly(C[e], Busy(e), Registered(e))
    BY <2>1, HandledAt
  <2>4. t \in Sound(~Busy(e)) /\ Orderly(t, Busy(e), Registered(e)) /\ Kept(C[e], t)
    BY <2>3, ReconnectSettlesSound, MarksOrderly DEF ReconnectSettles
  <2>. HIDE DEF t
  <2>. QED BY <1>3, <2>1, <2>2, <2>4, HandledExcept
<1>. QED BY <1>4, <1>5, <1>6, <1>7 DEF Continue

(* A removal ends: the entry, dead by now, leaves the registry.            *)
LEMMA RemoveAfterDisconnectOrder ==
  ASSUME IInv, Order, NEW e \in Entries, RemoveAfterDisconnect(e)
  PROVE  Order' /\ ServiceStep
<1> DEFINE s == entry[e]
           r == Rest(e)[e]
           t == [r EXCEPT !.removing = FALSE]
           E == [Rest(e) EXCEPT ![e] = t]
           id == s.owner
<1>1. /\ s \in Sound(~Busy(e)) /\ Orderly(s, Busy(e), Registered(e)) /\ Busy(e) \in BOOLEAN
      /\ registry \in [Ids -> Entries \cup {None}] /\ s.ready # <<>>
      /\ Head(s.ready) = "remove" /\ None \notin Ids /\ None \notin Entries
  BY EntryOrder, ConstantsAssumption DEF RemoveAfterDisconnect, Awaken
<1>2. /\ Handled(Rest(e)) /\ r.owner = id /\ r.owner # None
      /\ Dead(r) /\ ~Busy(e)
  BY <1>1, RestHandled
<1>3. /\ r \in Sound(~Busy(e)) /\ Orderly(r, Busy(e), Registered(e)) /\ Dead(r) /\ ~Busy(e)
      /\ r.owner = id
  BY <1>2, HandledAt
<1>4. /\ Orderly(t, Busy(e), FALSE) /\ Kept(r, t)
  <2>1. /\ r \in Entry /\ Orderly(r, Busy(e), Registered(e)) /\ Dead(r)
        /\ ~Busy(e) /\ r.owner # None
    BY <1>2, <1>3, SoundIs
  <2>. HIDE DEF r
  <2>2. Orderly(t, Busy(e), FALSE)
    BY <2>1, UnregisteredOrderly, Zenon
  <2>3. Kept(r, t)
    BY <2>1, RemovedKept, Zenon
  <2>. QED BY <2>2, <2>3
<1>5. t \in Sound(~Busy(e))
  <2>1. "none" \in SwapAt
    BY DEF SwapAt
  <2>. QED BY <1>3, <2>1, Marking
<1>6. /\ Install(E, {}) /\ UNCHANGED <<op, seq>>
      /\ registry' = IF Lookup(id) = e THEN [registry EXCEPT ![id] = None] ELSE registry
  BY Zenon DEF RemoveAfterDisconnect
<1>. HIDE DEF t
<1>7. \A i \in Ids : registry[i] = e => i = id
  <2>1. RegOrder
    BY DEF Order
  <2>. QED BY <1>1, <2>1 DEF RegOrder
<1>9. ~Registered(e)'
  <2>1. CASE Lookup(id) = e
    <3>1. id \in Ids /\ registry' = [registry EXCEPT ![id] = None]
      BY <1>1, <1>6, <2>1, LookupRegistered
    <3>. QED BY <1>1, <1>7, <3>1 DEF Registered
  <2>2. CASE Lookup(id) # e
    <3>1. ~Registered(e)
      BY <1>7, <2>2 DEF Registered, Lookup
    <3>. QED BY <1>6, <2>2, <3>1 DEF Registered
  <2>. QED BY <2>1, <2>2
<1>10. \A f \in Entries : f # e => (Registered(f)' <=> Registered(f))
  <2>1. CASE Lookup(id) = e
    <3>1. id \in Ids /\ registry[id] = e /\ registry' = [registry EXCEPT ![id] = None]
      BY <1>1, <1>6, <2>1, LookupRegistered
    <3>2. \A i \in Ids : registry'[i] = IF i = id THEN None ELSE registry[i]
      BY <1>1, <3>1
    <3>. QED BY <1>1, <3>1, <3>2 DEF Registered
  <2>2. CASE Lookup(id) # e
    BY <1>6, <2>2 DEF Registered
  <2>. QED BY <2>1, <2>2
<1>11. Rest(e) \in [Entries -> Entry] /\ E[e] = t
       /\ \A f \in Entries : f # e => E[f] = Rest(e)[f]
  BY <1>2 DEF Handled, Legal
<1>12. \A f \in Entries : Kept(entry[f], E[f]) /\ Kept(entry[f], Rest(e)[f])
  BY <1>2, <1>4, <1>11, KeptTrans DEF Handled
<1>13. AllKept(E)
  BY <1>12 DEF AllKept
<1>. HIDE DEF E
<1>14. /\ entry' = E /\ \A f \in Entries : E[f].owner = entry[f].owner
       /\ GenOrder' /\ LiveHeld' /\ (\A o \in Ops : OpOrder(o))'
       /\ (\A f \in Entries : AttemptOrder(f))' /\ ServiceStep
  BY <1>6, <1>13, HandledStep
<1>15. InOrder'
  <2> SUFFICES ASSUME NEW f \in Entries PROVE Orderly(E[f], Busy(f), Registered(f)')
    BY <1>6, <1>14 DEF InOrder, Busy
  <2>1. CASE f = e
    <3>1. Registered(f)' = FALSE
      BY <1>9, <2>1 DEF Registered
    <3>. QED BY <1>4, <1>11, <2>1, <3>1
  <2>2. CASE f # e
    <3>1. Registered(f)' = Registered(f)
      BY <1>10, <2>2 DEF Registered
    <3>. QED BY <1>2, <1>11, <2>2, <3>1 DEF Handled
  <2>. QED BY <2>1, <2>2
<1>16. RegOrder'
  <2>1. \A i \in Ids : registry'[i] \in {registry[i], None}
    BY <1>1, <1>6
  <2>. QED BY <1>1, <1>14, <2>1 DEF Order, RegOrder
<1>. QED BY <1>14, <1>15, <1>16 DEF Order

(* The calls of the host.                                                  *)
LEMMA CallOrder ==
  ASSUME IInv, Order, NEW id \in Ids, Connect(id) \/ Disconnect(id) \/ Remove(id)
  PROVE  Order' /\ ServiceStep
<1> DEFINE e == registry[id]
           s == entry[e]
           g == Disconnecting(s, Busy(e))
<1>1. /\ e \in Entries /\ registry \in [Ids -> Entries \cup {None}] /\ attempts \in Nat
      /\ Handled(entry)
  BY NothingHandled DEF IInv, TypeOK, Connect, Disconnect, Remove, Order
<1>2. /\ s \in Sound(~Busy(e)) /\ Orderly(s, Busy(e), Registered(e))
      /\ Busy(e) \in BOOLEAN /\ Registered(e)
  BY <1>1, EntryOrder DEF Registered
<1>3. s.owner # None
  BY <1>2 DEF Orderly, RemovalOrder
<1>4. ASSUME NEW E, Handled(E), Update(E, {}) PROVE Order' /\ ServiceStep
  BY <1>4, HandledPreserves DEF Update
<1>5. CASE Connect(id)
  BY <1>1, <1>4, <1>5, ConnectByIdHandled DEF Connect
<1>6. g \in Sound(~Busy(e))
  BY <1>2, DisconnectingSound
<1>7. /\ Orderly(g, Busy(e), Registered(e)) /\ Kept(s, g)
      /\ g.disconnect = "none" => Dead(g) /\ ~Busy(e)
  BY <1>2, DisconnectingOrderly
<1>8. CASE Disconnect(id)
  <2>1. Update([entry EXCEPT ![e] = g], {})
    BY <1>8, Zenon DEF Disconnect, DisconnectById
  <2>. HIDE DEF g
  <2>. QED BY <1>1, <1>4, <1>6, <1>7, <2>1, HandledExcept
<1>9. CASE Remove(id)
  <2> DEFINE r == [g EXCEPT !.removing = TRUE]
             x == [r EXCEPT !.ready = Append(r.ready, "remove")]
             y == [r EXCEPT !.onDisconnect = Append(r.onDisconnect, "remove")]
             t == IF g.disconnect = "none" THEN x ELSE y
  <2>1. "none" \in SwapAt /\ "remove" \in Continuations /\ TRUE \in BOOLEAN
    BY DEF SwapAt, Continuations
  <2>2. Update([entry EXCEPT ![e] = t], {})
    BY <1>9, Zenon DEF Remove
  <2>3. g.owner # None
    BY <1>3, <1>7 DEF Kept
  <2>. HIDE DEF g
  <2>4. r \in Sound(~Busy(e))
    BY <1>6, <2>1, Marking
  <2>5. /\ Dead(g) /\ ~Busy(e) => Orderly(x, Busy(e), Registered(e)) /\ Kept(g, x)
        /\ g.disconnect # "none" => Orderly(y, Busy(e), Registered(e)) /\ Kept(g, y)
    BY <1>6, <1>7, <2>3, RemoveTokenOrderly
  <2>. HIDE DEF r
  <2>6. x \in Sound(~Busy(e)) /\ y \in Sound(~Busy(e))
    BY <2>1, <2>4, Registering
  <2>. HIDE DEF x, y
  <2>7. t \in Sound(~Busy(e)) /\ Orderly(t, Busy(e), Registered(e)) /\ Kept(g, t)
    BY <1>7, <2>5, <2>6
  <2>. HIDE DEF t
  <2>8. Kept(s, t)
    BY <1>7, <2>7, KeptTrans
  <2>. QED BY <1>1, <1>4, <2>2, <2>7, <2>8, HandledExcept
<1>. QED BY <1>5, <1>8, <1>9

(* replace() of a definition.                                              *)
LEMMA ReplaceOrder ==
  ASSUME IInv, Order, NEW id \in Ids, NEW d \in Defs, NEW cancel, Replace(id, d, cancel)
  PROVE  Order' /\ ServiceStep
<1> DEFINE e == registry[id]
           s == [entry[e] EXCEPT !.swapTo = d]
           E == [entry EXCEPT ![e] = s]
           t == [s EXCEPT !.swap = "connect"]
           u == [t EXCEPT !.onConnect = Append(t.onConnect, "swap")]
           F == [E EXCEPT ![e] = u]
<1>1. /\ e \in Entries /\ registry \in [Ids -> Entries \cup {None}] /\ attempts \in Nat
      /\ Handled(entry)
  BY NothingHandled DEF IInv, TypeOK, Replace, Order
<1>2. /\ entry[e] \in Sound(~Busy(e)) /\ Orderly(entry[e], Busy(e), Registered(e))
      /\ Busy(e) \in BOOLEAN /\ Registered(e) /\ entry[e] \in Entry
  BY <1>1, EntryOrder DEF Registered
<1>3. entry[e].owner # None
  BY <1>2 DEF Orderly, RemovalOrder
<1>4. /\ 0 \in Nat /\ "none" \in ConnectAt /\ "none" \in Streaks
      /\ entry[e].ready \in Seq(Continuations) /\ "connect" \in SwapAt
      /\ "swap" \in Continuations /\ TRUE \in BOOLEAN
  BY <1>2 DEF ConnectAt, Streaks, SwapAt, Continuations, Entry
<1>5. s \in Sound(~Busy(e))
  BY <1>2, <1>4, Recording
<1>6. Orderly(s, Busy(e), Registered(e)) /\ Kept(entry[e], s)
  BY <1>2, MarksOrderly
<1>7. Update(IF s.connect = "none" THEN SwapProceeds(e, E)
             ELSE [E EXCEPT ![e].swap = "connect",
                            ![e].onConnect = Append(@, "swap")], {})
  BY Zenon DEF Replace
<1>8. s.owner # None
  BY <1>3, <1>6 DEF Kept
<1>. HIDE DEF s
<1>9. Handled(E) /\ E[e] = s
  BY <1>1, <1>5, <1>6, HandledExcept
<1>10. Handled(SwapProceeds(e, E))
  <2>. HIDE DEF E
  <2>. QED BY <1>1, <1>8, <1>9, SwapProceedsHandled
<1>11. t \in Sound(~Busy(e)) /\ Orderly(t, Busy(e), Registered(e)) /\ Kept(s, t)
  BY <1>4, <1>5, <1>6, Marking, MarksOrderly
<1>12. t.owner # None /\ t.connect = s.connect
  <2>1. s \in Entry
    BY <1>5, SoundIs
  <2>. QED BY <1>8, <2>1, ZenonT(60) DEF Entry
<1>. HIDE DEF t
<1>13. u \in Sound(~Busy(e))
  BY <1>4, <1>11, Registering
<1>14. s.connect # "none" => Orderly(u, Busy(e), Registered(e)) /\ Kept(t, u)
  BY <1>11, <1>12, SwapTokenOrderly
<1>15. [E EXCEPT ![e].swap = "connect", ![e].onConnect = Append(@, "swap")] = F
  <2>1. E \in [Entries -> Entry] /\ E[e] = s
    BY <1>9 DEF Handled, Legal
  <2>. HIDE DEF E
  <2>. QED BY <1>1, <2>1 DEF t
<1>. HIDE DEF u
<1>16. s.connect # "none" => Handled(F)
  <2>1. s.connect # "none" => Kept(E[e], u)
    BY <1>9, <1>11, <1>14, KeptTrans
  <2>. HIDE DEF E
  <2>. QED BY <1>1, <1>9, <1>13, <1>14, <2>1, HandledExcept
<1>17. ASSUME NEW G, Handled(G), Update(G, {}) PROVE Order' /\ ServiceStep
  BY <1>17, HandledPreserves DEF Update
<1>. HIDE DEF E, F
<1>18. CASE s.connect = "none"
  BY <1>7, <1>10, <1>17, <1>18
<1>19. CASE s.connect # "none"
  BY <1>7, <1>15, <1>16, <1>17, <1>19
<1>. QED BY <1>18, <1>19

(* The reconnect timer, a session that breaks, and the passing of time.    *)
LEMMA EventOrder ==
  ASSUME IInv, Order, NEW e \in Entries, ReconnectFires(e) \/ SessionLost(e) \/ TimePasses(e)
  PROVE  Order' /\ ServiceStep
<1> DEFINE s == entry[e]
<1>1. /\ s \in Sound(~Busy(e)) /\ Orderly(s, Busy(e), Registered(e)) /\ s \in Entry
      /\ Handled(entry) /\ attempts \in Nat /\ registry \in [Ids -> Entries \cup {None}]
      /\ live \subseteq Nat /\ AttemptOrder(e)
  BY EntryOrder
<1>2. /\ 0 \in Nat /\ "none" \in ConnectAt /\ "none" \in SwapAt /\ "elapsed" \in Streaks
      /\ s.def \in Defs /\ s.ready \in Seq(Continuations)
  BY <1>1 DEF ConnectAt, SwapAt, Streaks, Entry
<1>3. ASSUME NEW E, Handled(E), Update(E, {}) PROVE Order' /\ ServiceStep
  BY <1>3, HandledPreserves DEF Update
<1>4. CASE ReconnectFires(e)
  <2> DEFINE x == [s EXCEPT !.timer = FALSE]
             E == [entry EXCEPT ![e] = x]
             C == ConnectById(E[e].owner, E)
             w == [C[e] EXCEPT !.retrying = (C[e].connect # "none")]
  <2>1. Update(IF TimerConnects(E[e]) THEN [C EXCEPT ![e] = w] ELSE E, {})
    BY <1>4, Zenon DEF ReconnectFires, WithRetry
  <2>2. x \in Sound(~Busy(e)) /\ Orderly(x, Busy(e), Registered(e)) /\ Kept(s, x)
    BY <1>1, <1>2, Marking, TimerOrderly
  <2>. HIDE DEF x
  <2>3. Handled(E)
    BY <1>1, <2>2, HandledExcept
  <2>. HIDE DEF E
  <2>4. Handled(C)
    BY <1>1, <2>3, ConnectByIdHandled
  <2>. HIDE DEF C
  <2>5. C[e] \in Sound(~Busy(e)) /\ Orderly(C[e], Busy(e), Registered(e))
        /\ (C[e].connect # "none") \in BOOLEAN
    BY <2>4, HandledAt
  <2>6. w \in Sound(~Busy(e)) /\ Orderly(w, Busy(e), Registered(e)) /\ Kept(C[e], w)
    BY <1>2, <2>5, Marking, MarksOrderly
  <2>. HIDE DEF w
  <2>7. Handled([C EXCEPT ![e] = w])
    BY <2>4, <2>6, HandledExcept
  <2>. QED BY <1>3, <2>1, <2>3, <2>7
<1>5. CASE TimePasses(e)
  <2> DEFINE t == [s EXCEPT !.streak = "elapsed"]
  <2>1. Update([entry EXCEPT ![e] = t], {})
    BY <1>5, Zenon DEF TimePasses
  <2>2. t \in Sound(~Busy(e)) /\ Orderly(t, Busy(e), Registered(e)) /\ Kept(s, t)
    BY <1>1, <1>2, Recording, MarksOrderly
  <2>. HIDE DEF t
  <2>. QED BY <1>1, <1>3, <2>1, <2>2, HandledExcept
<1>6. CASE SessionLost(e)
  <2> DEFINE t == Lost(s, s.session)
  <2>1. s.session \in live /\ Update([entry EXCEPT ![e] = t], {s.session})
    BY <1>6, Zenon DEF SessionLost
  <2>2. s.session # 0 /\ s.phase # "offline"
    BY <1>1, <2>1 DEF Order, LiveHeld, Orderly, ClientOrder
  <2>3. t \in Entry
    BY <1>1, LostSound, SoundIs
  <2>4. CASE s.phase = "draining"
    <3>1. t = s
      BY <2>4 DEF Lost
    <3>. HIDE DEF t
    <3>. QED BY <1>1, <2>1, <3>1, OneUpdate DEF Update
  <2>5. CASE s.phase # "draining"
    <3>1. /\ Orderly(t, Busy(e), Registered(e)) /\ t.session = 0 /\ t.gen = s.gen
          /\ t.owner = s.owner /\ t.pending = s.pending /\ t.cleanup = s.cleanup
          /\ t.releasing = s.releasing /\ t.connect = s.connect /\ t.attempt = s.attempt
      BY <1>1, <2>2, <2>5, LostOrderly
    <3>. HIDE DEF t
    <3>2. Held(s) \subseteq Held(t) \cup {s.session} \cup {0}
      BY <3>1 DEF Held
    <3>3. /\ Order' /\ entry'[e] = t /\ \A f \in Entries : f # e => entry'[f] = entry[f]
      BY <1>1, <2>1, <2>3, <3>1, <3>2, OneUpdate DEF Update
    <3>4. SessionState(s) \in {"up", "stuck"} /\ SessionState(t) = "none"
      BY <2>2, <2>5, <3>1, SessionStates
    <3>5. UNCHANGED <<op, seq>>
      BY <2>1 DEF Update
    <3>. QED BY <3>1, <3>3, <3>4, <3>5, ServiceBreaks
  <2>. QED BY <2>4, <2>5
<1>. QED BY <1>4, <1>5, <1>6

(* close(): every connection is disconnected.                              *)
LEMMA CloseOrder ==
  ASSUME IInv, Order, Close
  PROVE  Order' /\ ServiceStep
<1> DEFINE D(e) == IF Registered(e) THEN Disconnecting(entry[e], Busy(e)) ELSE entry[e]
           E == [e \in Entries |-> D(e)]
<1>1. Install(E, {}) /\ UNCHANGED <<registry, op, seq>>
  BY Zenon DEF Close
<1>2. ASSUME NEW e \in Entries
      PROVE  D(e) \in Sound(~Busy(e)) /\ Orderly(D(e), Busy(e), Registered(e)) /\ Kept(entry[e], D(e))
  <2> DEFINE g == Disconnecting(entry[e], Busy(e))
  <2>1. /\ entry[e] \in Sound(~Busy(e)) /\ Orderly(entry[e], Busy(e), Registered(e))
        /\ Busy(e) \in BOOLEAN
    BY EntryOrder
  <2>2. g \in Sound(~Busy(e))
    BY <2>1, DisconnectingSound
  <2>3. Orderly(g, Busy(e), Registered(e)) /\ Kept(entry[e], g)
    BY <2>1, DisconnectingOrderly
  <2>. HIDE DEF g
  <2>4. D(e) = IF Registered(e) THEN g ELSE entry[e]
    BY Zenon DEF g
  <2>. HIDE DEF D
  <2>. QED BY <2>1, <2>2, <2>3, <2>4, KeptSelf
<1>. HIDE DEF D
<1>3. Handled(E)
  BY <1>2 DEF Handled, Legal, Sound
<1>. HIDE DEF E
<1>. QED BY <1>1, <1>3, HandledPreserves

(* A connection is registered: its entry was never used.                   *)
LEMMA RegisterOrder ==
  ASSUME IInv, Order, NEW id \in Ids, NEW d \in Defs, Register(id, d)
  PROVE  Order' /\ ServiceStep
<1>1. PICK e \in Entries : /\ entry[e].owner = None
                           /\ registry' = [registry EXCEPT ![id] = e]
                           /\ entry' = [entry EXCEPT ![e] = Fresh(id, d)]
  BY DEF Register
<1> DEFINE t == Fresh(id, d)
<1>2. /\ registry[id] = None /\ registry \in [Ids -> Entries \cup {None}]
      /\ entry \in [Entries -> Entry] /\ None \notin Ids /\ None \notin Entries
      /\ UNCHANGED <<op, seq, attempts, live>>
  BY ConstantsAssumption DEF Register, IInv, TypeOK
<1>3. /\ entry[e].gen = 0 /\ ~Registered(e) /\ ~Busy(e) /\ entry[e].session = 0
      /\ Held(entry[e]) = {0}
  <2>1. Orderly(entry[e], Busy(e), Registered(e))
    BY EntryOrder
  <2>2. entry[e].gen = 0 /\ ~Registered(e) /\ Dead(entry[e]) /\ ~Busy(e)
    BY <1>1, <2>1 DEF Orderly, RemovalOrder
  <2>3. /\ entry[e].session = 0 /\ entry[e].pending = 0 /\ entry[e].cleanup = 0
        /\ entry[e].releasing = 0 /\ entry[e].connect = "none"
    BY <2>1, <2>2 DEF Orderly, ClientOrder, DisconnectOrder, Dead
  <2>. QED BY <2>2, <2>3 DEF Held
<1>4. /\ \A k : (k => id # None) => Orderly(t, FALSE, k)
      /\ t.owner = id /\ t.gen = 0 /\ t.session = 0 /\ t.attempt = 0 /\ t.connect = "none"
  BY FreshOrderly
<1>. HIDE DEF t
<1>5. /\ entry'[e] = t /\ \A f \in Entries : f # e => entry'[f] = entry[f]
      /\ registry'[id] = e /\ \A i \in Ids : i # id => registry'[i] = registry[i]
  BY <1>1, <1>2 DEF t
<1>6. Registered(e)' /\ \A f \in Entries : f # e => (Registered(f)' <=> Registered(f))
  BY <1>1, <1>2, <1>5 DEF Registered
<1>7. \A f \in Entries : Busy(f)' <=> Busy(f)
  BY <1>2 DEF Busy
<1>8. InOrder'
  <2> SUFFICES ASSUME NEW f \in Entries PROVE Orderly(entry'[f], Busy(f)', Registered(f)')
    BY DEF InOrder
  <2>1. CASE f = e
    <3>1. Busy(f)' = FALSE
      BY <1>3, <1>7, <2>1 DEF Busy
    <3>2. Orderly(t, FALSE, Registered(f)')
      BY <1>2, <1>4
    <3>. QED BY <1>5, <2>1, <3>1, <3>2
  <2>2. CASE f # e
    <3>1. Registered(f)' = Registered(f) /\ Busy(f)' = Busy(f)
      BY <1>6, <1>7, <2>2 DEF Registered, Busy
    <3>2. Orderly(entry[f], Busy(f), Registered(f))
      BY EntryOrder
    <3>. QED BY <1>5, <2>2, <3>1, <3>2
  <2>. QED BY <2>1, <2>2
<1>9. GenOrder'
  <2>1. \A f \in Entries : entry'[f].gen = entry[f].gen
    BY <1>3, <1>4, <1>5
  <2>. QED BY <1>2, <2>1 DEF Order, GenOrder, GenerationsUnique
<1>10. RegOrder'
  <2>1. \A i \in Ids : registry[i] # e
    BY <1>3 DEF Registered
  <2>2. \A i \in Ids : registry[i] # None => entry[registry[i]].owner = i
    BY DEF Order, RegOrder
  <2>. QED BY <1>2, <1>4, <1>5, <2>1, <2>2 DEF RegOrder
<1>11. LiveHeld'
  BY <1>2, <1>3, <1>5 DEF Order, LiveHeld
<1>12. \A o \in Ops : OpOrder(o)'
  <2>1. \A o \in Ops : op[o].entry # e
    BY <1>3 DEF Busy
  <2>2. \A o \in Ops : op[o].entry \in Entries \cup {None}
    BY DEF IInv, TypeOK, Operation
  <2>. QED BY <1>2, <1>5, <2>1, <2>2 DEF Order, OpOrder
<1>13. \A f \in Entries : AttemptOrder(f)'
  <2> SUFFICES ASSUME NEW f \in Entries PROVE AttemptOrder(f)'
    OBVIOUS
  <2>1. CASE f = e
    BY <1>2, <1>4, <1>5, <2>1 DEF AttemptOrder, Trying, IInv, TypeOK
  <2>2. CASE f # e
    BY <1>2, <1>5, <2>2 DEF AttemptOrder, Order
  <2>. QED BY <2>1, <2>2
<1>14. ServiceStep
  <2>1. SessionState(entry'[e]) = SessionState(entry[e]) /\ entry'[e].gen = entry[e].gen
    BY <1>3, <1>4, <1>5, SessionStates
  <2>. QED BY <1>2, <1>5, <2>1, ServiceSame
<1>. QED BY <1>8, <1>9, <1>10, <1>11, <1>12, <1>13, <1>14 DEF Order

(* An operation is admitted on a session that is up.                       *)
LEMMA OpStartOrder ==
  ASSUME IInv, Order, NEW o \in Ops, NEW id \in Ids, NEW kind \in {"call", "refresh"},
         OpStart(o, id, kind)
  PROVE  Order' /\ ServiceStep
<1>0. PICK e \in Entries : e = registry[id]
  BY DEF IInv, TypeOK, OpStart
<1> DEFINE s == entry[e]
           p == [entry |-> e, session |-> s.session, gen |-> s.gen,
                 kind |-> kind, current |-> TRUE]
<1>1. /\ e \in Entries /\ Admits(s) /\ op[o] = IdleOp /\ op' = [op EXCEPT ![o] = p]
      /\ UNCHANGED <<registry, entry, seq, attempts, live>>
      /\ op \in [Ops -> Operation] /\ None \notin Entries
  BY <1>0, ConstantsAssumption DEF IInv, TypeOK, OpStart
<1>2. Orderly(s, Busy(e), Registered(e)) /\ Registered(e)
  BY <1>0, <1>1, EntryOrder DEF Registered
<1>3. s.session # 0 /\ s.gen # 0 /\ Usable(s)
  BY <1>1, <1>2 DEF Admits, Orderly, ClientOrder
<1>4. Orderly(s, TRUE, Registered(e))
  BY <1>1, <1>2, <1>3 DEF Orderly, Admits, Usable, ConnectOrder, ClientOrder, BusyOrder,
     RemovalOrder, Dead, Trying
<1>5. /\ op'[o] = p /\ \A q \in Ops : q # o => op'[q] = op[q]
      /\ p.entry = e /\ p.session = s.session /\ p.gen = s.gen
  BY <1>1
<1>. HIDE DEF p
<1>6. \A f \in Entries : f # e => (Busy(f)' <=> Busy(f))
  <2>1. op[o].entry = None
    BY <1>1 DEF IdleOp
  <2>. QED BY <1>1, <1>5, <2>1 DEF Busy
<1>7. Busy(e)' = TRUE
  BY <1>1, <1>5 DEF Busy
<1>8. InOrder'
  <2> SUFFICES ASSUME NEW f \in Entries PROVE Orderly(entry[f], Busy(f)', Registered(f))
    BY <1>1 DEF InOrder, Registered
  <2>1. CASE f = e
    <3>1. Busy(f)' = TRUE
      BY <1>7, <2>1 DEF Busy
    <3>. QED BY <1>4, <2>1, <3>1
  <2>2. CASE f # e
    <3>1. Busy(f)' = Busy(f)
      BY <1>6, <2>2 DEF Busy
    <3>2. Orderly(entry[f], Busy(f), Registered(f))
      BY EntryOrder
    <3>. QED BY <3>1, <3>2
  <2>. QED BY <2>1, <2>2
<1>9. \A q \in Ops : OpOrder(q)'
  BY <1>1, <1>3, <1>5 DEF Order, OpOrder
<1>10. GenOrder' /\ RegOrder' /\ LiveHeld' /\ \A f \in Entries : AttemptOrder(f)'
  BY <1>1 DEF Order, GenOrder, GenerationsUnique, RegOrder, LiveHeld, AttemptOrder
<1>11. ServiceStep
  <2> DEFINE state == [f \in Entries |-> SessionState(entry[f])]
             gens == [f \in Entries |-> entry[f].gen]
             user == [q \in Ops |-> op[q].gen]
  <2>1. state[e] = "up"
    BY <1>1, <1>3, SessionStates DEF Usable
  <2>2. user[o] = 0 /\ gens[e] = s.gen
    BY <1>1 DEF IdleOp
  <2>3. [q \in Ops |-> op'[q].gen] = [user EXCEPT ![o] = gens[e]]
    BY <1>1, <1>5
  <2>4. UNCHANGED <<state, gens, seq>>
    BY <1>1
  <2>5. Service!Admit(o, e)
    BY <2>1, <2>2, <2>3, <2>4 DEF Service!Admit
  <2>. QED BY <2>5 DEF ServiceStep, Service!Next
<1>. QED BY <1>8, <1>9, <1>10, <1>11 DEF Order

(* An operation comes to its end, and the sessions stay as they are.       *)
LEMMA ServiceFinishes ==
  ASSUME IInv, Order, NEW o \in Ops, op[o].entry # None, op'[o] = IdleOp,
         \A q \in Ops : q # o => op'[q].gen = op[q].gen,
         \A f \in Entries : /\ SessionState(entry'[f]) = SessionState(entry[f])
                            /\ entry'[f].gen = entry[f].gen,
         UNCHANGED seq
  PROVE  ServiceStep
<1> DEFINE user == [q \in Ops |-> op[q].gen]
<1>1. op[o].gen # 0
  <2>1. op[o].entry \in Entries /\ OpOrder(o)
    BY DEF IInv, TypeOK, Operation, Order
  <2>2. Orderly(entry[op[o].entry], Busy(op[o].entry), Registered(op[o].entry))
    BY <2>1, EntryOrder
  <2>. QED BY <2>1, <2>2 DEF OpOrder, Orderly, BusyOrder, Busy
<1>2. [f \in Entries |-> SessionState(entry'[f])] = [f \in Entries |-> SessionState(entry[f])]
  OBVIOUS
<1>3. [f \in Entries |-> entry'[f].gen] = [f \in Entries |-> entry[f].gen]
  OBVIOUS
<1>4. [q \in Ops |-> op'[q].gen] = [user EXCEPT ![o] = 0]
  <2>1. op'[o].gen = 0
    BY DEF IdleOp
  <2>. QED BY <2>1
<1>5. Service!Finish(o)
  BY <1>1, <1>2, <1>3, <1>4 DEF Service!Finish, SessionState
<1>. QED BY <1>5 DEF ServiceStep, Service!Next

(* An operation learns that its session is gone.                           *)
LEMMA ServiceExpires ==
  ASSUME NEW o \in Ops, NEW e \in Entries, op[o].gen = entry[e].gen, op'[o] = IdleOp,
         \A q \in Ops : q # o => op'[q].gen = op[q].gen,
         SessionState(entry[e]) = "up", SessionState(entry'[e]) = "none",
         \A f \in Entries : f # e => entry'[f] = entry[f], entry'[e].gen = entry[e].gen,
         UNCHANGED seq
  PROVE  ServiceStep
<1> DEFINE user == [q \in Ops |-> op[q].gen]
<1>1. [f \in Entries |-> SessionState(entry[f])][e] = "up"
  OBVIOUS
<1>2. user[o] = [f \in Entries |-> entry[f].gen][e]
  OBVIOUS
<1>3. [q \in Ops |-> op'[q].gen] = [user EXCEPT ![o] = 0]
  <2>1. op'[o].gen = 0
    BY DEF IdleOp
  <2>. QED BY <2>1
<1>4. Service!Expire(o, e)
  BY <1>1, <1>2, <1>3, ServiceChanges DEF Service!Expire
<1>. QED BY <1>4 DEF ServiceStep, Service!Next

(* The operations end.                                                     *)
LEMMA OpEndsOrder ==
  ASSUME IInv, Order, NEW o \in Ops, OpEnds(o)
  PROVE  Order' /\ ServiceStep
<1> DEFINE e == op[o].entry
           s == entry[e]
           c == op[o].session
<1>1. /\ e \in Entries /\ e # None /\ op \in [Ops -> Operation]
  BY DEF IInv, TypeOK, Operation, OpEnds, OpReturns, OpRefreshCommits, OpRefreshFails,
         OpExpires, RefreshExpires, Running
<1>2. /\ s \in Sound(~Busy(e)) /\ s \in Entry /\ Orderly(s, Busy(e), Registered(e))
      /\ AttemptOrder(e) /\ Busy(e) = TRUE /\ attempts \in Nat
  BY <1>1, EntryOrder DEF Busy
<1>3. op[o].gen = s.gen /\ c # 0
  BY <1>1 DEF Order, OpOrder
<1>4. /\ op' = [op EXCEPT ![o] = IdleOp] \/ op' = Committed(o)
      /\ UNCHANGED <<registry, seq>>
  BY DEF OpEnds, OpReturns, OpRefreshCommits, OpRefreshFails, OpExpires, RefreshExpires,
         Commit
<1>5. op'[o] = IdleOp /\ (\A q \in Ops : q # o => op'[q].gen = op[q].gen) /\ OpsEnd
  <2>1. CASE op' = [op EXCEPT ![o] = IdleOp]
    BY <1>1, <2>1 DEF OpsEnd
  <2>2. CASE op' = Committed(o)
    <3>1. \A q \in Ops : LET w == [op[q] EXCEPT !.current = FALSE]
                         IN  /\ w.entry = op[q].entry /\ w.session = op[q].session
                             /\ w.gen = op[q].gen
      BY <1>1 DEF Operation
    <3>. QED BY <1>1, <2>2, <3>1 DEF Committed, OpsEnd
  <2>. QED BY <1>4, <2>1, <2>2
<1>6. ASSUME NEW t \in Entry, Orderly(t, Busy(e), Registered(e)), Kept(s, t),
             t.attempt = s.attempt, t.connect = s.connect,
             SessionState(t) = SessionState(s), Install([entry EXCEPT ![e] = t], {})
      PROVE  Order' /\ ServiceStep
  <2>1. /\ t.owner = s.owner /\ t.gen = s.gen /\ t.session = s.session
        /\ Held(s) \subseteq Held(t)
    BY <1>6, KeptHeld DEF Kept
  <2>2. Order' /\ entry'[e] = t /\ \A f \in Entries : f # e => entry'[f] = entry[f]
    BY <1>1, <1>4, <1>5, <1>6, <2>1, OneStep
  <2>3. \A f \in Entries : /\ SessionState(entry'[f]) = SessionState(entry[f])
                           /\ entry'[f].gen = entry[f].gen
    BY <1>6, <2>1, <2>2
  <2>. QED BY <1>1, <1>4, <1>5, <2>2, <2>3, ServiceFinishes
<1>7. CASE OpReturns(o)
  <2>1. Install([entry EXCEPT ![e] = s], {})
    <3>1. [entry EXCEPT ![e] = s] = entry
      BY <1>1 DEF IInv, TypeOK
    <3>2. \A f \in Entries : entry[f].attempt <= attempts /\ entry[f].attempt \in Nat
      BY DEF IInv, TypeOK, Entry, Order, AttemptOrder
    <3>3. ~\E f \in Entries : entry[f].attempt = attempts + 1
      BY <1>2, <3>2
    <3>4. UNCHANGED <<entry, attempts, live>>
      BY <1>7 DEF OpReturns
    <3>. QED BY <3>1, <3>3, <3>4 DEF Install
  <2>. QED BY <1>2, <1>6, <2>1, KeptSelf
<1>8. ASSUME NEW t, NEW p \in {"online", "degraded"}, t \in Entry, Usable(s),
             Orderly(t, Busy(e), Registered(e)), Kept(s, t), t.phase = p, SameConnect(s, t),
             Install([entry EXCEPT ![e] = t], {})
      PROVE  Order' /\ ServiceStep
  <2>1. SessionState(t) = SessionState(s)
    BY <1>8, SessionStates DEF Kept, Usable
  <2>. QED BY <1>6, <1>8, <2>1 DEF SameConnect
<1>9. ASSUME Authority(o), NEW p \in {"online", "degraded"}, Commit(o, p)
      PROVE  Order' /\ ServiceStep
  <2> DEFINE x == [s EXCEPT !.catalog = op[o].gen]
             t == Transition(x, p)
  <2>1. Usable(s)
    BY <1>9, Zenon DEF Authority
  <2>2. Install([entry EXCEPT ![e] = t], {})
    BY <1>9, Zenon DEF Commit
  <2>3. /\ Orderly(t, Busy(e), Registered(e)) /\ Kept(s, t) /\ IsTransition(s, t, p)
    BY <1>2, <2>1, UsableOrderly
  <2>4. t \in Entry
    <3>1. x \in Entry /\ x.phase = s.phase /\ x.gen = s.gen /\ x.catalog = s.gen
          /\ x.disconnect = s.disconnect
      BY <1>1, <1>2, <1>3, ZenonT(60) DEF Entry
    <3>. HIDE DEF x
    <3>2. x \in Sound(~Busy(e))
      BY <1>2, <2>1, <3>1 DEF Sound, CatalogOK, Usable
    <3>3. p \in Phases
      BY DEF Phases
    <3>. QED BY <3>2, <3>3, TransitionSound, SoundIs
  <2>. HIDE DEF t
  <2>. QED BY <1>8, <2>1, <2>2, <2>3, <2>4 DEF IsTransition
<1>10. CASE OpRefreshCommits(o)
  BY <1>9, <1>10 DEF OpRefreshCommits
<1>11. CASE RefreshExpires(o)
  BY <1>9, <1>11 DEF RefreshExpires
<1>12. CASE OpRefreshFails(o)
  <2> DEFINE t == Transition(s, "degraded")
  <2>1. Usable(s) /\ "degraded" \in Phases
    BY <1>12, Zenon DEF OpRefreshFails, Authority, Phases
  <2>2. Install([entry EXCEPT ![e] = t], {})
    BY <1>12, Zenon DEF OpRefreshFails
  <2>3. /\ Orderly(t, Busy(e), Registered(e)) /\ Kept(s, t) /\ IsTransition(s, t, "degraded")
    BY <1>2, <2>1, UsableOrderly
  <2>4. t \in Entry
    BY <1>2, <2>1, TransitionSound, SoundIs
  <2>. HIDE DEF t
  <2>. QED BY <1>8, <2>1, <2>2, <2>3, <2>4 DEF IsTransition
<1>13. CASE OpExpires(o)
  <2> DEFINE t == Lost(s, c)
             dead == IF t = s THEN {} ELSE {c}
  <2>1. Install([entry EXCEPT ![e] = t], dead)
    BY <1>13, Zenon DEF OpExpires
  <2>2. CASE s.session # c \/ s.phase \in {"draining", "offline"}
    <3>1. t = s /\ dead = {}
      BY <2>2 DEF Lost
    <3>. HIDE DEF t, dead
    <3>. QED BY <1>2, <1>6, <2>1, <3>1, KeptSelf
  <2>3. CASE s.session = c /\ s.phase \notin {"draining", "offline"}
    <3>1. /\ Orderly(t, Busy(e), Registered(e)) /\ t.session = 0 /\ t.gen = s.gen
          /\ t.owner = s.owner /\ t.pending = s.pending /\ t.cleanup = s.cleanup
          /\ t.releasing = s.releasing /\ t.connect = s.connect /\ t.attempt = s.attempt
      BY <1>2, <1>3, <2>3, LostOrderly
    <3>2. t \in Entry
      BY <1>2, LostSound, SoundIs
    <3>. HIDE DEF t
    <3>3. dead = {c}
      BY <1>3, <2>3, <3>1
    <3>. HIDE DEF dead
    <3>4. Held(s) \subseteq Held(t) \cup dead \cup {0}
      BY <2>3, <3>1, <3>3 DEF Held
    <3>5. Order' /\ entry'[e] = t /\ \A f \in Entries : f # e => entry'[f] = entry[f]
      BY <1>1, <1>2, <1>4, <1>5, <2>1, <2>3, <3>1, <3>2, <3>3, <3>4, OneStep
    <3>6. SessionState(s) = "up" /\ SessionState(t) = "none"
      <4>1. s.phase # "quarantined"
        BY <1>2 DEF Orderly, BusyOrder
      <4>. QED BY <1>3, <2>3, <3>1, <4>1, SessionStates
    <3>. QED BY <1>1, <1>3, <1>4, <1>5, <3>1, <3>5, <3>6, ServiceExpires
  <2>. QED BY <2>2, <2>3
<1>. QED BY <1>7, <1>10, <1>11, <1>12, <1>13 DEF OpEnds

----------------------------------------------------------------------------
(* The initial states are in order, and are initial for the service.       *)
LEMMA InitOrder == Init => Order /\ Service!Init
<1> SUFFICES ASSUME Init
             PROVE  Order /\ Service!Init
  OBVIOUS
<1> DEFINE t == Fresh(None, CHOOSE d \in Defs : TRUE)
<1>1. /\ registry = [id \in Ids |-> None] /\ entry = [e \in Entries |-> t]
      /\ op = [o \in Ops |-> IdleOp] /\ seq = 0 /\ attempts = 0 /\ live = {}
      /\ None \notin Entries
  BY ConstantsAssumption DEF Init
<1>2. /\ Orderly(t, FALSE, FALSE) /\ t.gen = 0 /\ t.session = 0 /\ t.attempt = 0
      /\ t.connect = "none"
  BY FreshOrderly, ZenonT(30)
<1>. HIDE DEF t
<1>3. \A e \in Entries : Busy(e) = FALSE /\ Registered(e) = FALSE
  BY <1>1 DEF Busy, Registered, IdleOp
<1>4. InOrder
  <2> SUFFICES ASSUME NEW e \in Entries PROVE Orderly(entry[e], Busy(e), Registered(e))
    BY DEF InOrder
  <2>. QED BY <1>1, <1>2, <1>3
<1>5. Order
  BY <1>1, <1>2, <1>4 DEF Order, GenOrder, GenerationsUnique, RegOrder, LiveHeld, OpOrder,
     AttemptOrder, Trying, IdleOp
<1>6. Service!Init
  BY <1>1, <1>2, SessionStates DEF Service!Init, IdleOp
<1>. QED BY <1>5, <1>6

(* A step that changes nothing.                                            *)
LEMMA StutterOrder ==
  ASSUME Order, UNCHANGED vars
  PROVE  Order' /\ ServiceStep
<1>1. UNCHANGED <<registry, entry, op, seq, attempts, live>>
  BY DEF vars
<1>2. Order'
  BY <1>1 DEF Order, InOrder, GenOrder, GenerationsUnique, RegOrder, LiveHeld, OpOrder,
     AttemptOrder, Busy, Registered
<1>3. UNCHANGED Service!vars
  BY <1>1 DEF Service!vars, SessionState
<1>. QED BY <1>2, <1>3 DEF ServiceStep

(* Every step preserves the order and is one of the service, or none.      *)
LEMMA NextOrder ==
  ASSUME Callers = {}, IInv, Order, [Next]_vars
  PROVE  Order' /\ ServiceStep
<1>1. ASSUME HostCall PROVE Order' /\ ServiceStep
  BY <1>1, RegisterOrder, CallOrder, ReplaceOrder, OpStartOrder, CloseOrder DEF HostCall
<1>2. ASSUME NEW e \in Entries,
             \/ Continue(e) \/ Connecting(e) \/ Closing(e) \/ ReconnectFires(e)
             \/ SessionLost(e) \/ TimePasses(e)
      PROVE  Order' /\ ServiceStep
  BY <1>2, ContinueOrder, RemoveAfterDisconnectOrder, ConnectingOrder, ClosingOrder, EventOrder
<1>3. ASSUME NEW o \in Ops, OpEnds(o) PROVE Order' /\ ServiceStep
  BY <1>3, OpEndsOrder
<1>. QED BY <1>1, <1>2, <1>3, StutterOrder DEF Next

(* The order is an invariant of the manager as long as nobody completes an *)
(* authorization: what tasks, clients, operations and waiting calls an     *)
(* entry of #connections can have at once.                                 *)
THEOREM OrderAlways ==
  ASSUME Callers = {}
  PROVE  Spec => [](IInv /\ Order)
<1>1. Init => IInv /\ Order
  BY InitInv, InitOrder
<1>2. IInv /\ Order /\ [Next]_vars => (IInv /\ Order)'
  BY NextInv, NextOrder
<1>. QED BY <1>1, <1>2, PTL DEF Spec

(* The manager keeps what GenerationService promises of its sessions: they *)
(* come up one at a time under a new generation, are used only while they  *)
(* are up, are drained before they are closed, and an operation ends with  *)
(* the session it was admitted on.                                         *)
THEOREM ServiceImplemented ==
  ASSUME Callers = {}
  PROVE  Spec => ImplementsService
<1>1. Init => Service!Init
  BY InitOrder
<1>2. IInv /\ Order /\ [Next]_vars => [Service!Next]_(Service!vars)
  BY NextOrder DEF ServiceStep
<1>. QED BY <1>1, <1>2, OrderAlways, PTL DEF Spec, ImplementsService, Service!Spec

(* An entry that was removed stays dead, the reconnect timer is armed only *)
(* after a failure, and a generation is never used twice.                  *)
THEOREM EntriesAlwaysSound ==
  ASSUME Callers = {}
  PROVE  Spec => []EntriesSound
<1>1. ASSUME IInv, Order PROVE EntriesSound
  <2>1. \A e \in Entries : /\ Orderly(entry[e], Busy(e), Registered(e))
                           /\ entry[e] \in Entry
    BY <1>1, EntryOrder
  <2>2. RemovedIsDead
    BY <2>1 DEF RemovedIsDead, Orderly, RemovalOrder, ClientOrder, DisconnectOrder, Dead
  <2>3. TimerOnlyAfterFailure
    BY <2>1 DEF TimerOnlyAfterFailure, Orderly, ClientOrder, DisconnectOrder, Ahead
  <2>. QED BY <1>1, <2>2, <2>3 DEF EntriesSound, Order, GenOrder
<1>2. IInv /\ Order => EntriesSound
  BY <1>1
<1>. QED BY <1>2, OrderAlways, PTL

(* No client leaks: each one that is open is held by an entry the registry *)
(* knows, through every failure, removal, swap and reconnect.              *)
THEOREM NoClientOrphaned ==
  ASSUME Callers = {}
  PROVE  Spec => []NoOrphanClient
<1>1. ASSUME IInv, Order PROVE NoOrphanClient
  <2> SUFFICES ASSUME NEW c \in live
               PROVE  \E e \in Entries : Registered(e) /\ c \in Held(entry[e])
    BY DEF NoOrphanClient
  <2>1. PICK e \in Entries : c \in Held(entry[e]) /\ c # 0
    BY <1>1 DEF Order, LiveHeld
  <2>2. Orderly(entry[e], Busy(e), Registered(e))
    BY <1>1, EntryOrder
  <2>3. ~Registered(e) => Held(entry[e]) = {0}
    BY <2>2 DEF Orderly, RemovalOrder, ClientOrder, DisconnectOrder, Dead, Held
  <2>. QED BY <2>1, <2>3
<1>2. IInv /\ Order => NoOrphanClient
  BY <1>1
<1>. QED BY <1>2, OrderAlways, PTL
============================================================================
