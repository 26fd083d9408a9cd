--------------------- MODULE ConnectionLifecycleProofs ---------------------
(***************************************************************************)
(* Type correctness of ConnectionLifecycle, and the two invariants that    *)
(* tie its records together: a published catalog belongs to the session    *)
(* that is up, and a session is closed only when no operation runs on it.  *)
(*                                                                         *)
(* The argument: every helper of the model keeps an entry sound (first     *)
(* part), so every handler leaves legal entries behind (second part), so   *)
(* every step preserves the invariant IInv (third part).                   *)
(***************************************************************************)
EXTENDS ConnectionLifecycle, SequenceTheorems, TLAPS

CatalogOK(s) == s.catalog # 0 => Usable(s) /\ s.catalog = s.gen

(* The records an entry may hold, where c tells whether it may be closing. *)
Sound(c) == {t \in Entry : CatalogOK(t) /\ (t.disconnect = "close" => c)}

(* What membership in Sound gives.                                         *)
LEMMA SoundIs ==
  ASSUME NEW c, NEW s \in Sound(c)
  PROVE  s \in Entry /\ CatalogOK(s) /\ (s.disconnect = "close" => c)
BY DEF Sound

(* A change that leaves phase, generation and catalog alone, and does not  *)
(* begin to close, keeps an entry sound.                                   *)
LEMMA KeepsSound ==
  ASSUME NEW c, NEW s \in Sound(c), NEW t \in Entry,
         t.phase = s.phase, t.gen = s.gen, t.catalog = s.catalog,
         t.disconnect # "close" \/ t.disconnect = s.disconnect
  PROVE  t \in Sound(c)
BY DEF Sound, CatalogOK, Usable

(* The queues of continuations are closed under the operations the model   *)
(* applies to them.                                                        *)
LEMMA ContinuationSeqs ==
  /\ <<>> \in Seq(Continuations)
  /\ \A q \in Seq(Continuations), x \in Continuations : Append(q, x) \in Seq(Continuations)
  /\ \A q, r \in Seq(Continuations) :
       q \o r \in Seq(Continuations) /\ q \o <<"retry">> \o r \in Seq(Continuations)
<1>1. "retry" \in Continuations
  BY DEF Continuations
<1>2. <<"retry">> \in Seq(Continuations)
  BY <1>1
<1>. QED BY <1>2, ConcatProperties

(* #transition keeps an entry sound: it drops the catalog when the phase   *)
(* is no longer a usable one.                                              *)
LEMMA TransitionSound ==
  ASSUME NEW c, NEW s \in Sound(c), NEW p \in Phases
  PROVE  Transition(s, p) \in Sound(c)
<1>1. s \in Entry
  BY SoundIs
<1>2. (s.timer /\ p = "failed") \in BOOLEAN
  OBVIOUS
<1>3. (IF p \in {"online", "degraded"} THEN s.catalog ELSE 0) \in Nat
  BY <1>1 DEF Entry
<1>4. Transition(s, p) \in Entry
  BY <1>1, <1>2, <1>3, ZenonT(60) DEF Entry, Transition
<1>5. /\ Transition(s, p).phase = p /\ Transition(s, p).gen = s.gen
      /\ Transition(s, p).catalog = (IF p \in {"online", "degraded"} THEN s.catalog ELSE 0)
      /\ Transition(s, p).disconnect = s.disconnect
  BY <1>1, ZenonT(60) DEF Entry, Transition
<1>. QED BY <1>4, <1>5 DEF Sound, CatalogOK, Usable

(* #scheduleReconnect keeps an entry sound, and its counter within         *)
(* maxAttempts.                                                            *)
LEMMA RescheduledSound ==
  ASSUME NEW c, NEW s \in Sound(c)
  PROVE  Rescheduled(s) \in Sound(c)
<1>1. s \in Entry
  BY SoundIs
<1>2. CASE ~MayReconnect(s)
  BY <1>2 DEF Rescheduled
<1>3. CASE MayReconnect(s)
  <2> DEFINE resets  == s.def \in ResetLater /\ s.streak = "elapsed"
             spent   == IF resets THEN 0 ELSE s.tries
             started == IF s.streak = "none" THEN "tried" ELSE s.streak
  <2>1. spent \in 0..MaxTries /\ started \in Streaks
    BY <1>1, ConstantsAssumption DEF Entry, Streaks
  <2>2. (IF spent < MaxTries THEN spent + 1 ELSE spent) \in 0..MaxTries
    BY <2>1, ConstantsAssumption
  <2>3. (spent < MaxTries) \in BOOLEAN
    OBVIOUS
  <2>4. Rescheduled(s) = [s EXCEPT !.streak = started,
                     !.tries = IF spent < MaxTries THEN spent + 1 ELSE spent,
                     !.timer = spent < MaxTries]
    BY <1>3, Zenon DEF Rescheduled
  <2>. HIDE DEF spent, started
  <2>5. Rescheduled(s) \in Entry
    BY <1>1, <2>1, <2>2, <2>3, <2>4, ZenonT(60) DEF Entry
  <2>6. /\ Rescheduled(s).phase = s.phase /\ Rescheduled(s).gen = s.gen
        /\ Rescheduled(s).catalog = s.catalog /\ Rescheduled(s).disconnect = s.disconnect
    BY <1>1, <2>4, ZenonT(60) DEF Entry
  <2>. QED BY <2>5, <2>6, KeepsSound
<1>. QED BY <1>2, <1>3

(* The end of a connect task keeps an entry sound.                         *)
LEMMA ConnectSettledSound ==
  ASSUME NEW c, NEW s \in Sound(c), NEW ok \in BOOLEAN
  PROVE  ConnectSettled(s, ok) \in Sound(c)
<1>1. s \in Entry
  BY SoundIs
<1>2. /\ s.ready \in Seq(Continuations) /\ s.onConnect \in Seq(Continuations)
      /\ s.swap \in SwapAt
  BY <1>1 DEF Entry
<1>3. (IF s.retrying /\ ~ok THEN s.ready \o <<"retry">> \o s.onConnect
                      ELSE s.ready \o s.onConnect) \in Seq(Continuations)
  BY <1>2, ContinuationSeqs
<1>4. (IF s.swap = "reconnect" THEN "none" ELSE s.swap) \in SwapAt
  BY <1>2 DEF SwapAt
<1>5. "none" \in ConnectAt
  BY DEF ConnectAt
<1>6. ConnectSettled(s, ok) \in Entry
  BY <1>1, <1>3, <1>4, <1>5, ContinuationSeqs, ZenonT(60) DEF Entry, ConnectSettled
<1>7. /\ ConnectSettled(s, ok).phase = s.phase /\ ConnectSettled(s, ok).gen = s.gen
      /\ ConnectSettled(s, ok).catalog = s.catalog
      /\ ConnectSettled(s, ok).disconnect = s.disconnect
  BY <1>1, ZenonT(60) DEF Entry, ConnectSettled
<1>. QED BY <1>6, <1>7, KeepsSound

(* Dropping the session keeps an entry sound.                              *)
LEMMA NoSessionSound ==
  ASSUME NEW c, NEW s \in Sound(c)
  PROVE  NoSession(s) \in Sound(c)
<1>1. s \in Entry
  BY SoundIs
<1>2. NoSession(s) \in Entry
  BY <1>1, ZenonT(60) DEF Entry, NoSession
<1>3. /\ NoSession(s).phase = s.phase /\ NoSession(s).gen = s.gen
      /\ NoSession(s).catalog = s.catalog /\ NoSession(s).disconnect = s.disconnect
  BY <1>1, ZenonT(60) DEF Entry, NoSession
<1>. QED BY <1>2, <1>3, KeepsSound

(* #handleUnexpectedClose keeps an entry sound.                            *)
LEMMA LostSound ==
  ASSUME NEW c, NEW s \in Sound(c), NEW client
  PROVE  Lost(s, client) \in Sound(c)
<1>1. "failed" \in Phases
  BY DEF Phases
<1>2. Rescheduled(Transition(NoSession(s), "failed")) \in Sound(c)
  BY <1>1, NoSessionSound, TransitionSound, RescheduledSound
<1>. QED BY <1>2 DEF Lost

(* The end of a disconnect task keeps an entry sound.                      *)
LEMMA DisconnectSettledSound ==
  ASSUME NEW c, NEW s \in Sound(c), NEW ok \in BOOLEAN
  PROVE  DisconnectSettled(s, ok) \in Sound(c)
<1>1. s \in Entry
  BY SoundIs
<1>2. /\ s.ready \in Seq(Continuations) /\ s.onDisconnect \in Seq(Continuations)
      /\ s.swap \in SwapAt
  BY <1>1 DEF Entry
<1>3. (IF ok THEN s.ready \o s.onDisconnect ELSE s.ready) \in Seq(Continuations)
  BY <1>2, ContinuationSeqs
<1>4. (IF ~ok /\ s.swap \in {"disconnect", "reconnect"} THEN "none" ELSE s.swap) \in SwapAt
  BY <1>2 DEF SwapAt
<1>5. "none" \in DisconnectAt /\ (s.removing /\ ok) \in BOOLEAN
  BY DEF DisconnectAt
<1>6. DisconnectSettled(s, ok) \in Entry
  BY <1>1, <1>3, <1>4, <1>5, ContinuationSeqs, ZenonT(60) DEF Entry, DisconnectSettled
<1>7. /\ DisconnectSettled(s, ok).phase = s.phase /\ DisconnectSettled(s, ok).gen = s.gen
      /\ DisconnectSettled(s, ok).catalog = s.catalog
      /\ DisconnectSettled(s, ok).disconnect = "none"
  BY <1>1, ZenonT(60) DEF Entry, DisconnectSettled
<1>. QED BY <1>6, <1>7, KeepsSound

(* Going offline at the end of a disconnect keeps an entry sound.          *)
LEMMA WentOfflineSound ==
  ASSUME NEW c, NEW s \in Sound(c)
  PROVE  WentOffline(s) \in Sound(c)
<1>1. "offline" \in Phases
  BY DEF Phases
<1>. QED BY <1>1, TransitionSound, DisconnectSettledSound DEF WentOffline

(* Starting a connect attempt keeps an entry sound.                        *)
LEMMA AttemptingSound ==
  ASSUME NEW c, NEW s \in Sound(c), NEW n \in Nat
  PROVE  Attempting(s, n) \in Sound(c)
<1> DEFINE t == [s EXCEPT !.connect = "open", !.attempt = n, !.attemptDef = s.def]
<1>1. s \in Entry
  BY SoundIs
<1>2. "open" \in ConnectAt /\ "connecting" \in Phases /\ s.def \in Defs
  BY <1>1 DEF ConnectAt, Phases, Entry
<1>3. t \in Entry
  BY <1>1, <1>2, ZenonT(60) DEF Entry
<1>4. t.phase = s.phase /\ t.gen = s.gen /\ t.catalog = s.catalog /\ t.disconnect = s.disconnect
  BY <1>1, ZenonT(60) DEF Entry
<1>5. t \in Sound(c)
  BY <1>3, <1>4, KeepsSound
<1>. QED BY <1>2, <1>5, TransitionSound DEF Attempting

(* A continuation registered on a task keeps an entry sound.               *)
LEMMA Registering ==
  ASSUME NEW c, NEW s \in Sound(c), NEW x \in Continuations
  PROVE  /\ [s EXCEPT !.onConnect = Append(@, x)] \in Sound(c)
         /\ [s EXCEPT !.onDisconnect = Append(@, x)] \in Sound(c)
         /\ [s EXCEPT !.ready = Append(@, x)] \in Sound(c)
<1> DEFINE t == [s EXCEPT !.onConnect = Append(@, x)]
           u == [s EXCEPT !.onDisconnect = Append(@, x)]
           v == [s EXCEPT !.ready = Append(@, x)]
<1>1. s \in Entry
  BY SoundIs
<1>2. /\ Append(s.onConnect, x) \in Seq(Continuations)
      /\ Append(s.onDisconnect, x) \in Seq(Continuations)
      /\ Append(s.ready, x) \in Seq(Continuations)
  BY <1>1, ContinuationSeqs DEF Entry
<1>3. t \in Entry
  BY <1>1, <1>2, ZenonT(60) DEF Entry
<1>4. u \in Entry
  BY <1>1, <1>2, ZenonT(60) DEF Entry
<1>5. v \in Entry
  BY <1>1, <1>2, ZenonT(60) DEF Entry
<1>6. /\ t.phase = s.phase /\ t.gen = s.gen /\ t.catalog = s.catalog /\ t.disconnect = s.disconnect
      /\ u.phase = s.phase /\ u.gen = s.gen /\ u.catalog = s.catalog /\ u.disconnect = s.disconnect
      /\ v.phase = s.phase /\ v.gen = s.gen /\ v.catalog = s.catalog /\ v.disconnect = s.disconnect
  BY <1>1, ZenonT(60) DEF Entry
<1>. HIDE DEF t, u, v
<1>7. t \in Sound(c) /\ u \in Sound(c) /\ v \in Sound(c)
  BY <1>3, <1>4, <1>5, <1>6, KeepsSound
<1>. QED BY <1>7 DEF t, u, v

(* connect() keeps an entry sound.                                         *)
LEMMA ConnectedSound ==
  ASSUME NEW c, NEW s \in Sound(c), NEW busy, NEW n \in Nat
  PROVE  Connected(s, busy, n) \in Sound(c)
<1> DEFINE t == [s EXCEPT !.connect = "drain"]
           joined == \E i \in DOMAIN s.onDisconnect : s.onDisconnect[i] = "connect"
           u == [s EXCEPT !.onDisconnect = IF joined THEN @ ELSE Append(@, "connect")]
<1>1. s \in Entry
  BY SoundIs
<1>2. "drain" \in ConnectAt /\ "connect" \in Continuations
  BY DEF ConnectAt, Continuations
<1>3. t \in Entry
  BY <1>1, <1>2, ZenonT(60) DEF Entry
<1>4. t.phase = s.phase /\ t.gen = s.gen /\ t.catalog = s.catalog /\ t.disconnect = s.disconnect
  BY <1>1, ZenonT(60) DEF Entry
<1>5. t \in Sound(c)
  BY <1>3, <1>4, KeepsSound
<1>6. (IF joined THEN s.onDisconnect ELSE Append(s.onDisconnect, "connect"))
         \in Seq(Continuations)
  BY <1>1, <1>2, ContinuationSeqs DEF Entry
<1>7. u \in Entry
  <2>. HIDE DEF joined
  <2>. QED BY <1>1, <1>6, ZenonT(60) DEF Entry
<1>8. u.phase = s.phase /\ u.gen = s.gen /\ u.catalog = s.catalog /\ u.disconnect = s.disconnect
  <2>. HIDE DEF joined
  <2>. QED BY <1>1, ZenonT(60) DEF Entry
<1>9. u \in Sound(c)
  BY <1>7, <1>8, KeepsSound
<1>10. Attempting(s, n) \in Sound(c)
  BY AttemptingSound
<1>11. Connected(s, busy, n) \in {s, t, u, Attempting(s, n)}
  BY Zenon DEF Connected
<1>. HIDE DEF t, u
<1>. QED BY <1>5, <1>9, <1>10, <1>11

(* #performDisconnect keeps an entry sound: it never begins with the       *)
(* close.                                                                  *)
LEMMA DrainingSound ==
  ASSUME NEW c, NEW s \in Sound(c), NEW busy
  PROVE  Draining(s, busy) \in Sound(c)
<1> DEFINE t == [s EXCEPT !.disconnect = "release", !.releasing = s.pending, !.pending = 0]
           u(at) == [s EXCEPT !.disconnect = at]
<1>1. s \in Entry /\ s.pending \in Nat
  BY SoundIs DEF Entry
<1>2. {"release", "cleanup", "drain", "drainDead"} \subseteq DisconnectAt
  BY DEF DisconnectAt
<1>3. t \in Entry
  BY <1>1, <1>2, ZenonT(60) DEF Entry
<1>4. /\ t.phase = s.phase /\ t.gen = s.gen /\ t.catalog = s.catalog
      /\ t.disconnect = "release"
  BY <1>1, ZenonT(60) DEF Entry
<1>5. t \in Sound(c)
  BY <1>3, <1>4, KeepsSound
<1>6. ASSUME NEW at \in {"cleanup", "drain", "drainDead"}
      PROVE  u(at) \in Sound(c)
  <2>1. at \in DisconnectAt /\ at # "close"
    BY <1>2
  <2>2. u(at) \in Entry
    BY <1>1, <2>1, ZenonT(60) DEF Entry
  <2>3. /\ u(at).phase = s.phase /\ u(at).gen = s.gen /\ u(at).catalog = s.catalog
        /\ u(at).disconnect = at
    BY <1>1, ZenonT(60) DEF Entry
  <2>. QED BY <2>1, <2>2, <2>3, KeepsSound
<1>7. "draining" \in Phases
  BY DEF Phases
<1>8. Draining(s, busy) \in {Transition(t, "draining"), Transition(u("cleanup"), "draining"),
                             Transition(u("drain"), "draining"),
                             Transition(u("drainDead"), "draining"), WentOffline(s)}
  BY <1>1 DEF Draining
<1>9. u("cleanup") \in Sound(c) /\ u("drain") \in Sound(c) /\ u("drainDead") \in Sound(c)
  BY <1>6
<1>. HIDE DEF t, u
<1>. QED BY <1>5, <1>7, <1>8, <1>9, TransitionSound, WentOfflineSound

(* disconnect() keeps an entry sound.                                      *)
LEMMA DisconnectingSound ==
  ASSUME NEW c, NEW s \in Sound(c), NEW busy
  PROVE  Disconnecting(s, busy) \in Sound(c)
<1> DEFINE t == [s EXCEPT !.disconnect = "connect", !.onConnect = Append(@, "disconnect")]
<1>1. s \in Entry
  BY SoundIs
<1>2. "connect" \in DisconnectAt /\ "disconnect" \in Continuations
  BY DEF DisconnectAt, Continuations
<1>3. Append(s.onConnect, "disconnect") \in Seq(Continuations)
  BY <1>1, <1>2, ContinuationSeqs DEF Entry
<1>4. t \in Entry
  BY <1>1, <1>2, <1>3, ZenonT(60) DEF Entry
<1>5. /\ t.phase = s.phase /\ t.gen = s.gen /\ t.catalog = s.catalog
      /\ t.disconnect = "connect"
  BY <1>1, ZenonT(60) DEF Entry
<1>6. t \in Sound(c)
  BY <1>4, <1>5, KeepsSound
<1>. QED BY <1>6, DrainingSound DEF Disconnecting

(* Installing a new session keeps an entry sound: it begins without a      *)
(* catalog.                                                                *)
LEMMA AdoptedSound ==
  ASSUME NEW c, NEW s \in Sound(c), NEW g \in Nat
  PROVE  Adopted(s, g) \in Sound(c)
<1>1. s \in Entry /\ s.attempt \in Nat /\ s.attemptDef \in Defs \cup {None}
  BY SoundIs DEF Entry
<1>2. (IF s.streak # "none" /\ s.attemptDef \notin ResetLater THEN 0 ELSE s.tries)
         \in 0..MaxTries
  BY <1>1, ConstantsAssumption DEF Entry
<1>3. (IF s.streak = "none" THEN s.streak ELSE "recent") \in Streaks
  BY DEF Streaks
<1>4. (s.attemptDef \in RepairsListen) \in BOOLEAN
  OBVIOUS
<1>5. Adopted(s, g) \in Entry
  BY <1>1, <1>2, <1>3, <1>4, ZenonT(60) DEF Entry, Adopted
<1>6. Adopted(s, g).catalog = 0 /\ Adopted(s, g).disconnect = s.disconnect
  BY <1>1, ZenonT(60) DEF Entry, Adopted
<1>. QED BY <1>5, <1>6 DEF Sound, CatalogOK

(* Going online keeps an entry sound.                                      *)
LEMMA OnlineSound ==
  ASSUME NEW c, NEW s \in Sound(c)
  PROVE  Online(s) \in Sound(c)
<1>1. "online" \in Phases
  BY DEF Phases
<1>. QED BY <1>1, TransitionSound, ConnectSettledSound DEF Online

(* The swap of a definition keeps an entry sound.                          *)
LEMMA SwappedSound ==
  ASSUME NEW c, NEW s \in Sound(c)
  PROVE  Swapped(s) \in Sound(c)
<1> DEFINE w == IF s.swapLive THEN "reconnect" ELSE "none"
           t == [s EXCEPT !.def = s.swapTo, !.verdict = FALSE, !.tries = 0,
                     !.timer = FALSE, !.streak = "none", !.swap = w,
                     !.swapLive = FALSE]
<1>1. s \in Entry /\ s.swapTo \in Defs
  BY SoundIs DEF Entry
<1>2. w \in SwapAt /\ "none" \in Streaks /\ 0 \in 0..MaxTries /\ "offline" \in Phases
  BY ConstantsAssumption DEF SwapAt, Streaks, Phases
<1>3. t \in Entry
  <2>. HIDE DEF w
  <2>. QED BY <1>1, <1>2, ZenonT(60) DEF Entry
<1>4. t.phase = s.phase /\ t.gen = s.gen /\ t.catalog = s.catalog /\ t.disconnect = s.disconnect
  BY <1>1, ZenonT(60) DEF Entry
<1>5. t \in Sound(c)
  BY <1>3, <1>4, KeepsSound
<1>6. Swapped(s) \in {t, Transition(t, "offline")}
  BY Zenon DEF Swapped
<1>. HIDE DEF t
<1>. QED BY <1>2, <1>5, <1>6, TransitionSound

----------------------------------------------------------------------------
(* The entries a handler may leave behind: all of them sound, and none is  *)
(* being closed while an operation runs on it.                             *)
Legal == {E \in [Entries -> Entry] : \A e \in Entries : E[e] \in Sound(~Busy(e))}

(* What membership in Legal gives.                                         *)
LEMMA LegalAt ==
  ASSUME NEW E \in Legal, NEW e \in Entries
  PROVE  /\ E \in [Entries -> Entry]
         /\ E[e] \in Entry /\ E[e] \in Sound(~Busy(e))
BY DEF Legal

(* Legal entries stay legal when one of them is given another sound        *)
(* record.                                                                 *)
LEMMA LegalExcept ==
  ASSUME NEW E \in Legal, NEW e \in Entries, NEW s \in Sound(~Busy(e))
  PROVE  [E EXCEPT ![e] = s] \in Legal
<1>1. s \in Entry
  BY SoundIs
<1>. QED BY <1>1 DEF Legal

(* The registry maps every id to an entry or to none.                      *)
LEMMA LookupFound ==
  ASSUME registry \in [Ids -> Entries \cup {None}], NEW id
  PROVE  Lookup(id) \in Entries \cup {None}
BY DEF Lookup

(* connect(id) leaves legal entries behind.                                *)
LEMMA ConnectByIdLegal ==
  ASSUME NEW E \in Legal, NEW id, registry \in [Ids -> Entries \cup {None}],
         attempts \in Nat
  PROVE  ConnectById(id, E) \in Legal
<1> DEFINE e == Lookup(id)
<1>1. CASE closed \/ e = None
  BY <1>1 DEF ConnectById
<1>2. CASE ~(closed \/ e = None)
  <2>1. e \in Entries
    BY <1>2, LookupFound
  <2>2. Connected(E[e], Busy(e), attempts + 1) \in Sound(~Busy(e))
    BY <2>1, LegalAt, ConnectedSound
  <2>3. ConnectById(id, E) = [E EXCEPT ![e] = Connected(E[e], Busy(e), attempts + 1)]
    BY <1>2 DEF ConnectById
  <2>. HIDE DEF e
  <2>4. [E EXCEPT ![e] = Connected(E[e], Busy(e), attempts + 1)] \in Legal
    BY <2>1, <2>2, LegalExcept
  <2>. QED BY <2>3, <2>4
<1>. QED BY <1>1, <1>2

(* Marks of the entry that no part of the invariant speaks of.             *)
LEMMA Marking ==
  ASSUME NEW c, NEW s \in Sound(c), NEW w \in SwapAt, NEW b \in BOOLEAN
  PROVE  /\ [s EXCEPT !.swap = w] \in Sound(c)
         /\ [s EXCEPT !.swapLive = b] \in Sound(c)
         /\ [s EXCEPT !.removing = b] \in Sound(c)
         /\ [s EXCEPT !.timer = b] \in Sound(c)
         /\ [s EXCEPT !.retrying = b] \in Sound(c)
<1> DEFINE x1 == [s EXCEPT !.swap = w]
           x2 == [s EXCEPT !.swapLive = b]
           x3 == [s EXCEPT !.removing = b]
           x4 == [s EXCEPT !.timer = b]
           x5 == [s EXCEPT !.retrying = b]
           Same(t) == /\ t.phase = s.phase /\ t.gen = s.gen /\ t.catalog = s.catalog
                      /\ t.disconnect = s.disconnect
<1>1. s \in Entry
  BY SoundIs
<1>2. x1 \in Entry /\ Same(x1)
  BY <1>1, ZenonT(60) DEF Entry
<1>3. x2 \in Entry /\ Same(x2)
  BY <1>1, ZenonT(60) DEF Entry
<1>4. x3 \in Entry /\ Same(x3)
  BY <1>1, ZenonT(60) DEF Entry
<1>5. x4 \in Entry /\ Same(x4)
  BY <1>1, ZenonT(60) DEF Entry
<1>6. x5 \in Entry /\ Same(x5)
  BY <1>1, ZenonT(60) DEF Entry
<1>. HIDE DEF x1, x2, x3, x4, x5
<1>7. x1 \in Sound(c) /\ x2 \in Sound(c) /\ x3 \in Sound(c) /\ x4 \in Sound(c) /\ x5 \in Sound(c)
  BY <1>2, <1>3, <1>4, <1>5, <1>6, KeepsSound
<1>. QED BY <1>7 DEF x1, x2, x3, x4, x5

(* The end of a swap's reconnect keeps an entry sound.                     *)
LEMMA ReconnectSettlesSound ==
  ASSUME NEW c, NEW s \in Sound(c)
  PROVE  ReconnectSettles(s) \in Sound(c)
<1>1. (IF s.swap = "reconnect" /\ ~Awaiting(s) THEN "none" ELSE s.swap) \in SwapAt
  BY SoundIs DEF Entry, SwapAt
<1>. QED BY <1>1, Marking DEF ReconnectSettles

(* The swap, and the reconnect it may start, leave legal entries behind.   *)
LEMMA SwapFinishesLegal ==
  ASSUME NEW E \in Legal, NEW e \in Entries, registry \in [Ids -> Entries \cup {None}],
         attempts \in Nat
  PROVE  SwapFinishes(e, E) \in Legal
<1> DEFINE id == E[e].owner
           swapped == [E EXCEPT ![e] = Swapped(E[e])]
           C == ConnectById(id, swapped)
           left == [E EXCEPT ![e].swap = "none"]
           up == [C EXCEPT ![e] = ReconnectSettles(C[e])]
<1>1. E[e] \in Sound(~Busy(e)) /\ "none" \in SwapAt /\ TRUE \in BOOLEAN
  BY LegalAt DEF SwapAt
<1>2. left \in Legal
  <2>1. [E[e] EXCEPT !.swap = "none"] \in Sound(~Busy(e))
    BY <1>1, Marking
  <2>2. left = [E EXCEPT ![e] = [E[e] EXCEPT !.swap = "none"]]
    OBVIOUS
  <2>. QED BY <2>1, <2>2, LegalExcept
<1>3. swapped \in Legal
  BY <1>1, SwappedSound, LegalExcept
<1>4. C \in Legal
  BY <1>3, ConnectByIdLegal
<1>5. up \in Legal
  <2>1. ReconnectSettles(C[e]) \in Sound(~Busy(e))
    BY <1>4, LegalAt, ReconnectSettlesSound
  <2>. HIDE DEF C
  <2>. QED BY <1>4, <2>1, LegalExcept
<1>6. SwapFinishes(e, E) \in {left, swapped, up}
  BY Zenon DEF SwapFinishes
<1>. HIDE DEF left, swapped, up
<1>. QED BY <1>2, <1>3, <1>5, <1>6

(* performReplace leaves legal entries behind.                             *)
LEMMA SwapProceedsLegal ==
  ASSUME NEW E \in Legal, NEW e \in Entries, registry \in [Ids -> Entries \cup {None}],
         attempts \in Nat
  PROVE  SwapProceeds(e, E) \in Legal
<1> DEFINE s == [E[e] EXCEPT !.swapLive = Usable(E[e])]
           d == [Disconnecting(s, Busy(e)) EXCEPT !.swap = "disconnect"]
           F == [E EXCEPT ![e] = s]
           atOnce == [E EXCEPT ![e] = [d EXCEPT !.ready = Append(d.ready, "swap")]]
           later == [E EXCEPT ![e] = [d EXCEPT !.onDisconnect = Append(d.onDisconnect, "swap")]]
<1>1. /\ E[e] \in Sound(~Busy(e)) /\ "disconnect" \in SwapAt /\ TRUE \in BOOLEAN
      /\ "swap" \in Continuations /\ Usable(E[e]) \in BOOLEAN
  BY LegalAt DEF SwapAt, Continuations, Usable
<1>2. s \in Sound(~Busy(e))
  BY <1>1, Marking
<1>3. d \in Sound(~Busy(e))
  <2>. HIDE DEF s
  <2>. QED BY <1>1, <1>2, DisconnectingSound, Marking
<1>4. F \in Legal
  <2>. HIDE DEF s
  <2>. QED BY <1>2, LegalExcept
<1>. HIDE DEF d
<1>5. atOnce \in Legal
  BY <1>1, <1>3, Registering, LegalExcept
<1>6. later \in Legal
  BY <1>1, <1>3, Registering, LegalExcept
<1>7. SwapFinishes(e, F) \in Legal
  <2>. HIDE DEF F
  <2>. QED BY <1>4, SwapFinishesLegal
<1>8. SwapProceeds(e, E) \in {SwapFinishes(e, F), atOnce, later}
  BY Zenon DEF SwapProceeds, d
<1>. HIDE DEF F, atOnce, later
<1>. QED BY <1>5, <1>6, <1>7, <1>8

----------------------------------------------------------------------------
(* The inductive invariant: the types, and the entries are legal.          *)
IInv == TypeOK /\ entry \in Legal

(* Legal entries are legal after a step that makes no entry busy.          *)
LEMMA LegalStep ==
  ASSUME NEW E \in Legal, entry' = E, \A e \in Entries : Busy(e)' => Busy(e)
  PROVE  (entry \in Legal)'
<1> SUFFICES ASSUME NEW e \in Entries
             PROVE  E[e] \in Sound(~Busy(e)')
  BY DEF Legal, Sound, CatalogOK, Usable
<1>1. E[e] \in Sound(~Busy(e))
  BY LegalAt
<1>. QED BY <1>1 DEF Sound

(* A handler that installs legal entries keeps the types of what it        *)
(* writes.                                                                 *)
LEMMA InstallTyped ==
  ASSUME NEW E \in Legal, NEW dead, attempts \in Nat, live \subseteq Nat, Install(E, dead)
  PROVE  /\ entry' = E /\ E \in [Entries -> Entry]
         /\ attempts' \in Nat /\ live' \subseteq Nat
<1>1. entry' = E /\ E \in [Entries -> Entry]
  BY DEF Install, Legal
<1>2. CASE \E e \in Entries : E[e].attempt = attempts + 1
  <2>1. attempts + 1 \in Nat
    OBVIOUS
  <2>2. attempts' = attempts + 1 /\ live' = (live \ dead) \cup {attempts + 1}
    BY <1>2, Zenon DEF Install
  <2>. QED BY <1>1, <2>1, <2>2
<1>3. CASE ~\E e \in Entries : E[e].attempt = attempts + 1
  BY <1>1, <1>3 DEF Install
<1>. QED BY <1>2, <1>3

(* An action that only installs legal entries preserves the invariant.     *)
LEMMA UpdatePreserves ==
  ASSUME IInv, NEW E \in Legal, NEW dead, Update(E, dead)
  PROVE  IInv'
<1>1. /\ entry' = E /\ E \in [Entries -> Entry] /\ attempts' \in Nat /\ live' \subseteq Nat
  BY InstallTyped DEF IInv, TypeOK, Update
<1>2. TypeOK'
  BY <1>1 DEF IInv, TypeOK, Update
<1>3. \A e \in Entries : Busy(e)' => Busy(e)
  BY DEF Update, Busy
<1>. QED BY <1>1, <1>2, <1>3, LegalStep DEF IInv

(* Fields of the entry that neither the catalog nor the drain depends on.  *)
LEMMA Recording ==
  ASSUME NEW c, NEW s \in Sound(c), NEW n \in Nat, NEW at \in ConnectAt,
         NEW x \in Streaks, NEW q \in Seq(Continuations),
         NEW d \in Defs
  PROVE  /\ [s EXCEPT !.connect = at] \in Sound(c)
         /\ [s EXCEPT !.cleanup = n] \in Sound(c)
         /\ [s EXCEPT !.pending = n] \in Sound(c)
         /\ [s EXCEPT !.releasing = n] \in Sound(c)
         /\ [s EXCEPT !.streak = x] \in Sound(c)
         /\ [s EXCEPT !.ready = q] \in Sound(c)
         /\ [s EXCEPT !.swapTo = d] \in Sound(c)
<1> DEFINE x1 == [s EXCEPT !.connect = at]
           x2 == [s EXCEPT !.cleanup = n]
           x3 == [s EXCEPT !.pending = n]
           x4 == [s EXCEPT !.releasing = n]
           x5 == [s EXCEPT !.streak = x]
           x6 == [s EXCEPT !.ready = q]
           x7 == [s EXCEPT !.swapTo = d]
           Same(t) == /\ t.phase = s.phase /\ t.gen = s.gen /\ t.catalog = s.catalog
                      /\ t.disconnect = s.disconnect
<1>0. s \in Entry
  BY SoundIs
<1>1. x1 \in Entry /\ Same(x1)
  BY <1>0, ZenonT(60) DEF Entry
<1>2. x2 \in Entry /\ Same(x2)
  BY <1>0, ZenonT(60) DEF Entry
<1>3. x3 \in Entry /\ Same(x3)
  BY <1>0, ZenonT(60) DEF Entry
<1>4. x4 \in Entry /\ Same(x4)
  BY <1>0, ZenonT(60) DEF Entry
<1>5. x5 \in Entry /\ Same(x5)
  BY <1>0, ZenonT(60) DEF Entry
<1>6. x6 \in Entry /\ Same(x6)
  BY <1>0, ZenonT(60) DEF Entry
<1>7. x7 \in Entry /\ Same(x7)
  BY <1>0, ZenonT(60) DEF Entry
<1>. HIDE DEF x1, x2, x3, x4, x5, x6, x7
<1>8. /\ x1 \in Sound(c) /\ x2 \in Sound(c) /\ x3 \in Sound(c) /\ x4 \in Sound(c)
      /\ x5 \in Sound(c) /\ x6 \in Sound(c) /\ x7 \in Sound(c)
  BY <1>1, <1>2, <1>3, <1>4, <1>5, <1>6, <1>7, KeepsSound
<1>. QED BY <1>8 DEF x1, x2, x3, x4, x5, x6, x7

(* The next continuation is taken off the queue.                           *)
LEMMA RestLegal ==
  ASSUME entry \in Legal, NEW e \in Entries, entry[e].ready # <<>>
  PROVE  Rest(e) \in Legal
<1>1. entry[e] \in Sound(~Busy(e)) /\ entry[e] \in Entry
  BY LegalAt
<1>2. entry[e].ready \in Seq(Continuations)
  BY <1>1 DEF Entry
<1>3. Tail(entry[e].ready) \in Seq(Continuations)
  BY <1>2, HeadTailProperties
<1>4. /\ 0 \in Nat /\ "none" \in ConnectAt /\ "none" \in Streaks
      /\ entry[e].def \in Defs
  BY <1>1 DEF ConnectAt, Streaks, Entry
<1>5. [entry[e] EXCEPT !.ready = Tail(entry[e].ready)] \in Sound(~Busy(e))
  BY <1>1, <1>3, <1>4, Recording
<1>. QED BY <1>5, LegalExcept DEF Rest

(* A new entry is sound.                                                   *)
LEMMA FreshSound ==
  ASSUME NEW c, NEW id \in Ids \cup {None}, NEW d \in Defs
  PROVE  Fresh(id, d) \in Sound(c)
<1>1. /\ "offline" \in Phases /\ "none" \in ConnectAt /\ "none" \in DisconnectAt
      /\ "none" \in SwapAt /\ "none" \in Streaks /\ 0 \in 0..MaxTries
  BY ConstantsAssumption DEF Phases, ConnectAt, DisconnectAt, SwapAt, Streaks
<1>2. <<>> \in Seq(Continuations)
  OBVIOUS
<1>3. Fresh(id, d) \in Entry
  BY <1>1, <1>2, SMT DEF Fresh, Entry
<1>4. Fresh(id, d).catalog = 0 /\ Fresh(id, d).disconnect = "none"
  BY DEF Fresh
<1>. QED BY <1>3, <1>4 DEF Sound, CatalogOK

(* The invariant holds initially.                                          *)
LEMMA InitInv == Init => IInv
<1> SUFFICES ASSUME Init PROVE IInv
  OBVIOUS
<1>1. (CHOOSE d \in Defs : TRUE) \in Defs
  BY ConstantsAssumption
<1> DEFINE fresh == Fresh(None, CHOOSE d \in Defs : TRUE)
<1>2. entry = [e \in Entries |-> fresh]
  BY DEF Init
<1>3. \A e \in Entries : fresh \in Sound(~Busy(e))
  BY <1>1, FreshSound
<1>. HIDE DEF fresh
<1>4. entry \in Legal
  BY <1>2, <1>3 DEF Legal, Sound
<1>5. IdleOp \in Operation
  BY DEF IdleOp, Operation
<1>7. TypeOK
  BY <1>4, <1>5 DEF TypeOK, Init, Legal
<1>. QED BY <1>4, <1>7 DEF IInv

----------------------------------------------------------------------------
(* The steps that concern the entries only.                                *)

(* register() preserves the invariant.                                     *)
LEMMA RegisterPreserves ==
  ASSUME IInv, NEW id \in Ids, NEW d \in Defs, Register(id, d)
  PROVE  IInv'
<1>1. PICK e \in Entries : /\ registry' = [registry EXCEPT ![id] = e]
                           /\ entry' = [entry EXCEPT ![e] = Fresh(id, d)]
  BY DEF Register
<1>2. Fresh(id, d) \in Sound(~Busy(e))
  BY FreshSound
<1>3. [entry EXCEPT ![e] = Fresh(id, d)] \in Legal
  BY <1>2, LegalExcept DEF IInv
<1>4. \A f \in Entries : Busy(f)' => Busy(f)
  BY DEF Register, Busy
<1>5. (entry \in Legal)'
  BY <1>1, <1>3, <1>4, LegalStep
<1>6. TypeOK'
  BY <1>1, <1>3 DEF Register, IInv, TypeOK, Legal
<1>. QED BY <1>5, <1>6 DEF IInv

(* The steps of a connect task preserve the invariant.                     *)
LEMMA ConnectingPreserves ==
  ASSUME IInv, NEW e \in Entries, Connecting(e)
  PROVE  IInv'
<1> DEFINE s == entry[e]
<1>1. /\ s \in Sound(~Busy(e)) /\ entry \in Legal
      /\ s.attempt \in Nat /\ s.def \in Defs /\ s.ready \in Seq(Continuations)
      /\ attempts \in Nat /\ attempts + 1 \in Nat /\ seq \in Nat /\ seq + 1 \in Nat
      /\ live \subseteq Nat /\ gone \subseteq Nat
  BY LegalAt DEF IInv, Entry, TypeOK
<1>2. /\ {"cleanup", "listen"} \subseteq ConnectAt /\ "none" \in Streaks
      /\ {"failed", "quarantined", "authorizing"} \subseteq Phases
      /\ TRUE \in BOOLEAN /\ FALSE \in BOOLEAN
  BY DEF ConnectAt, Streaks, Phases
<1>3. CASE ConnectDrained(e)
  <2>1. Attempting(s, attempts + 1) \in Sound(~Busy(e))
    BY <1>1, AttemptingSound
  <2>. QED BY <1>1, <1>3, <2>1, LegalExcept, UpdatePreserves DEF ConnectDrained
<1>4. ASSUME NEW t \in Sound(~Busy(e)), NEW p \in Phases
      PROVE  [entry EXCEPT ![e] = ConnectSettled(Transition(t, p), FALSE)] \in Legal
  BY <1>1, <1>2, <1>4, TransitionSound, ConnectSettledSound, LegalExcept
<1>5. CASE OpenFails(e)
  BY <1>1, <1>2, <1>4, <1>5, UpdatePreserves DEF OpenFails
<1>6. CASE ConnectRejected(e)
  <2>1. [s EXCEPT !.connect = "cleanup"] \in Sound(~Busy(e))
    BY <1>1, <1>2, Recording
  <2>2. [entry EXCEPT ![e].connect = "cleanup"] \in Legal
    BY <1>1, <2>1, LegalExcept
  <2>. QED BY <1>6, <2>2, UpdatePreserves DEF ConnectRejected
<1>7. CASE ConnectCleaned(e)
  BY <1>1, <1>2, <1>4, <1>7, UpdatePreserves DEF ConnectCleaned
<1>8. CASE ConnectCleanupFails(e)
  <2>1. [s EXCEPT !.cleanup = s.attempt] \in Sound(~Busy(e))
    BY <1>1, <1>2, Recording
  <2>. QED BY <1>2, <1>4, <1>8, <2>1, UpdatePreserves DEF ConnectCleanupFails
<1>9. CASE ConnectUnauthorized(e)
  <2>1. [s EXCEPT !.pending = s.attempt] \in Sound(~Busy(e))
    BY <1>1, <1>2, Recording
  <2>. QED BY <1>2, <1>4, <1>9, <2>1, UpdatePreserves DEF ConnectUnauthorized
<1>10. CASE ConnectSucceeds(e)
  <2> DEFINE a == Adopted(s, seq + 1)
             x == [a EXCEPT !.connect = "listen"]
             repairs == s.verdict /\ s.attemptDef \in RepairsListen
             E == [entry EXCEPT ![e] = IF repairs THEN x ELSE Online(a)]
  <2>1. a \in Sound(~Busy(e))
    BY <1>1, AdoptedSound
  <2>2. Online(a) \in Sound(~Busy(e))
    BY <2>1, OnlineSound
  <2>. HIDE DEF a
  <2>3. x \in Sound(~Busy(e))
    BY <1>1, <1>2, <2>1, Recording
  <2>4. (IF repairs THEN x ELSE Online(a)) \in Sound(~Busy(e))
    BY <2>2, <2>3
  <2>5. E \in Legal
    BY <1>1, <2>4, LegalExcept
  <2>6. /\ Install(E, {}) /\ seq' = seq + 1
        /\ UNCHANGED <<registry, op, auth, closed, gone>>
    BY <1>10, Zenon DEF ConnectSucceeds, a
  <2>. HIDE DEF E
  <2>7. entry' = E /\ E \in [Entries -> Entry] /\ attempts' \in Nat /\ live' \subseteq Nat
    BY <1>1, <2>5, <2>6, InstallTyped
  <2>8. TypeOK'
    BY <1>1, <2>6, <2>7 DEF IInv, TypeOK
  <2>9. \A f \in Entries : Busy(f)' => Busy(f)
    BY <2>6 DEF Busy
  <2>. QED BY <2>5, <2>7, <2>8, <2>9, LegalStep DEF IInv
<1>11. CASE ListenRepaired(e)
  BY <1>1, <1>11, OnlineSound, LegalExcept, UpdatePreserves DEF ListenRepaired
<1>. QED BY <1>3, <1>5, <1>6, <1>7, <1>8, <1>9, <1>10, <1>11 DEF Connecting

(* The steps of a disconnect task preserve the invariant; the close begins *)
(* only when the entry is not busy.                                        *)
LEMMA ClosingPreserves ==
  ASSUME IInv, NEW e \in Entries, Closing(e)
  PROVE  IInv'
<1> DEFINE s == entry[e]
<1>1. /\ s \in Sound(~Busy(e)) /\ entry \in Legal /\ s \in Entry
      /\ s.def \in Defs /\ s.ready \in Seq(Continuations)
  BY LegalAt DEF IInv, Entry
<1>2. /\ 0 \in Nat /\ "none" \in ConnectAt /\ "none" \in Streaks
      /\ "quarantined" \in Phases /\ TRUE \in BOOLEAN /\ FALSE \in BOOLEAN
  BY DEF ConnectAt, Streaks, Phases
<1>3. CASE ReleaseDone(e)
  <2>1. [s EXCEPT !.releasing = 0] \in Sound(~Busy(e))
    BY <1>1, <1>2, Recording
  <2>. QED BY <1>1, <1>3, <2>1, WentOfflineSound, LegalExcept, UpdatePreserves DEF ReleaseDone
<1>4. CASE QuarantineCleaned(e)
  <2>1. [s EXCEPT !.cleanup = 0] \in Sound(~Busy(e))
    BY <1>1, <1>2, Recording
  <2>. QED BY <1>1, <1>4, <2>1, WentOfflineSound, LegalExcept, UpdatePreserves
       DEF QuarantineCleaned
<1>5. CASE CloseFails(e)
  BY <1>1, <1>2, <1>5, TransitionSound, DisconnectSettledSound, LegalExcept, UpdatePreserves
     DEF CloseFails
<1>6. CASE Drained(e)
  <2> DEFINE t == [s EXCEPT !.disconnect = "close"]
  <2>1. ~Busy(e)
    BY <1>6 DEF Drained, DrainedOf
  <2>2. t \in Entry
    <3>1. "close" \in DisconnectAt
      BY DEF DisconnectAt
    <3>. QED BY <1>1, <3>1, ZenonT(60) DEF Entry
  <2>3. t.phase = s.phase /\ t.gen = s.gen /\ t.catalog = s.catalog
    BY <1>1, ZenonT(60) DEF Entry
  <2>. HIDE DEF t
  <2>4. t \in Sound(~Busy(e))
    BY <1>1, <2>1, <2>2, <2>3 DEF Sound, CatalogOK, Usable
  <2>. QED BY <1>1, <1>6, <2>4, LegalExcept, UpdatePreserves DEF Drained, t
<1>7. CASE DrainedDead(e)
  BY <1>1, <1>7, WentOfflineSound, LegalExcept, UpdatePreserves DEF DrainedDead
<1>8. CASE CloseDone(e)
  BY <1>1, <1>8, NoSessionSound, WentOfflineSound, LegalExcept, UpdatePreserves DEF CloseDone
<1>. QED BY <1>3, <1>4, <1>5, <1>6, <1>7, <1>8 DEF Closing

(* The continuations of settled tasks preserve the invariant.              *)
LEMMA ContinuePreserves ==
  ASSUME IInv, NEW e \in Entries, Continue(e)
  PROVE  IInv'
<1>1. /\ entry \in Legal /\ entry[e].ready # <<>> /\ attempts \in Nat /\ live \subseteq Nat
      /\ registry \in [Ids -> Entries \cup {None}] /\ gone \subseteq Nat
  BY DEF IInv, TypeOK, Continue, RetryAfterFailure, DisconnectAfterConnect, SwapContinues,
         RemoveAfterDisconnect, QueuedConnect, Awaken
<1>2. Rest(e) \in Legal
  BY <1>1, RestLegal
<1>3. Rest(e)[e] \in Sound(~Busy(e))
  BY <1>2, LegalAt
<1>4. CASE RetryAfterFailure(e)
  BY <1>2, <1>3, <1>4, RescheduledSound, LegalExcept, UpdatePreserves DEF RetryAfterFailure
<1>5. CASE DisconnectAfterConnect(e)
  BY <1>2, <1>3, <1>5, DrainingSound, LegalExcept, UpdatePreserves DEF DisconnectAfterConnect
<1>6. CASE SwapContinues(e)
  <2>1. SwapProceeds(e, Rest(e)) \in Legal /\ SwapFinishes(e, Rest(e)) \in Legal
    BY <1>1, <1>2, SwapProceedsLegal, SwapFinishesLegal
  <2>2. (IF entry[e].swap = "connect" THEN SwapProceeds(e, Rest(e))
           ELSE SwapFinishes(e, Rest(e))) \in Legal
    BY <2>1
  <2>. QED BY <1>6, <2>2, UpdatePreserves DEF SwapContinues
<1>7. CASE RemoveAfterDisconnect(e)
  <2> DEFINE E == [Rest(e) EXCEPT ![e].removing = FALSE]
  <2>1. "none" \in SwapAt
    BY DEF SwapAt
  <2>2. [Rest(e)[e] EXCEPT !.removing = FALSE] \in Sound(~Busy(e))
    BY <1>3, <2>1, Marking
  <2>3. E = [Rest(e) EXCEPT ![e] = [Rest(e)[e] EXCEPT !.removing = FALSE]]
    OBVIOUS
  <2>4. E \in Legal
    BY <1>2, <2>2, <2>3, LegalExcept
  <2>. HIDE DEF E
  <2>5. /\ Install(E, {}) /\ UNCHANGED <<op, auth, closed, seq, gone>>
        /\ registry' \in [Ids -> Entries \cup {None}]
    BY <1>1, <1>7 DEF RemoveAfterDisconnect, E
  <2>6. entry' = E /\ E \in [Entries -> Entry] /\ attempts' \in Nat /\ live' \subseteq Nat
    BY <1>1, <2>4, <2>5, InstallTyped
  <2>7. TypeOK'
    BY <1>1, <2>5, <2>6 DEF IInv, TypeOK
  <2>8. \A f \in Entries : Busy(f)' => Busy(f)
    BY <2>5 DEF Busy
  <2>. QED BY <2>4, <2>6, <2>7, <2>8, LegalStep DEF IInv
<1>8. CASE QueuedConnect(e)
  <2> DEFINE C == ConnectById(entry[e].owner, Rest(e))
  <2>1. C \in Legal
    BY <1>1, <1>2, ConnectByIdLegal
  <2>2. Update([C EXCEPT ![e] = ReconnectSettles(C[e])], {})
    BY <1>8, Zenon DEF QueuedConnect
  <2>. HIDE DEF C
  <2>3. [C EXCEPT ![e] = ReconnectSettles(C[e])] \in Legal
    BY <2>1, LegalAt, ReconnectSettlesSound, LegalExcept
  <2>. QED BY <2>2, <2>3, UpdatePreserves
<1>. QED BY <1>4, <1>5, <1>6, <1>7, <1>8 DEF Continue

(* connect(), disconnect(), remove() and replace() preserve the invariant. *)
LEMMA CallPreserves ==
  ASSUME IInv, NEW id \in Ids,
         \/ Connect(id) \/ Disconnect(id) \/ Remove(id)
         \/ \E d \in Defs, cancel \in BOOLEAN : Replace(id, d, cancel)
  PROVE  IInv'
<1> DEFINE e == registry[id]
<1>1. /\ entry \in Legal /\ attempts \in Nat /\ e \in Entries
      /\ registry \in [Ids -> Entries \cup {None}]
  BY DEF IInv, TypeOK, Connect, Disconnect, Remove, Replace
<1>2. entry[e] \in Sound(~Busy(e)) /\ entry[e] \in Entry
  BY <1>1, LegalAt
<1>3. CASE Connect(id)
  BY <1>1, <1>3, ConnectByIdLegal, UpdatePreserves DEF Connect
<1>4. Disconnecting(entry[e], Busy(e)) \in Sound(~Busy(e))
  BY <1>2, DisconnectingSound
<1>5. CASE Disconnect(id)
  BY <1>1, <1>4, <1>5, LegalExcept, UpdatePreserves DEF Disconnect, DisconnectById
<1>6. CASE Remove(id)
  <2> DEFINE s == Disconnecting(entry[e], Busy(e))
             r == [s EXCEPT !.removing = TRUE]
             x == [r EXCEPT !.ready = Append(r.ready, "remove")]
             y == [r EXCEPT !.onDisconnect = Append(r.onDisconnect, "remove")]
             E == [entry EXCEPT ![e] = IF s.disconnect = "none" THEN x ELSE y]
  <2>1. "none" \in SwapAt /\ "remove" \in Continuations
    BY DEF SwapAt, Continuations
  <2>2. r \in Sound(~Busy(e))
    <3>. HIDE DEF s
    <3>. QED BY <1>4, <2>1, Marking DEF s
  <2>. HIDE DEF r
  <2>3. x \in Sound(~Busy(e)) /\ y \in Sound(~Busy(e))
    BY <2>1, <2>2, Registering
  <2>4. Update(E, {})
    BY <1>6, Zenon DEF Remove, r
  <2>. HIDE DEF s, x, y
  <2>5. (IF s.disconnect = "none" THEN x ELSE y) \in Sound(~Busy(e))
    BY <2>3
  <2>6. E \in Legal
    BY <1>1, <2>5, LegalExcept
  <2>. QED BY <2>4, <2>6, UpdatePreserves
<1>7. CASE \E d \in Defs, cancel \in BOOLEAN : Replace(id, d, cancel)
  <2>1. PICK d \in Defs, cancel \in BOOLEAN : Replace(id, d, cancel)
    BY <1>7
  <2> DEFINE s == [entry[e] EXCEPT !.swapTo = d]
             E == [entry EXCEPT ![e] = s]
             t == [s EXCEPT !.swap = "connect"]
             u == [t EXCEPT !.onConnect = Append(t.onConnect, "swap")]
             F == [E EXCEPT ![e] = u]
  <2>2. /\ 0 \in Nat /\ "none" \in ConnectAt /\ "none" \in Streaks
        /\ entry[e].ready \in Seq(Continuations) /\ "connect" \in SwapAt
        /\ "swap" \in Continuations
    BY <1>2 DEF ConnectAt, Streaks, SwapAt, Continuations, Entry
  <2>3. s \in Sound(~Busy(e))
    BY <1>2, <2>2, Recording
  <2>4. Update(IF s.connect = "none" THEN SwapProceeds(e, E)
               ELSE [E EXCEPT ![e].swap = "connect",
                              ![e].onConnect = Append(@, "swap")], {})
    BY <2>1, Zenon DEF Replace
  <2>. HIDE DEF s
  <2>5. E \in Legal
    BY <1>1, <2>3, LegalExcept
  <2>6. SwapProceeds(e, E) \in Legal
    <3>. HIDE DEF E
    <3>. QED BY <1>1, <2>5, SwapProceedsLegal
  <2>7. t \in Sound(~Busy(e))
    BY <2>2, <2>3, Marking
  <2>8. u \in Sound(~Busy(e))
    <3>. HIDE DEF t
    <3>. QED BY <2>2, <2>7, Registering
  <2>9. F \in Legal
    <3>. HIDE DEF u, E
    <3>. QED BY <1>1, <2>5, <2>8, LegalExcept
  <2>10. [E EXCEPT ![e].swap = "connect", ![e].onConnect = Append(@, "swap")] = F
    BY <1>1, <1>2, <2>3 DEF Legal
  <2>11. (IF s.connect = "none" THEN SwapProceeds(e, E) ELSE F) \in Legal
    BY <2>6, <2>9
  <2>. QED BY <2>4, <2>10, <2>11, UpdatePreserves
<1>. QED BY <1>3, <1>5, <1>6, <1>7

(* The reconnect timer, a lost session and the passing of time preserve    *)
(* the invariant.                                                          *)
LEMMA EventPreserves ==
  ASSUME IInv, NEW e \in Entries, ReconnectFires(e) \/ SessionLost(e) \/ TimePasses(e)
  PROVE  IInv'
<1> DEFINE s == entry[e]
<1>1. /\ s \in Sound(~Busy(e)) /\ entry \in Legal /\ attempts \in Nat
      /\ s.def \in Defs /\ s.ready \in Seq(Continuations)
      /\ registry \in [Ids -> Entries \cup {None}]
  BY LegalAt DEF IInv, TypeOK, Entry
<1>2. /\ 0 \in Nat /\ "none" \in ConnectAt /\ "none" \in SwapAt
      /\ "elapsed" \in Streaks
  BY DEF ConnectAt, SwapAt, Streaks
<1>3. CASE ReconnectFires(e)
  <2> DEFINE E == [entry EXCEPT ![e].timer = FALSE]
             C == ConnectById(E[e].owner, E)
             F == [C EXCEPT ![e] = WithRetry(C[e])]
  <2>1. [s EXCEPT !.timer = FALSE] \in Sound(~Busy(e))
    BY <1>1, <1>2, Marking
  <2>2. E \in Legal
    BY <1>1, <2>1, LegalExcept
  <2>3. Update(IF TimerConnects(E[e]) THEN F ELSE E, {})
    BY <1>3, Zenon DEF ReconnectFires
  <2>. HIDE DEF E
  <2>4. C \in Legal
    BY <1>1, <2>2, ConnectByIdLegal
  <2>. HIDE DEF C
  <2>5. C[e] \in Sound(~Busy(e)) /\ (C[e].connect # "none") \in BOOLEAN
    BY <2>4, LegalAt
  <2>6. WithRetry(C[e]) \in Sound(~Busy(e))
    BY <1>2, <2>5, Marking DEF WithRetry
  <2>7. F \in Legal
    BY <2>4, <2>6, LegalExcept
  <2>8. (IF TimerConnects(E[e]) THEN F ELSE E) \in Legal
    BY <2>2, <2>7
  <2>. QED BY <2>3, <2>8, UpdatePreserves
<1>4. CASE SessionLost(e)
  BY <1>1, <1>4, LostSound, LegalExcept, UpdatePreserves DEF SessionLost
<1>5. CASE TimePasses(e)
  <2>1. Update([entry EXCEPT ![e].streak = "elapsed"], {})
    BY <1>5, Zenon DEF TimePasses
  <2>2. [s EXCEPT !.streak = "elapsed"] \in Sound(~Busy(e))
    BY <1>1, <1>2, Recording
  <2>3. [entry EXCEPT ![e].streak = "elapsed"] \in Legal
    BY <1>1, <2>2, LegalExcept
  <2>. QED BY <2>1, <2>3, UpdatePreserves
<1>. QED BY <1>3, <1>4, <1>5

----------------------------------------------------------------------------
(* The steps of the operations and of the authorization rounds.            *)

(* withClient admits an operation only on an entry that is not being       *)
(* closed.                                                                 *)
LEMMA OpStartPreserves ==
  ASSUME IInv, NEW o \in Ops, NEW id \in Ids, NEW kind \in {"call", "refresh"},
         OpStart(o, id, kind)
  PROVE  IInv'
<1> DEFINE e == registry[id]
<1>1. /\ e \in Entries /\ entry \in Legal /\ entry[e].disconnect = "none"
      /\ UNCHANGED <<registry, entry, auth, closed, seq, attempts, live, gone>>
      /\ op' = [op EXCEPT ![o] = [entry |-> e, session |-> entry[e].session,
                                  gen |-> entry[e].gen, kind |-> kind, current |-> TRUE]]
  BY DEF IInv, TypeOK, OpStart, Admits
<1>2. entry[e].session \in Nat /\ entry[e].gen \in Nat
  BY <1>1, LegalAt DEF Entry
<1>3. TypeOK'
  BY <1>1, <1>2 DEF IInv, TypeOK, Operation
<1>4. \A f \in Entries : f # e => (Busy(f)' => Busy(f))
  BY <1>1 DEF Busy, IInv, TypeOK
<1>5. \A f \in Entries : entry[f] \in Sound(~Busy(f)')
  BY <1>1, <1>4, LegalAt DEF Sound
<1>6. (entry \in Legal)'
  BY <1>1, <1>5 DEF Legal, Sound, CatalogOK, Usable
<1>. QED BY <1>3, <1>6 DEF IInv

(* An operation that ends, and a refresh that outdates others, make no     *)
(* entry busy.                                                             *)
LEMMA EndsOperation ==
  ASSUME IInv, NEW o \in Ops, op' = [op EXCEPT ![o] = IdleOp] \/ op' = Committed(o)
  PROVE  /\ op' \in [Ops -> Operation]
         /\ \A e \in Entries : Busy(e)' => Busy(e)
<1>1. IdleOp \in Operation /\ IdleOp.entry = None
  BY DEF IdleOp, Operation
<1>2. \A q \in Ops : op[q] \in Operation
  BY DEF IInv, TypeOK
<1>3. \A q \in Ops : /\ [op[q] EXCEPT !.current = FALSE] \in Operation
                     /\ [op[q] EXCEPT !.current = FALSE].entry = op[q].entry
  BY <1>2 DEF Operation
<1>4. op' \in [Ops -> Operation]
  BY <1>1, <1>2, <1>3 DEF Committed, IInv, TypeOK
<1>5. \A q \in Ops : op'[q].entry = op[q].entry \/ op'[q].entry = None
  BY <1>1, <1>3 DEF Committed, IInv, TypeOK
<1>. QED BY <1>4, <1>5, ConstantsAssumption DEF Busy

(* The ends of an operation preserve the invariant; a refresh commits only *)
(* a catalog of the generation that is up.                                 *)
LEMMA OpEndsPreserves ==
  ASSUME IInv, NEW o \in Ops, OpEnds(o)
  PROVE  IInv'
<1> DEFINE e == op[o].entry
           s == entry[e]
           c == op[o].session
<1>1. /\ e \in Entries /\ c \in Nat /\ op[o].gen \in Nat
      /\ entry \in Legal /\ attempts \in Nat /\ live \subseteq Nat /\ gone \subseteq Nat
  BY DEF IInv, TypeOK, Operation, OpEnds, OpReturns, OpRefreshCommits, OpRefreshFails,
         OpExpires, RefreshExpires, Running
<1>2. s \in Sound(~Busy(e)) /\ s \in Entry
  BY <1>1, LegalAt
<1>3. /\ op' \in [Ops -> Operation] /\ \A f \in Entries : Busy(f)' => Busy(f)
      /\ UNCHANGED <<registry, auth, closed, seq>>
  <2>1. op' = [op EXCEPT ![o] = IdleOp] \/ op' = Committed(o)
    BY DEF OpEnds, OpReturns, OpRefreshCommits, OpRefreshFails, OpExpires, RefreshExpires,
           Commit
  <2>2. UNCHANGED <<registry, auth, closed, seq>>
    BY DEF OpEnds, OpReturns, OpRefreshCommits, OpRefreshFails, OpExpires, RefreshExpires
  <2>. QED BY <2>1, <2>2, EndsOperation
<1>4. ASSUME NEW E \in Legal, NEW dead, Install(E, dead), gone' \subseteq Nat
      PROVE  IInv'
  <2>1. entry' = E /\ E \in [Entries -> Entry] /\ attempts' \in Nat /\ live' \subseteq Nat
    BY <1>1, <1>4, InstallTyped
  <2>2. TypeOK'
    BY <1>3, <1>4, <2>1 DEF IInv, TypeOK
  <2>. QED BY <1>3, <2>1, <2>2, LegalStep DEF IInv
<1>5. CASE OpReturns(o)
  <2>1. TypeOK'
    BY <1>3, <1>5 DEF IInv, TypeOK, OpReturns
  <2>2. entry' = entry
    BY <1>5 DEF OpReturns
  <2>. QED BY <1>1, <1>3, <2>1, <2>2, LegalStep DEF IInv
<1>6. ASSUME Authority(o), NEW p \in {"online", "degraded"}, Commit(o, p), gone' \subseteq Nat
      PROVE  IInv'
  <2> DEFINE t == [s EXCEPT !.catalog = op[o].gen]
  <2>1. s.gen = op[o].gen /\ Usable(s)
    BY <1>6, Zenon DEF Authority
  <2>2. t \in Entry
    BY <1>1, <1>2, ZenonT(60) DEF Entry
  <2>3. /\ t.phase = s.phase /\ t.gen = s.gen /\ t.catalog = op[o].gen
        /\ t.disconnect = s.disconnect
    BY <1>2, ZenonT(60) DEF Entry
  <2>. HIDE DEF t
  <2>4. t \in Sound(~Busy(e))
    BY <1>2, <2>1, <2>2, <2>3 DEF Sound, CatalogOK, Usable
  <2>5. p \in Phases
    BY DEF Phases
  <2>6. [entry EXCEPT ![e] = Transition(t, p)] \in Legal
    BY <1>1, <2>4, <2>5, TransitionSound, LegalExcept
  <2>7. Install([entry EXCEPT ![e] = Transition(t, p)], {})
    BY <1>6, Zenon DEF Commit, t
  <2>. QED BY <1>4, <1>6, <2>6, <2>7
<1>7. CASE OpRefreshCommits(o)
  <2>1. gone' \subseteq Nat
    BY <1>1, <1>7 DEF OpRefreshCommits
  <2>. QED BY <1>6, <1>7, <2>1 DEF OpRefreshCommits
<1>8. CASE OpRefreshFails(o)
  <2>1. "degraded" \in Phases
    BY DEF Phases
  <2>2. [entry EXCEPT ![e] = Transition(s, "degraded")] \in Legal
    BY <1>1, <1>2, <2>1, TransitionSound, LegalExcept
  <2>. QED BY <1>1, <1>4, <1>8, <2>2 DEF OpRefreshFails
<1>9. CASE OpExpires(o)
  <2> DEFINE E == [entry EXCEPT ![e] = Lost(s, c)]
             dead == IF Lost(s, c) = s THEN {} ELSE {c}
  <2>1. E \in Legal
    BY <1>1, <1>2, LostSound, LegalExcept
  <2>2. Install(E, dead) /\ gone' = (gone \cup {c}) \cap (live \ dead)
    BY <1>9, Zenon DEF OpExpires
  <2>. HIDE DEF E, dead
  <2>3. gone' \subseteq Nat
    BY <1>1, <2>2
  <2>. QED BY <1>4, <2>1, <2>2, <2>3
<1>10. CASE RefreshExpires(o)
  <2>1. gone' \subseteq Nat
    BY <1>1, <1>10 DEF RefreshExpires
  <2>. QED BY <1>6, <1>10, <2>1 DEF RefreshExpires
<1>. QED BY <1>5, <1>7, <1>8, <1>9, <1>10 DEF OpEnds

(* The call of completeAuthorization preserves the invariant.              *)
LEMMA CompleteAuthPreserves ==
  ASSUME IInv, NEW k \in Callers, NEW id \in Ids, CompleteAuth(k, id)
  PROVE  IInv'
<1> DEFINE e == registry[id]
           s == entry[e]
           round == [entry |-> e, at |-> "verify", closing |-> 0]
           E == [entry EXCEPT ![e].pending = 0]
<1>1. /\ e \in Entries /\ entry \in Legal /\ attempts \in Nat /\ live \subseteq Nat
      /\ UNCHANGED <<registry, op, closed, seq, gone>>
  BY DEF IInv, TypeOK, CompleteAuth
<1>2. /\ s \in Sound(~Busy(e)) /\ s.pending \in Nat
      /\ s.def \in Defs /\ s.ready \in Seq(Continuations)
  BY <1>1, LegalAt DEF Entry
<1>3. /\ 0 \in Nat /\ "none" \in ConnectAt /\ "none" \in Streaks
  BY DEF ConnectAt, Streaks
<1>4. \A f \in Entries : Busy(f)' => Busy(f)
  BY <1>1 DEF Busy
<1>5. CASE /\ auth' = [auth EXCEPT ![k] = round]
           /\ UNCHANGED <<entry, attempts, live>>
  <2>1. round \in Round
    BY <1>1, <1>2 DEF Round, AuthAt
  <2>2. TypeOK'
    BY <1>1, <1>5, <2>1 DEF IInv, TypeOK
  <2>. QED BY <1>1, <1>4, <1>5, <2>2, LegalStep DEF IInv
<1>6. CASE Releasing(k, [round EXCEPT !.at = "failed"])
  <2> DEFINE r == [round EXCEPT !.at = "failed"]
  <2>0. /\ r.entry = e
        /\ [r EXCEPT !.closing = s.pending] =
             [entry |-> e, at |-> "failed", closing |-> s.pending]
    <3>1. r = [entry |-> e, at |-> "failed", closing |-> 0]
      <4>. HIDE DEF s
      <4>. QED OBVIOUS
    <3>. HIDE DEF r
    <3>. QED BY <3>1
  <2>1. /\ auth' = [auth EXCEPT ![k] = [entry |-> e, at |-> "failed",
                                         closing |-> s.pending]]
        /\ Install(E, {})
    <3>. HIDE DEF r
    <3>. QED BY <1>6, <2>0 DEF Releasing, r
  <2>2. [s EXCEPT !.pending = 0] \in Sound(~Busy(e))
    BY <1>2, <1>3, Recording
  <2>3. E \in Legal
    BY <1>1, <2>2, LegalExcept
  <2>. HIDE DEF E
  <2>4. entry' = E /\ E \in [Entries -> Entry] /\ attempts' \in Nat /\ live' \subseteq Nat
    BY <1>1, <2>1, <2>3, InstallTyped
  <2>5. [entry |-> e, at |-> "failed", closing |-> s.pending] \in Round
    BY <1>1, <1>2 DEF Round, AuthAt
  <2>6. TypeOK'
    BY <1>1, <2>1, <2>4, <2>5 DEF IInv, TypeOK
  <2>. QED BY <1>4, <2>3, <2>4, <2>6, LegalStep DEF IInv
<1>. QED BY <1>5, <1>6, Zenon DEF CompleteAuth

(* The further steps of completeAuthorization preserve the invariant.      *)
LEMMA AuthAdvancesPreserves ==
  ASSUME IInv, NEW k \in Callers, AuthAdvances(k)
  PROVE  IInv'
<1> DEFINE e == auth[k].entry
           s == entry[e]
<1>1. /\ entry \in Legal /\ attempts \in Nat /\ live \subseteq Nat
      /\ registry \in [Ids -> Entries \cup {None}]
      /\ UNCHANGED <<registry, op, closed, seq, gone>>
  BY DEF IInv, TypeOK, AuthAdvances, AuthVerified, AuthExchanged, AuthSettles
<1>2. auth[k] \in Round /\ e \in Entries
  BY DEF IInv, TypeOK, AuthAdvances, AuthVerified, AuthExchanged, AuthSettles, IdleAuth, Round
<1>3. /\ s \in Sound(~Busy(e)) /\ s.pending \in Nat
      /\ s.def \in Defs /\ s.ready \in Seq(Continuations)
  BY <1>1, <1>2, LegalAt DEF Entry
<1>4. ASSUME NEW r \in Round \cup {IdleAuth}, auth' = [auth EXCEPT ![k] = r],
             NEW E \in Legal, NEW dead, Install(E, dead)
      PROVE  IInv'
  <2>1. entry' = E /\ E \in [Entries -> Entry] /\ attempts' \in Nat /\ live' \subseteq Nat
    BY <1>1, <1>4, InstallTyped
  <2>2. TypeOK'
    BY <1>1, <1>4, <2>1 DEF IInv, TypeOK
  <2>3. \A f \in Entries : Busy(f)' => Busy(f)
    BY <1>1 DEF Busy
  <2>. QED BY <1>4, <2>1, <2>2, <2>3, LegalStep DEF IInv
<1>5. CASE AuthVerified(k)
  <2>1. [auth[k] EXCEPT !.at = "exchange"] \in Round
    BY <1>2 DEF Round, AuthAt
  <2>2. /\ auth' \in [Callers -> Round \cup {IdleAuth}]
        /\ UNCHANGED <<entry, attempts, live>>
    BY <1>5, <2>1 DEF AuthVerified, IInv, TypeOK
  <2>3. TypeOK'
    BY <1>1, <2>2 DEF IInv, TypeOK
  <2>4. \A f \in Entries : Busy(f)' => Busy(f)
    BY <1>1 DEF Busy
  <2>. QED BY <1>1, <2>2, <2>3, <2>4, LegalStep DEF IInv
<1>6. CASE AuthExchanged(k)
  <2>1. PICK at \in {"completed", "failed"} : Releasing(k, [auth[k] EXCEPT !.at = at])
    BY <1>6 DEF AuthExchanged
  <2> DEFINE r == [[auth[k] EXCEPT !.at = at] EXCEPT !.closing = s.pending]
  <2>2. [auth[k] EXCEPT !.at = at].entry = e
    BY <1>2 DEF Round
  <2>3. auth' = [auth EXCEPT ![k] = r] /\ Install([entry EXCEPT ![e].pending = 0], {})
    BY <2>1, <2>2 DEF Releasing
  <2>4. r \in Round
    BY <1>2, <1>3 DEF Round, AuthAt
  <2>5. /\ 0 \in Nat /\ "none" \in ConnectAt /\ "none" \in Streaks
    BY DEF ConnectAt, Streaks
  <2>6. [s EXCEPT !.pending = 0] \in Sound(~Busy(e))
    BY <1>3, <2>5, Recording
  <2>7. [entry EXCEPT ![e].pending = 0] \in Legal
    BY <1>1, <1>2, <2>6, LegalExcept
  <2>. HIDE DEF r
  <2>. QED BY <1>4, <2>3, <2>4, <2>7
<1>7. CASE AuthSettles(k)
  <2> DEFINE t == AuthOutcome(s, auth[k].at)
             E == [entry EXCEPT ![e] = t]
             F == IF auth[k].at = "failed" THEN E ELSE ConnectById(E[e].owner, E)
  <2>1. {"failed", "offline"} \subseteq Phases
    BY DEF Phases
  <2>2. t \in Sound(~Busy(e))
    BY <1>3, <2>1, TransitionSound DEF AuthOutcome
  <2>3. Install(F, {auth[k].closing}) /\ auth' = [auth EXCEPT ![k] = IdleAuth]
    BY <1>7, Zenon DEF AuthSettles
  <2>. HIDE DEF t
  <2>4. E \in Legal
    BY <1>1, <1>2, <2>2, LegalExcept
  <2>. HIDE DEF E
  <2>5. F \in Legal
    BY <1>1, <2>4, ConnectByIdLegal
  <2>. HIDE DEF F
  <2>. QED BY <1>4, <2>3, <2>5
<1>. QED BY <1>5, <1>6, <1>7 DEF AuthAdvances

(* close() preserves the invariant.                                        *)
LEMMA ClosePreserves ==
  ASSUME IInv, Close
  PROVE  IInv'
<1> DEFINE D(e) == IF Registered(e) THEN Disconnecting(entry[e], Busy(e)) ELSE entry[e]
           E == [e \in Entries |-> D(e)]
<1>1. /\ entry \in Legal /\ attempts \in Nat /\ live \subseteq Nat
      /\ closed' \in BOOLEAN /\ UNCHANGED <<registry, op, auth, seq, gone>>
  BY DEF IInv, TypeOK, Close
<1>2. Install(E, {})
  BY Zenon DEF Close
<1>3. \A e \in Entries : D(e) \in Sound(~Busy(e))
  BY <1>1, LegalAt, DisconnectingSound
<1>. HIDE DEF D
<1>4. E \in Legal
  BY <1>3 DEF Legal, Sound
<1>. HIDE DEF E
<1>5. entry' = E /\ E \in [Entries -> Entry] /\ attempts' \in Nat /\ live' \subseteq Nat
  BY <1>1, <1>2, <1>4, InstallTyped
<1>6. TypeOK'
  BY <1>1, <1>5 DEF IInv, TypeOK
<1>7. \A f \in Entries : Busy(f)' => Busy(f)
  BY <1>1 DEF Busy
<1>. QED BY <1>4, <1>5, <1>6, <1>7, LegalStep DEF IInv

----------------------------------------------------------------------------
(* So does a step that changes nothing.                                    *)
LEMMA StutterPreserves == IInv /\ UNCHANGED vars => IInv'
<1> SUFFICES ASSUME IInv, UNCHANGED vars
             PROVE  IInv'
  OBVIOUS
<1>1. TypeOK'
  BY DEF IInv, TypeOK, vars
<1>2. \A f \in Entries : Busy(f)' => Busy(f)
  BY DEF vars, Busy
<1>3. entry \in Legal /\ entry' = entry
  BY DEF IInv, vars
<1>. QED BY <1>1, <1>2, <1>3, LegalStep DEF IInv

(* Every step preserves the invariant.                                     *)
LEMMA NextInv == IInv /\ [Next]_vars => IInv'
<1> SUFFICES ASSUME IInv, [Next]_vars
             PROVE  IInv'
  OBVIOUS
<1>1. ASSUME HostCall PROVE IInv'
  BY <1>1, RegisterPreserves, CallPreserves, OpStartPreserves, CompleteAuthPreserves,
     ClosePreserves DEF HostCall
<1>2. ASSUME NEW e \in Entries,
             \/ Continue(e) \/ Connecting(e) \/ Closing(e) \/ ReconnectFires(e)
             \/ SessionLost(e) \/ TimePasses(e)
      PROVE  IInv'
  BY <1>2, ContinuePreserves, ConnectingPreserves, ClosingPreserves, EventPreserves
<1>3. ASSUME NEW o \in Ops, OpEnds(o) PROVE IInv'
  BY <1>3, OpEndsPreserves
<1>4. ASSUME NEW k \in Callers, AuthAdvances(k) PROVE IInv'
  BY <1>4, AuthAdvancesPreserves
<1>. QED BY <1>1, <1>2, <1>3, <1>4, StutterPreserves DEF Next

(* The inductive invariant holds in every reachable state.                 *)
THEOREM InductiveInvariant == Spec => []IInv
BY InitInv, NextInv, PTL DEF Spec

(* Every reachable state has the declared types.                           *)
THEOREM TypeCorrect == Spec => []TypeOK
<1>1. IInv => TypeOK
  BY DEF IInv
<1>. QED BY <1>1, InductiveInvariant, PTL

(* A published catalog is never older or newer than the session it claims  *)
(* to describe: refreshCatalog, #transition and #performConnect together.  *)
THEOREM CatalogAlwaysBelongs == Spec => []CatalogBelongs
<1>1. IInv => CatalogBelongs
  BY DEF IInv, CatalogBelongs, Legal, Sound, CatalogOK
<1>. QED BY <1>1, InductiveInvariant, PTL

(* A deliberate close waits for every admitted operation: withClient and   *)
(* #performDisconnect together.                                            *)
THEOREM DrainAlwaysBeforeClose == Spec => []DrainBeforeClose
<1>1. IInv => DrainBeforeClose
  BY DEF IInv, DrainBeforeClose, Legal, Sound, Busy
<1>. QED BY <1>1, InductiveInvariant, PTL
=============================================================================
