----------------------- MODULE ConnectionClientProofs -----------------------
(* Which clients a connection holds, proved for every number of entries,   *)
(* operations, definitions, ids, attempts and of completions of            *)
(* authorizations.                                                         *)
(*                                                                         *)
(* A client has one place: the session of an entry, the client it has      *)
(* parked, keeps for a cleanup or releases, the one its attempt is opening,*)
(* or none of them (Accounted).  So what a handler closes it takes from one*)
(* place, and every client an entry relies on (Needs) is open still.       *)
(* ParkedCanComplete follows, whatever completions are under way, and, when*)
(* no connect repairs a listen stream (README, 11), UsableHoldsClient.     *)
(*                                                                         *)
(* The proof goes as in ConnectionOrderProofs, from records to handlers to *)
(* actions, but it needs nothing of the order proved there: with a         *)
(* completion that has outlived its connection that order does not hold,   *)
(* and this invariant does.                                                *)
EXTENDS ConnectionOrderProofs

(* The client of the attempt under way, until it is adopted or closed.     *)
Trial(s) == IF s.connect \in {"open", "cleanup"} THEN s.attempt ELSE 0

(* The clients in the places of an entry, pairwise different ones.         *)
Places(s) == {s.session, s.pending, s.cleanup, s.releasing, Trial(s)} \ {0}

Apart(a, b) == a # b \/ a = 0

Proper(s) ==
  /\ s.connect \in {"open", "cleanup"} => s.attempt # 0
  /\ Apart(s.session, s.pending) /\ Apart(s.session, s.cleanup)
  /\ Apart(s.session, s.releasing) /\ Apart(s.session, Trial(s))
  /\ Apart(s.pending, s.cleanup) /\ Apart(s.pending, s.releasing)
  /\ Apart(s.pending, Trial(s)) /\ Apart(s.cleanup, s.releasing)
  /\ Apart(s.cleanup, Trial(s)) /\ Apart(s.releasing, Trial(s))

(* The clients that must be open: the one parked, the one that is opening, *)
(* and the session of a usable connection, unless a connect may have       *)
(* waited for a repair of its listen stream.                               *)
Steady == RepairsListen = {}
Needs(s) ==
  ({s.pending, Trial(s)} \ {0}) \cup (IF Usable(s) /\ Steady THEN {s.session} ELSE {})

(* An authorization whose client is gone waits for its completion.         *)
Waits(s) == s.phase = "authorizing" /\ s.pending = 0

(* The invariant.                                                          *)
Owned(e) ==
  /\ Proper(entry[e]) /\ entry[e].attempt <= attempts
  /\ Places(entry[e]) \subseteq 1..attempts /\ Needs(entry[e]) \subseteq live
  /\ Steady => entry[e].connect # "listen"

Holdings ==
  /\ live \subseteq 1..attempts
  /\ \A e \in Entries : Owned(e)
  /\ \A e, f \in Entries : e # f => Places(entry[e]) \cap Places(entry[f]) = {}

Closings ==
  \A k \in Callers, e \in Entries :
    auth[k].closing \in 0..attempts /\ auth[k].closing \notin Places(entry[e])

Completes(k, e) == auth[k].entry = e /\ auth[k].at \in {"completed", "failed"}

Parking == \A e \in Entries : Waits(entry[e]) => \E k \in Callers : Completes(k, e)

Accounted == Holdings /\ Closings /\ Parking

----------------------------------------------------------------------------
(* What the record operators do to the places: they fill none that was     *)
(* empty but from another one (Keeps), or begin attempt n (Begins).        *)
Keeps(s, t) ==
  Proper(s) =>
    /\ Proper(t) /\ t.attempt \in {0, s.attempt}
    /\ Places(t) \subseteq Places(s) /\ Needs(t) \subseteq Needs(s)
    /\ Steady /\ t.connect = "listen" => s.connect = "listen"
    /\ Waits(t) => Waits(s)

Begins(s, t, n) ==
  Proper(s) /\ n \notin Places(s) =>
    /\ Proper(t) /\ t.attempt = n /\ t.connect = "open"
    /\ Places(t) \subseteq Places(s) \cup {n} /\ Needs(t) \subseteq Needs(s) \cup {n}
    /\ ~Waits(t)

(* Records that hold the same clients.                                     *)
Alike(s, t) ==
  /\ t.phase = s.phase /\ t.connect = s.connect /\ t.attempt = s.attempt
  /\ SameClients(s, t)

(* A step that does nothing keeps, two that keep do.                       *)
LEMMA KeepsSelf ==
  ASSUME NEW s PROVE Keeps(s, s)
BY DEF Keeps

LEMMA KeepsTrans ==
  ASSUME NEW s, NEW t, NEW u, Keeps(s, t), Keeps(t, u)
  PROVE  Keeps(s, u)
BY DEF Keeps

(* A record that is alike has the same clients and needs the same.         *)
LEMMA AlikeKeeps ==
  ASSUME NEW s, NEW t, Alike(s, t)
  PROVE  Keeps(s, t)
<1>1. Proper(s) => Proper(t)
  BY DEF Alike, SameClients, Proper, Trial
<1>2. Places(t) = Places(s) /\ Needs(t) = Needs(s)
  BY DEF Alike, SameClients, Places, Needs, Trial, Usable
<1>. QED BY <1>1, <1>2 DEF Keeps, Alike, SameClients, Waits

(* A connection that goes down, and holds what it held.                    *)
Down == {"connecting", "draining", "failed", "offline", "quarantined"}

LEMMA DownKeeps ==
  ASSUME NEW s, NEW t, t.phase \in Down, SameClients(s, t),
         t.connect = s.connect, t.attempt = s.attempt
  PROVE  Keeps(s, t)
<1>1. Proper(s) => Proper(t)
  BY DEF SameClients, Proper, Trial
<1>2. ~Usable(t) /\ ~Waits(t)
  BY DEF Down, Usable, Waits
<1>3. Places(t) = Places(s) /\ Needs(t) \subseteq Needs(s)
  BY <1>2 DEF SameClients, Places, Needs, Trial
<1>. QED BY <1>1, <1>2, <1>3 DEF Keeps

(* An attempt that was begun is one still.                                 *)
LEMMA BeginsAlike ==
  ASSUME NEW s, NEW t, NEW u, NEW n, Begins(s, t, n), Alike(t, u)
  PROVE  Begins(s, u, n)
<1>1. Keeps(t, u)
  BY AlikeKeeps
<1>. QED BY <1>1 DEF Begins, Keeps, Alike, SameClients, Waits

(* It may be begun on a record that has let something go.                  *)
LEMMA KeepsBegins ==
  ASSUME NEW s, NEW t, NEW u, NEW n, Keeps(s, t), Begins(t, u, n)
  PROVE  Begins(s, u, n)
BY DEF Begins, Keeps

----------------------------------------------------------------------------
(* The operators of the model, one by one.                                 *)

(* A transition to a phase that is not a usable one.                       *)
LEMMA TransitionKeeps ==
  ASSUME NEW s \in Entry, NEW p \in Down
  PROVE  Keeps(s, Transition(s, p))
<1>1. IsTransition(s, Transition(s, p), p)
  BY TransitionFields
<1>. QED BY <1>1, DownKeeps DEF IsTransition, SameConnect

(* What a handler notes in an entry.                                       *)
LEMMA MarksAlike ==
  ASSUME NEW s \in Entry, NEW v
  PROVE  /\ Alike(s, [s EXCEPT !.swap = v]) /\ Alike(s, [s EXCEPT !.swapLive = v])
         /\ Alike(s, [s EXCEPT !.swapTo = v]) /\ Alike(s, [s EXCEPT !.streak = v])
         /\ Alike(s, [s EXCEPT !.retrying = v]) /\ Alike(s, [s EXCEPT !.timer = v])
         /\ Alike(s, [s EXCEPT !.removing = v]) /\ Alike(s, [s EXCEPT !.ready = v])
         /\ Alike(s, [s EXCEPT !.onConnect = v]) /\ Alike(s, [s EXCEPT !.onDisconnect = v])
         /\ Alike(s, [s EXCEPT !.disconnect = v]) /\ Alike(s, [s EXCEPT !.catalog = v])
BY ZenonT(60) DEF Entry, Alike, SameClients

(* The operators that touch no client.                                     *)
LEMMA RescheduledKeeps ==
  ASSUME NEW s \in Entry
  PROVE  Keeps(s, Rescheduled(s))
<1>1. IsRescheduled(s, Rescheduled(s))
  BY RescheduledFields
<1>. QED BY <1>1, AlikeKeeps DEF IsRescheduled, Alike, SameConnect

LEMMA NoSessionKeeps ==
  ASSUME NEW s \in Entry
  PROVE  LET t == Transition(NoSession(s), "failed")
         IN  /\ Keeps(s, t) /\ t.session = 0 /\ t.phase = "failed"
             /\ t.pending = s.pending /\ Trial(t) = Trial(s)
<1> DEFINE u == NoSession(s)
           t == Transition(u, "failed")
<1>1. IsNoSession(s, u) /\ u \in Entry
  <2>1. IsNoSession(s, u)
    BY NoSessionFields
  <2>2. u \in Entry
    BY ConstantsAssumption, ZenonT(60) DEF Entry, NoSession
  <2>. QED BY <2>1, <2>2
<1>. HIDE DEF u
<1>2. IsTransition(u, t, "failed")
  BY <1>1, TransitionFields
<1>. HIDE DEF t
<1>3. /\ t.phase = "failed" /\ t.session = 0 /\ t.pending = s.pending
      /\ t.cleanup = s.cleanup /\ t.releasing = s.releasing
      /\ t.connect = s.connect /\ t.attempt = s.attempt
  BY <1>1, <1>2 DEF IsNoSession, IsTransition, SameClients, SameConnect
<1>4. Trial(t) = Trial(s) /\ ~Usable(t) /\ ~Waits(t)
  BY <1>3 DEF Trial, Usable, Waits
<1>5. Proper(s) => Proper(t)
  BY <1>3, <1>4 DEF Proper, Apart
<1>6. Places(t) \subseteq Places(s) /\ Needs(t) \subseteq Needs(s)
  BY <1>3, <1>4 DEF Places, Needs
<1>7. Keeps(s, t)
  BY <1>3, <1>4, <1>5, <1>6 DEF Keeps
<1>. QED BY <1>3, <1>4, <1>7 DEF t, u

(* #handleUnexpectedClose: the client that is closed is the one the entry  *)
(* gives up, unless the entry goes down anyhow.                            *)
LEMMA LostKeeps ==
  ASSUME NEW c, NEW s \in Sound(c), NEW n \in Nat
  PROVE  /\ Keeps(s, Lost(s, n))
         /\ Proper(s) /\ s.session = n /\ n # 0 => n \notin Needs(Lost(s, n))
<1> DEFINE u == Transition(NoSession(s), "failed")
           t == Rescheduled(u)
<1>1. s \in Entry /\ "failed" \in Phases
  BY SoundIs DEF Phases
<1>2. u \in Entry
  BY <1>1, NoSessionSound, TransitionSound, SoundIs
<1>3. /\ Keeps(s, u) /\ u.session = 0 /\ u.phase = "failed"
      /\ u.pending = s.pending /\ Trial(u) = Trial(s)
  BY <1>1, NoSessionKeeps
<1>. HIDE DEF u
<1>4. Keeps(u, t) /\ IsRescheduled(u, t)
  BY <1>2, RescheduledKeeps, RescheduledFields
<1>5. t.phase = "failed" /\ t.pending = s.pending /\ Trial(t) = Trial(s)
  BY <1>3, <1>4 DEF IsRescheduled, SameClients, SameConnect, Trial
<1>. HIDE DEF t
<1>6. Keeps(s, t)
  BY <1>3, <1>4, KeepsTrans
<1>7. ASSUME Proper(s), s.session = n, n # 0 PROVE n \notin Needs(t)
  <2>1. n \notin {s.pending, Trial(s)}
    BY <1>7 DEF Proper, Apart
  <2>. QED BY <1>5, <1>7, <2>1 DEF Needs, Usable
<1>8. Lost(s, n) = IF s.session # n \/ s.phase \in {"draining", "offline"} THEN s ELSE t
  BY Zenon DEF Lost, t, u
<1>9. ASSUME Proper(s), s.session = n, n # 0, s.phase \in {"draining", "offline"}
      PROVE  n \notin Needs(s)
  BY <1>9 DEF Needs, Proper, Apart, Usable
<1>. QED BY <1>6, <1>7, <1>8, <1>9, KeepsSelf

(* A connect task that fails has closed its client.                        *)
LEMMA FailedKeeps ==
  ASSUME NEW c, NEW s \in Sound(c), s.connect \in {"open", "cleanup"}
  PROVE  LET t == ConnectSettled(Transition(s, "failed"), FALSE)
         IN  Keeps(s, t) /\ (Proper(s) => s.attempt \notin Needs(t))
<1> DEFINE t == ConnectSettled(Transition(s, "failed"), FALSE)
<1>1. IsSettled(s, t, "failed")
  <2>1. "failed" \in Phases
    BY DEF Phases
  <2>. QED BY <2>1, SettledEnds, Zenon
<1>. HIDE DEF t
<1>2. /\ t.session = s.session /\ t.pending = s.pending /\ t.cleanup = s.cleanup
      /\ t.releasing = s.releasing /\ t.connect = "none" /\ t.attempt = 0 /\ t.phase = "failed"
  BY <1>1 DEF IsSettled, SameClients
<1>3. Trial(t) = 0 /\ Trial(s) = s.attempt /\ ~Usable(t) /\ ~Waits(t)
  BY <1>2 DEF Trial, Usable, Waits
<1>4. Keeps(s, t)
  <2>1. Proper(s) => Proper(t)
    BY <1>2, <1>3 DEF Proper, Apart
  <2>2. Places(t) \subseteq Places(s) /\ Needs(t) \subseteq Needs(s)
    BY <1>2, <1>3 DEF Places, Needs
  <2>. QED BY <1>2, <1>3, <2>1, <2>2 DEF Keeps
<1>5. Proper(s) => s.attempt \notin Needs(t)
  BY <1>2, <1>3 DEF Proper, Apart, Needs
<1>. QED BY <1>4, <1>5 DEF t

(* The client of an attempt becomes the one that is kept for a cleanup, or *)
(* the one that is parked.                                                 *)
LEMMA SetAsideKeeps ==
  ASSUME NEW c, NEW s \in Sound(c), s.connect \in {"open", "cleanup"}
  PROVE  LET t == ConnectSettled(Transition([s EXCEPT !.cleanup = s.attempt], "quarantined"), FALSE)
             u == ConnectSettled(Transition([s EXCEPT !.pending = s.attempt], "authorizing"), FALSE)
         IN  Keeps(s, t) /\ Keeps(s, u)
<1> DEFINE x == [s EXCEPT !.cleanup = s.attempt]
           t == ConnectSettled(Transition(x, "quarantined"), FALSE)
           y == [s EXCEPT !.pending = s.attempt]
           u == ConnectSettled(Transition(y, "authorizing"), FALSE)
<1>1. /\ s \in Entry /\ s.attempt \in Nat /\ "none" \in ConnectAt /\ "none" \in Streaks
      /\ s.ready \in Seq(Continuations) /\ s.def \in Defs
      /\ "quarantined" \in Phases /\ "authorizing" \in Phases
  BY SoundIs DEF Entry, ConnectAt, Streaks, Phases
<1>2. x \in Sound(c) /\ y \in Sound(c)
  BY <1>1, Recording
<1>3. /\ x.session = s.session /\ x.pending = s.pending /\ x.cleanup = s.attempt
      /\ x.releasing = s.releasing
      /\ y.session = s.session /\ y.pending = s.attempt /\ y.cleanup = s.cleanup
      /\ y.releasing = s.releasing
  BY <1>1, ZenonT(60) DEF Entry
<1>. HIDE DEF x, y
<1>4. IsSettled(x, t, "quarantined") /\ IsSettled(y, u, "authorizing")
  BY <1>1, <1>2, SettledEnds, Zenon
<1>. HIDE DEF t, u
<1>5. /\ t.session = s.session /\ t.pending = s.pending /\ t.cleanup = s.attempt
      /\ t.releasing = s.releasing /\ t.phase = "quarantined"
      /\ t.connect = "none" /\ t.attempt = 0
  BY <1>3, <1>4 DEF IsSettled, SameClients
<1>6. /\ u.session = s.session /\ u.pending = s.attempt /\ u.cleanup = s.cleanup
      /\ u.releasing = s.releasing /\ u.phase = "authorizing"
      /\ u.connect = "none" /\ u.attempt = 0
  BY <1>3, <1>4 DEF IsSettled, SameClients
<1>7. Trial(s) = s.attempt /\ Trial(t) = 0 /\ Trial(u) = 0 /\ ~Usable(t) /\ ~Usable(u)
  BY <1>5, <1>6 DEF Trial, Usable
<1>8. Keeps(s, t)
  <2>1. Proper(s) => Proper(t)
    BY <1>5, <1>7 DEF Proper, Apart
  <2>2. Places(t) \subseteq Places(s) /\ Needs(t) \subseteq Needs(s)
    BY <1>5, <1>7 DEF Places, Needs
  <2>. QED BY <1>5, <2>1, <2>2 DEF Keeps, Waits
<1>9. Keeps(s, u)
  <2>1. Proper(s) => Proper(u) /\ ~Waits(u)
    BY <1>6, <1>7 DEF Proper, Apart, Waits
  <2>2. Places(u) \subseteq Places(s) /\ Needs(u) \subseteq Needs(s)
    BY <1>6, <1>7 DEF Places, Needs
  <2>. QED BY <1>6, <2>1, <2>2 DEF Keeps
<1>. QED BY <1>8, <1>9 DEF t, u, x, y

(* client.connect was rejected: the attempt closes its client.             *)
LEMMA RejectedKeeps ==
  ASSUME NEW c, NEW s \in Sound(c), s.connect = "open"
  PROVE  Keeps(s, [s EXCEPT !.connect = "cleanup"])
<1> DEFINE t == [s EXCEPT !.connect = "cleanup"]
<1>1. s \in Entry
  BY SoundIs
<1>2. /\ t.phase = s.phase /\ t.connect = "cleanup" /\ t.attempt = s.attempt
      /\ SameClients(s, t)
  BY <1>1, ZenonT(60) DEF Entry, SameClients
<1>. HIDE DEF t
<1>3. Trial(t) = Trial(s)
  BY <1>2 DEF Trial
<1>4. Proper(s) => Proper(t)
  BY <1>2, <1>3 DEF SameClients, Proper
<1>5. Places(t) = Places(s) /\ Needs(t) = Needs(s)
  BY <1>2, <1>3 DEF SameClients, Places, Needs, Usable
<1>. QED BY <1>2, <1>4, <1>5 DEF Keeps, SameClients, Waits, t

(* The client becomes the session, at once online or after the repair of   *)
(* its listen stream.                                                      *)
LEMMA AdoptedKeeps ==
  ASSUME NEW c, NEW s \in Sound(c), s.connect = "open", NEW g \in Nat
  PROVE  /\ Keeps(s, Online(Adopted(s, g)))
         /\ ~Steady => Keeps(s, [Adopted(s, g) EXCEPT !.connect = "listen"])
<1> DEFINE a == Adopted(s, g)
           l == [a EXCEPT !.connect = "listen"]
           t == ConnectSettled(Transition(a, "online"), TRUE)
<1>1. s \in Entry /\ a \in Sound(c) /\ a \in Entry
  BY SoundIs, AdoptedSound
<1>2. IsAdopted(s, a, g)
  BY <1>1, AdoptedFields
<1>. HIDE DEF a
<1>3. IsSettled(a, t, "online")
  <2>1. "online" \in Phases
    BY DEF Phases
  <2>. QED BY <1>1, <2>1, SettledEnds, Zenon
<1>4. /\ l.phase = a.phase /\ l.connect = "listen" /\ l.attempt = a.attempt
      /\ SameClients(a, l)
  BY <1>1, ZenonT(60) DEF Entry, SameClients
<1>5. t = Online(a)
  BY DEF Online
<1>. HIDE DEF l, t
<1>6. /\ t.session = s.attempt /\ t.pending = s.pending /\ t.cleanup = s.cleanup
      /\ t.releasing = s.releasing /\ t.phase = "online" /\ t.connect = "none" /\ t.attempt = 0
  BY <1>2, <1>3 DEF IsAdopted, IsSettled, SameClients
<1>7. /\ l.session = s.attempt /\ l.pending = s.pending /\ l.cleanup = s.cleanup
      /\ l.releasing = s.releasing /\ l.phase = s.phase /\ l.connect = "listen"
      /\ l.attempt = s.attempt
  BY <1>2, <1>4 DEF IsAdopted, SameConnect, SameClients
<1>8. Trial(s) = s.attempt /\ Trial(t) = 0 /\ Trial(l) = 0
  BY <1>6, <1>7 DEF Trial
<1>9. Keeps(s, t)
  <2>1. Proper(s) => Proper(t) /\ s.attempt # 0
    BY <1>6, <1>8 DEF Proper, Apart
  <2>2. Places(t) \subseteq Places(s)
    BY <1>6, <1>8 DEF Places
  <2>3. Proper(s) => Needs(t) \subseteq Needs(s)
    BY <1>6, <1>8, <2>1 DEF Needs
  <2>. QED BY <1>6, <2>1, <2>2, <2>3 DEF Keeps, Waits
<1>10. ASSUME ~Steady PROVE Keeps(s, l)
  <2>1. Proper(s) => Proper(l)
    BY <1>7, <1>8 DEF Proper, Apart
  <2>2. Places(l) \subseteq Places(s) /\ Needs(l) \subseteq Needs(s)
    BY <1>7, <1>8, <1>10 DEF Places, Needs
  <2>. QED BY <1>7, <1>10, <2>1, <2>2 DEF Keeps, Waits
<1>. QED BY <1>5, <1>9, <1>10 DEF l, a

(* The repair is over, and the session may be gone.                        *)
LEMMA RepairedKeeps ==
  ASSUME NEW c, NEW s \in Sound(c), s.connect = "listen", ~Steady
  PROVE  Keeps(s, Online(s))
<1> DEFINE t == ConnectSettled(Transition(s, "online"), TRUE)
<1>1. IsSettled(s, t, "online")
  <2>1. "online" \in Phases
    BY DEF Phases
  <2>. QED BY <2>1, SettledEnds, Zenon
<1>2. t = Online(s)
  BY DEF Online
<1>. HIDE DEF t
<1>3. /\ SameClients(s, t) /\ t.phase = "online" /\ t.connect = "none" /\ t.attempt = 0
      /\ Trial(t) = 0 /\ Trial(s) = 0
  BY <1>1 DEF IsSettled, Trial
<1>4. Proper(s) => Proper(t)
  BY <1>3 DEF SameClients, Proper, Apart
<1>5. Places(t) \subseteq Places(s) /\ Needs(t) \subseteq Needs(s)
  BY <1>3 DEF SameClients, Places, Needs
<1>. QED BY <1>2, <1>3, <1>4, <1>5 DEF Keeps, Waits

(* The end of a disconnect, whatever it has closed before.                 *)
LEMMA OfflineKeeps ==
  ASSUME NEW c, NEW s \in Sound(c)
  PROVE  Keeps(s, WentOffline(s))
<1>1. IsWentOffline(s, WentOffline(s))
  BY WentOfflineFields
<1>. QED BY <1>1, DownKeeps DEF IsWentOffline, SameConnect, Down

(* The client that a disconnect has closed leaves its place.               *)
LEMMA TakenDownKeeps ==
  ASSUME NEW c, NEW s \in Sound(c)
  PROVE  LET x == WentOffline([s EXCEPT !.releasing = 0])
             y == WentOffline([s EXCEPT !.cleanup = 0])
             z == WentOffline(NoSession(s))
         IN  /\ Keeps(s, x) /\ (Proper(s) => s.releasing \notin Needs(x))
             /\ Keeps(s, y) /\ (Proper(s) => s.cleanup \notin Needs(y))
             /\ Keeps(s, z) /\ (Proper(s) => s.session \notin Needs(z))
<1> DEFINE u == [s EXCEPT !.releasing = 0]
           v == [s EXCEPT !.cleanup = 0]
           w == NoSession(s)
           x == WentOffline(u)
           y == WentOffline(v)
           z == WentOffline(w)
<1>1. /\ s \in Entry /\ 0 \in Nat /\ "none" \in ConnectAt /\ "none" \in Streaks
      /\ s.ready \in Seq(Continuations) /\ s.def \in Defs
  BY SoundIs DEF Entry, ConnectAt, Streaks
<1>2. u \in Sound(c) /\ v \in Sound(c) /\ w \in Sound(c)
  BY <1>1, Recording, NoSessionSound
<1>3. /\ u.session = s.session /\ u.pending = s.pending /\ u.cleanup = s.cleanup
      /\ u.releasing = 0 /\ SameConnect(s, u)
  BY <1>1, ZenonT(60) DEF Entry, SameConnect
<1>4. /\ v.session = s.session /\ v.pending = s.pending /\ v.cleanup = 0
      /\ v.releasing = s.releasing /\ SameConnect(s, v)
  BY <1>1, ZenonT(60) DEF Entry, SameConnect
<1>5. IsNoSession(s, w)
  BY <1>1, NoSessionFields
<1>. HIDE DEF u, v, w
<1>6. IsWentOffline(u, x) /\ IsWentOffline(v, y) /\ IsWentOffline(w, z)
  BY <1>2, WentOfflineFields
<1>. HIDE DEF x, y, z
<1>7. /\ x.session = s.session /\ x.pending = s.pending /\ x.cleanup = s.cleanup
      /\ x.releasing = 0 /\ SameConnect(s, x) /\ x.phase = "offline"
  BY <1>3, <1>6 DEF IsWentOffline, SameClients, SameConnect
<1>8. /\ y.session = s.session /\ y.pending = s.pending /\ y.cleanup = 0
      /\ y.releasing = s.releasing /\ SameConnect(s, y) /\ y.phase = "offline"
  BY <1>4, <1>6 DEF IsWentOffline, SameClients, SameConnect
<1>9. /\ z.session = 0 /\ z.pending = s.pending /\ z.cleanup = s.cleanup
      /\ z.releasing = s.releasing /\ SameConnect(s, z) /\ z.phase = "offline"
  BY <1>5, <1>6 DEF IsNoSession, IsWentOffline, SameClients, SameConnect
<1>10. /\ Trial(x) = Trial(s) /\ Trial(y) = Trial(s) /\ Trial(z) = Trial(s)
       /\ ~Usable(x) /\ ~Usable(y) /\ ~Usable(z) /\ ~Waits(x) /\ ~Waits(y) /\ ~Waits(z)
  BY <1>7, <1>8, <1>9 DEF Trial, SameConnect, Usable, Waits
<1>11. Proper(s) => Proper(x) /\ Proper(y) /\ Proper(z)
  BY <1>7, <1>8, <1>9, <1>10 DEF Proper, Apart, SameConnect
<1>12. /\ Places(x) \subseteq Places(s) /\ Needs(x) \subseteq Needs(s)
       /\ Places(y) \subseteq Places(s) /\ Needs(y) \subseteq Needs(s)
       /\ Places(z) \subseteq Places(s) /\ Needs(z) \subseteq Needs(s)
  BY <1>7, <1>8, <1>9, <1>10 DEF Places, Needs
<1>13. Keeps(s, x) /\ Keeps(s, y) /\ Keeps(s, z)
  BY <1>7, <1>8, <1>9, <1>10, <1>11, <1>12 DEF Keeps, SameConnect
<1>14. Proper(s) => s.releasing \notin Needs(x) /\ s.cleanup \notin Needs(y)
                      /\ s.session \notin Needs(z)
  BY <1>7, <1>8, <1>9, <1>10 DEF Proper, Apart, Needs
<1>. QED BY <1>13, <1>14 DEF x, y, z, u, v, w

(* A close that fails keeps its client.                                    *)
LEMMA QuarantinedKeeps ==
  ASSUME NEW c, NEW s \in Sound(c)
  PROVE  Keeps(s, DisconnectSettled(Transition(s, "quarantined"), FALSE))
<1> DEFINE u == Transition(s, "quarantined")
           t == DisconnectSettled(u, FALSE)
<1>0. "quarantined" \in Phases
  BY DEF Phases
<1>1. s \in Entry /\ u \in Entry
  BY <1>0, SoundIs, TransitionSound
<1>2. IsTransition(s, u, "quarantined")
  BY <1>1, TransitionFields
<1>. HIDE DEF u
<1>3. IsDisconnectSettled(u, t, FALSE)
  BY <1>1, DisconnectSettledFields
<1>. HIDE DEF t
<1>4. t.phase \in Down /\ SameClients(s, t) /\ t.connect = s.connect /\ t.attempt = s.attempt
  BY <1>2, <1>3 DEF IsTransition, IsDisconnectSettled, SameClients, SameConnect, Down
<1>. QED BY <1>4, DownKeeps DEF t, u

(* A disconnect that begins: the client that was parked is the one it      *)
(* releases.                                                               *)
LEMMA DrainingKeeps ==
  ASSUME NEW c, NEW s \in Sound(c), NEW b
  PROVE  Keeps(s, Draining(s, b))
<1> DEFINE v == [s EXCEPT !.disconnect = "release", !.releasing = s.pending, !.pending = 0]
           x == Transition(v, "draining")
           u(at) == [s EXCEPT !.disconnect = at]
<1>1. s \in Entry /\ "draining" \in Phases /\ "draining" \in Down
  BY SoundIs DEF Phases, Down
<1>2. CASE s.pending # 0
  <2>1. Draining(s, b) = x
    BY <1>2 DEF Draining
  <2>2. /\ v.session = s.session /\ v.pending = 0 /\ v.cleanup = s.cleanup
        /\ v.releasing = s.pending /\ SameConnect(s, v)
    BY <1>1, ZenonT(60) DEF Entry, SameConnect
  <2>3. v \in Entry
    <3>1. "release" \in DisconnectAt /\ 0 \in Nat /\ s.pending \in Nat
      BY <1>1 DEF DisconnectAt, Entry
    <3>. QED BY <1>1, <3>1, ZenonT(60) DEF Entry
  <2>. HIDE DEF v
  <2>4. IsTransition(v, x, "draining")
    BY <2>3, TransitionFields
  <2>. HIDE DEF x
  <2>5. /\ x.session = s.session /\ x.pending = 0 /\ x.cleanup = s.cleanup
        /\ x.releasing = s.pending /\ SameConnect(s, x) /\ x.phase = "draining"
    BY <2>2, <2>4 DEF IsTransition, SameClients, SameConnect
  <2>6. Trial(x) = Trial(s) /\ ~Usable(x) /\ ~Waits(x)
    BY <2>5 DEF Trial, SameConnect, Usable, Waits
  <2>7. Proper(s) => Proper(x)
    BY <2>5, <2>6 DEF Proper, Apart, SameConnect
  <2>8. Places(x) \subseteq Places(s) /\ Needs(x) \subseteq Needs(s)
    BY <2>5, <2>6 DEF Places, Needs
  <2>. QED BY <2>1, <2>5, <2>6, <2>7, <2>8 DEF Keeps, SameConnect
<1>3. ASSUME NEW at \in DisconnectAt
      PROVE  Keeps(s, Transition(u(at), "draining"))
  <2> DEFINE y == u(at)
  <2>1. Alike(s, y)
    BY <1>1, MarksAlike
  <2>2. y \in Entry
    BY <1>1, ZenonT(60) DEF Entry
  <2>. HIDE DEF y
  <2>3. Keeps(s, y) /\ Keeps(y, Transition(y, "draining"))
    BY <1>1, <2>1, <2>2, AlikeKeeps, TransitionKeeps
  <2>. QED BY <2>3, KeepsTrans DEF y
<1>4. /\ Keeps(s, Transition(u("cleanup"), "draining"))
      /\ Keeps(s, Transition(u("drain"), "draining"))
      /\ Keeps(s, Transition(u("drainDead"), "draining"))
  <2>. HIDE DEF u
  <2>. QED BY <1>3 DEF DisconnectAt
<1>5. CASE s.pending = 0
  <2>1. Draining(s, b) \in {Transition(u("cleanup"), "draining"),
                            Transition(u("drain"), "draining"),
                            Transition(u("drainDead"), "draining"), WentOffline(s)}
    <3>1. CASE s.cleanup # 0
      BY <1>5, <3>1 DEF Draining
    <3>2. CASE s.cleanup = 0 /\ s.session # 0
      BY <1>5, <3>2 DEF Draining
    <3>3. CASE s.cleanup = 0 /\ s.session = 0 /\ b
      BY <1>5, <3>3 DEF Draining
    <3>4. CASE s.cleanup = 0 /\ s.session = 0 /\ ~b
      BY <1>5, <3>4 DEF Draining
    <3>. QED BY <3>1, <3>2, <3>3, <3>4
  <2>2. Keeps(s, WentOffline(s))
    BY OfflineKeeps
  <2>. HIDE DEF u
  <2>. QED BY <1>4, <2>1, <2>2
<1>. QED BY <1>2, <1>5

(* disconnect().                                                           *)
LEMMA DisconnectingKeeps ==
  ASSUME NEW c, NEW s \in Sound(c), NEW b
  PROVE  Keeps(s, Disconnecting(s, b))
<1> DEFINE u == [s EXCEPT !.disconnect = "connect"]
           t == [u EXCEPT !.onConnect = Append(u.onConnect, "disconnect")]
<1>1. s \in Entry
  BY SoundIs
<1>2. u \in Entry /\ Alike(s, u)
  <2>1. "connect" \in DisconnectAt
    BY DEF DisconnectAt
  <2>. QED BY <1>1, <2>1, MarksAlike, ZenonT(60) DEF Entry
<1>3. Disconnecting(s, b) \in {s, t, Draining(s, b)}
  BY Zenon DEF Disconnecting
<1>. HIDE DEF u
<1>4. Alike(u, t)
  BY <1>2, MarksAlike
<1>. HIDE DEF t
<1>5. Keeps(s, t)
  BY <1>2, <1>4, AlikeKeeps, KeepsTrans
<1>. QED BY <1>3, <1>5, KeepsSelf, DrainingKeeps

(* The swap of a definition.                                               *)
LEMMA SwappedKeeps ==
  ASSUME NEW c, NEW s \in Sound(c)
  PROVE  Keeps(s, Swapped(s))
<1> DEFINE w == IF s.swapLive THEN "reconnect" ELSE "none"
           t == [s EXCEPT !.def = s.swapTo, !.verdict = FALSE, !.tries = 0,
                     !.timer = FALSE, !.streak = "none", !.swap = w,
                     !.swapLive = FALSE]
           u == Transition(t, "offline")
<1>1. s \in Entry /\ s.swapTo \in Defs /\ "offline" \in Down
  BY SoundIs DEF Entry, Down
<1>2. w \in SwapAt /\ "none" \in Streaks /\ 0 \in 0..MaxTries
  BY ConstantsAssumption DEF SwapAt, Streaks
<1>3. t \in Entry
  <2>. HIDE DEF w
  <2>. QED BY <1>1, <1>2, ZenonT(60) DEF Entry
<1>4. Alike(s, t)
  <2>. HIDE DEF w
  <2>. QED BY <1>1, ZenonT(60) DEF Entry, Alike, SameClients
<1>5. Swapped(s) \in {t, u}
  BY Zenon DEF Swapped
<1>. HIDE DEF t
<1>6. Keeps(s, t) /\ Keeps(t, u)
  BY <1>1, <1>3, <1>4, AlikeKeeps, TransitionKeeps
<1>. HIDE DEF u
<1>. QED BY <1>5, <1>6, KeepsTrans

(* A connect that begins its attempt, joins another task, or waits.        *)
LEMMA AttemptingBegins ==
  ASSUME NEW c, NEW s \in Sound(c), NEW n \in Nat \ {0}
  PROVE  Begins(s, Attempting(s, n), n)
<1> DEFINE t == Attempting(s, n)
<1>1. s \in Entry
  BY SoundIs
<1>2. IsAttempting(s, t, n)
  BY <1>1, AttemptingFields
<1>. HIDE DEF t
<1>3. /\ SameClients(s, t) /\ t.connect = "open" /\ t.attempt = n /\ t.phase = "connecting"
      /\ Trial(t) = n
  BY <1>2 DEF IsAttempting, Trial
<1>4. Proper(s) /\ n \notin Places(s) => Proper(t)
  BY <1>3 DEF SameClients, Proper, Places, Apart
<1>5. /\ Places(t) \subseteq Places(s) \cup {n} /\ Needs(t) \subseteq Needs(s) \cup {n}
      /\ ~Waits(t)
  BY <1>3 DEF SameClients, Places, Needs, Usable, Waits
<1>. QED BY <1>3, <1>4, <1>5 DEF Begins, t

LEMMA ConnectedMoves ==
  ASSUME NEW c, NEW s \in Sound(c), NEW b, NEW n \in Nat \ {0}
  PROVE  Keeps(s, Connected(s, b, n)) \/ Begins(s, Connected(s, b, n), n)
<1> DEFINE t == [s EXCEPT !.connect = "drain"]
           joined == \E i \in DOMAIN s.onDisconnect : s.onDisconnect[i] = "connect"
           q == IF joined THEN s.onDisconnect ELSE Append(s.onDisconnect, "connect")
           u == [s EXCEPT !.onDisconnect = q]
<1>1. s \in Entry
  BY SoundIs
<1>2. \/ Connected(s, b, n) \in {s, u, Attempting(s, n)}
      \/ Connected(s, b, n) = t /\ s.connect = "none"
  BY Zenon DEF Connected
<1>3. Alike(s, u)
  <2>. HIDE DEF q
  <2>. QED BY <1>1, MarksAlike
<1>4. s.connect = "none" => Keeps(s, t)
  <2>1. /\ t.connect = "drain" /\ t.attempt = s.attempt /\ t.phase = s.phase
        /\ SameClients(s, t)
    BY <1>1, ZenonT(60) DEF Entry, SameClients
  <2>. HIDE DEF t
  <2>2. s.connect = "none" => Trial(s) = 0 /\ Trial(t) = 0
    BY <2>1 DEF Trial
  <2>3. s.connect = "none" /\ Proper(s) => Proper(t)
    BY <2>1, <2>2 DEF SameClients, Proper, Apart
  <2>4. s.connect = "none" => Places(t) = Places(s) /\ Needs(t) = Needs(s)
    BY <2>1, <2>2 DEF SameClients, Places, Needs, Usable
  <2>. QED BY <2>1, <2>3, <2>4 DEF Keeps, SameClients, Waits
<1>5. Begins(s, Attempting(s, n), n)
  BY AttemptingBegins
<1>. HIDE DEF t, u
<1>. QED BY <1>2, <1>3, <1>4, <1>5, AlikeKeeps, KeepsSelf

----------------------------------------------------------------------------
(* A handler leaves every entry with what it had (Carried), or begins one  *)
(* attempt beside (Started).                                               *)
Carried(E) ==
  E \in Legal /\ \A f \in Entries : Keeps(entry[f], E[f])

Started(E) ==
  /\ E \in Legal
  /\ \E g \in Entries :
       /\ Begins(entry[g], E[g], attempts + 1)
       /\ \A f \in Entries \ {g} : Keeps(entry[f], E[f])

Moves(E) == Carried(E) \/ Started(E)

(* A handler that has done nothing yet.                                    *)
LEMMA NothingCarried ==
  ASSUME entry \in Legal PROVE Carried(entry)
BY KeepsSelf DEF Carried

(* It may change an entry further.                                         *)
LEMMA CarriedExcept ==
  ASSUME NEW E, Carried(E), NEW e \in Entries, NEW t \in Sound(~Busy(e)), Keeps(E[e], t)
  PROVE  Carried([E EXCEPT ![e] = t]) /\ [E EXCEPT ![e] = t][e] = t
<1> DEFINE F == [E EXCEPT ![e] = t]
<1>1. F \in Legal /\ E \in [Entries -> Entry]
  BY LegalExcept, LegalAt DEF Carried
<1>2. F[e] = t /\ \A f \in Entries \ {e} : F[f] = E[f]
  BY <1>1
<1>. HIDE DEF F
<1>3. Keeps(entry[e], t)
  BY KeepsTrans DEF Carried
<1>4. Carried(F)
  BY <1>1, <1>2, <1>3 DEF Carried
<1>. QED BY <1>2, <1>4 DEF F

(* ... or begin the attempt.                                               *)
LEMMA StartedExcept ==
  ASSUME NEW E, Carried(E), NEW e \in Entries, NEW t \in Sound(~Busy(e)),
         Begins(E[e], t, attempts + 1)
  PROVE  Started([E EXCEPT ![e] = t])
<1> DEFINE F == [E EXCEPT ![e] = t]
<1>1. F \in Legal /\ E \in [Entries -> Entry]
  BY LegalExcept, LegalAt DEF Carried
<1>2. F[e] = t /\ \A f \in Entries \ {e} : F[f] = E[f]
  BY <1>1
<1>. HIDE DEF F
<1>3. Begins(entry[e], t, attempts + 1)
  BY KeepsBegins DEF Carried
<1>4. Started(F)
  BY <1>1, <1>2, <1>3 DEF Carried, Started
<1>. QED BY <1>4 DEF F

(* ... and note something in an entry afterwards.                          *)
LEMMA MovesExcept ==
  ASSUME NEW E, Moves(E), NEW e \in Entries, NEW t \in Sound(~Busy(e)), Alike(E[e], t)
  PROVE  Moves([E EXCEPT ![e] = t])
<1> DEFINE F == [E EXCEPT ![e] = t]
<1>1. CASE Carried(E)
  BY <1>1, AlikeKeeps, CarriedExcept DEF Moves
<1>2. CASE Started(E)
  <2>1. F \in Legal /\ E \in [Entries -> Entry]
    BY <1>2, LegalExcept, LegalAt DEF Started
  <2>2. F[e] = t /\ \A f \in Entries \ {e} : F[f] = E[f]
    BY <2>1
  <2>. HIDE DEF F
  <2>3. PICK g \in Entries : /\ Begins(entry[g], E[g], attempts + 1)
                             /\ \A f \in Entries \ {g} : Keeps(entry[f], E[f])
    BY <1>2 DEF Started
  <2>4. Begins(entry[g], F[g], attempts + 1)
    BY <2>2, <2>3, BeginsAlike
  <2>5. ASSUME NEW f \in Entries \ {g} PROVE Keeps(entry[f], F[f])
    <3>1. CASE f = e
      <4>1. Keeps(entry[f], E[f]) /\ Keeps(E[f], t)
        BY <2>3, <3>1, AlikeKeeps
      <4>. QED BY <2>2, <3>1, <4>1, KeepsTrans
    <3>2. CASE f # e
      BY <2>2, <2>3, <3>2
    <3>. QED BY <3>1, <3>2
  <2>6. Started(F)
    BY <2>1, <2>3, <2>4, <2>5 DEF Started
  <2>. QED BY <2>6 DEF Moves, F
<1>. QED BY <1>1, <1>2 DEF Moves

(* connect(id), called by a handler.                                       *)
LEMMA ConnectByIdMoves ==
  ASSUME NEW E, Carried(E), NEW id, registry \in [Ids -> Entries \cup {None}],
         attempts \in Nat
  PROVE  Moves(ConnectById(id, E))
<1> DEFINE e == Lookup(id)
           t == Connected(E[e], Busy(e), attempts + 1)
<1>1. CASE closed \/ e = None
  BY <1>1 DEF ConnectById, Moves
<1>2. CASE ~(closed \/ e = None)
  <2>1. e \in Entries /\ attempts + 1 \in Nat \ {0}
    BY <1>2, LookupRegistered
  <2>2. ConnectById(id, E) = [E EXCEPT ![e] = t]
    BY <1>2 DEF ConnectById
  <2>. HIDE DEF e
  <2>3. E[e] \in Sound(~Busy(e))
    BY <2>1, LegalAt DEF Carried
  <2>4. t \in Sound(~Busy(e))
    BY <2>1, <2>3, ConnectedSound
  <2>5. Keeps(E[e], t) \/ Begins(E[e], t, attempts + 1)
    BY <2>1, <2>3, ConnectedMoves
  <2>. HIDE DEF t
  <2>6. CASE Keeps(E[e], t)
    <3>1. Carried([E EXCEPT ![e] = t])
      BY <2>1, <2>4, <2>6, CarriedExcept
    <3>. QED BY <2>2, <3>1 DEF Moves
  <2>7. CASE Begins(E[e], t, attempts + 1)
    <3>1. Started([E EXCEPT ![e] = t])
      BY <2>1, <2>4, <2>7, StartedExcept
    <3>. QED BY <2>2, <3>1 DEF Moves
  <2>. QED BY <2>5, <2>6, <2>7
<1>. QED BY <1>1, <1>2

(* The end of a swap.                                                      *)
LEMMA SwapFinishesMoves ==
  ASSUME NEW E, Carried(E), NEW e \in Entries, registry \in [Ids -> Entries \cup {None}],
         attempts \in Nat
  PROVE  Moves(SwapFinishes(e, E))
<1> DEFINE id == E[e].owner
           w == [E[e] EXCEPT !.swap = "none"]
           x == Swapped(E[e])
           swapped == [E EXCEPT ![e] = x]
           C == ConnectById(id, swapped)
           y == ReconnectSettles(C[e])
           left == [E EXCEPT ![e] = w]
           up == [C EXCEPT ![e] = y]
<1>1. /\ E[e] \in Sound(~Busy(e)) /\ E[e] \in Entry
      /\ "none" \in SwapAt /\ TRUE \in BOOLEAN
  BY LegalAt DEF Carried, SwapAt
<1>2. Carried(left)
  <2>1. w \in Sound(~Busy(e)) /\ Keeps(E[e], w)
    BY <1>1, Marking, MarksAlike, AlikeKeeps
  <2>. HIDE DEF w
  <2>. QED BY <2>1, CarriedExcept
<1>3. Carried(swapped)
  <2>1. x \in Sound(~Busy(e)) /\ Keeps(E[e], x)
    BY <1>1, SwappedSound, SwappedKeeps
  <2>. HIDE DEF x
  <2>. QED BY <2>1, CarriedExcept
<1>4. Moves(C)
  <2>. HIDE DEF swapped
  <2>. QED BY <1>3, ConnectByIdMoves
<1>5. Moves(up)
  <2>. HIDE DEF C
  <2>1. C[e] \in Sound(~Busy(e)) /\ C[e] \in Entry
    BY <1>4, LegalAt DEF Moves, Carried, Started
  <2>2. y \in Sound(~Busy(e)) /\ Alike(C[e], y)
    BY <2>1, ReconnectSettlesSound, MarksAlike DEF ReconnectSettles
  <2>. HIDE DEF y
  <2>. QED BY <1>4, <2>2, MovesExcept
<1>6. SwapFinishes(e, E) \in {left, swapped, up}
  BY Zenon DEF SwapFinishes
<1>. HIDE DEF left, swapped, up
<1>. QED BY <1>2, <1>3, <1>5, <1>6 DEF Moves

(* A swap that goes on: to its disconnect, or to its end.                  *)
LEMMA SwapProceedsMoves ==
  ASSUME NEW E, Carried(E), NEW e \in Entries, registry \in [Ids -> Entries \cup {None}],
         attempts \in Nat
  PROVE  Moves(SwapProceeds(e, E))
<1> DEFINE s == [E[e] EXCEPT !.swapLive = Usable(E[e])]
           g == Disconnecting(s, Busy(e))
           d == [g EXCEPT !.swap = "disconnect"]
           F == [E EXCEPT ![e] = s]
           x == [d EXCEPT !.ready = Append(d.ready, "swap")]
           y == [d EXCEPT !.onDisconnect = Append(d.onDisconnect, "swap")]
           atOnce == [E EXCEPT ![e] = x]
           later == [E EXCEPT ![e] = y]
<1>1. /\ E[e] \in Sound(~Busy(e)) /\ E[e] \in Entry
      /\ "disconnect" \in SwapAt /\ TRUE \in BOOLEAN /\ "none" \in SwapAt
      /\ "swap" \in Continuations /\ Usable(E[e]) \in BOOLEAN
  BY LegalAt DEF Carried, SwapAt, Continuations, Usable
<1>2. s \in Sound(~Busy(e)) /\ Keeps(E[e], s)
  BY <1>1, Marking, MarksAlike, AlikeKeeps
<1>3. Carried(F)
  <2>. HIDE DEF s
  <2>. QED BY <1>2, CarriedExcept
<1>4. Moves(SwapFinishes(e, F))
  <2>. HIDE DEF F
  <2>. QED BY <1>3, SwapFinishesMoves
<1>. HIDE DEF s
<1>5. g \in Sound(~Busy(e)) /\ Keeps(s, g) /\ g \in Entry
  BY <1>2, DisconnectingSound, DisconnectingKeeps, SoundIs
<1>. HIDE DEF g
<1>6. d \in Sound(~Busy(e)) /\ Alike(g, d) /\ d \in Entry
  BY <1>1, <1>5, Marking, MarksAlike, SoundIs
<1>7. Keeps(E[e], d)
  BY <1>2, <1>5, <1>6, KeepsTrans, AlikeKeeps
<1>. HIDE DEF d
<1>8. x \in Sound(~Busy(e)) /\ y \in Sound(~Busy(e))
  BY <1>1, <1>6, Registering
<1>9. Alike(d, x) /\ Alike(d, y)
  BY <1>6, MarksAlike
<1>. HIDE DEF x, y
<1>10. Carried(atOnce) /\ Carried(later)
  BY <1>7, <1>8, <1>9, CarriedExcept, KeepsTrans, AlikeKeeps
<1>11. SwapProceeds(e, E) \in {SwapFinishes(e, F), atOnce, later}
  BY Zenon DEF SwapProceeds, d, g, s, x, y
<1>. HIDE DEF F, atOnce, later
<1>. QED BY <1>4, <1>10, <1>11 DEF Moves

----------------------------------------------------------------------------
(* What a handler leaves behind is held soundly when it has closed no      *)
(* client an entry needs.                                                  *)
LEMMA HoldingsStep ==
  ASSUME attempts \in Nat, entry \in Legal, Holdings, NEW E, Moves(E), NEW dead, Install(E, dead),
         \A f \in Entries : Needs(E[f]) \cap dead = {}
  PROVE  /\ Holdings' /\ attempts' \in Nat /\ attempts <= attempts'
         /\ \A f \in Entries : /\ Places(entry[f])' \subseteq Places(entry[f]) \cup {attempts + 1}
                               /\ Waits(entry[f])' => Waits(entry[f])
<1>1. \A f \in Entries : /\ Proper(entry[f]) /\ entry[f].attempt <= attempts
                         /\ Places(entry[f]) \subseteq 1..attempts /\ Needs(entry[f]) \subseteq live
                         /\ Steady => entry[f].connect # "listen"
                         /\ E[f].attempt \in Nat /\ entry[f].attempt \in Nat
  <2> TAKE f \in Entries
  <2>1. E[f] \in Entry /\ entry[f] \in Entry
    BY LegalAt DEF Moves, Carried, Started
  <2>2. E[f].attempt \in Nat /\ entry[f].attempt \in Nat
    BY <2>1 DEF Entry
  <2>. QED BY <2>2 DEF Holdings, Owned
<1>2. CASE Carried(E)
  <2>1. \A f \in Entries : /\ Proper(E[f]) /\ E[f].attempt \in {0, entry[f].attempt}
                           /\ Places(E[f]) \subseteq Places(entry[f])
                           /\ Needs(E[f]) \subseteq Needs(entry[f])
                           /\ Steady => E[f].connect # "listen"
                           /\ Waits(E[f]) => Waits(entry[f])
    BY <1>1, <1>2 DEF Carried, Keeps
  <2>2. \A f \in Entries : E[f].attempt \in Nat /\ E[f].attempt <= attempts
    BY <1>1, <2>1
  <2>3. entry' = E /\ attempts' = attempts /\ live' = live \ dead
    BY <2>2, InstallQuiet
  <2>4. \A f \in Entries : Owned(f)'
    BY <1>1, <2>1, <2>2, <2>3 DEF Owned, Proper, Places, Needs, Trial, Usable
  <2>5. \A f, h \in Entries : f # h => Places(E[f]) \cap Places(E[h]) = {}
    BY <2>1 DEF Holdings
  <2>6. Holdings'
    BY <2>3, <2>4, <2>5 DEF Holdings
  <2>. QED BY <2>1, <2>3, <2>6
<1>3. CASE Started(E)
  <2> DEFINE n == attempts + 1
  <2>1. PICK g \in Entries : /\ Begins(entry[g], E[g], n)
                             /\ \A f \in Entries \ {g} : Keeps(entry[f], E[f])
    BY <1>3 DEF Started
  <2>2. /\ n \in Nat /\ n = attempts + 1 /\ n > attempts
        /\ \A f \in Entries : n \notin Places(entry[f])
    BY <1>1
  <2>. HIDE DEF n
  <2>3. /\ Proper(E[g]) /\ E[g].attempt = n /\ E[g].connect = "open"
        /\ Places(E[g]) \subseteq Places(entry[g]) \cup {n}
        /\ Needs(E[g]) \subseteq Needs(entry[g]) \cup {n} /\ ~Waits(E[g])
    BY <1>1, <2>1, <2>2 DEF Begins
  <2>4. \A f \in Entries \ {g} :
          /\ Proper(E[f]) /\ E[f].attempt \in {0, entry[f].attempt}
          /\ Places(E[f]) \subseteq Places(entry[f])
          /\ Needs(E[f]) \subseteq Needs(entry[f])
          /\ Steady => E[f].connect # "listen"
          /\ Waits(E[f]) => Waits(entry[f])
    BY <1>1, <2>1 DEF Keeps
  <2>5. entry' = E /\ attempts' = n /\ live' = (live \ dead) \cup {n}
    <3>1. \E f \in Entries : E[f].attempt = attempts + 1
      BY <2>3 DEF n
    <3>. QED BY <3>1, Zenon DEF Install, n
  <2>6. \A f \in Entries : Owned(f)'
    <3> TAKE f \in Entries
    <3>1. 0 <= attempts /\ 0 <= n
      BY <2>2
    <3>2. CASE f = g
      <4>1. Proper(E[g]) /\ E[g].attempt <= n /\ Places(E[g]) \subseteq 1..n
        BY <1>1, <2>2, <2>3
      <4>2. Needs(E[g]) \subseteq live'
        BY <1>1, <2>3, <2>5
      <4>. QED BY <2>3, <2>5, <3>2, <4>1, <4>2 DEF Owned
    <3>3. CASE f # g
      <4>0. /\ E[f].attempt = 0 \/ E[f].attempt <= attempts
            /\ Places(E[f]) \subseteq 1..attempts
        BY <1>1, <2>4, <3>3
      <4>1. E[f].attempt <= n /\ Places(E[f]) \subseteq 1..n
        BY <1>1, <2>2, <3>1, <4>0
      <4>2. Needs(E[f]) \subseteq live'
        BY <1>1, <2>4, <2>5, <3>3
      <4>. QED BY <2>4, <2>5, <3>3, <4>1, <4>2 DEF Owned
    <3>. QED BY <3>2, <3>3
  <2>7. \A f, h \in Entries : f # h => Places(E[f]) \cap Places(E[h]) = {}
    <3> SUFFICES ASSUME NEW f \in Entries, NEW h \in Entries, f # h
                 PROVE  Places(E[f]) \cap Places(E[h]) = {}
      OBVIOUS
    <3>1. Places(entry[f]) \cap Places(entry[h]) = {}
      BY DEF Holdings
    <3>2. CASE f = g
      BY <2>2, <2>3, <2>4, <3>1, <3>2
    <3>3. CASE h = g
      BY <2>2, <2>3, <2>4, <3>1, <3>3
    <3>4. CASE f # g /\ h # g
      BY <2>4, <3>1, <3>4
    <3>. QED BY <3>2, <3>3, <3>4
  <2>8. live' \subseteq 1..attempts'
    <3>1. live \subseteq 1..attempts
      BY DEF Holdings
    <3>2. 1..attempts \subseteq 1..n /\ n \in 1..n
      BY <2>2
    <3>. QED BY <2>5, <3>1, <3>2
  <2>9. \A f \in Entries : /\ Places(E[f]) \subseteq Places(entry[f]) \cup {attempts + 1}
                           /\ Waits(E[f]) => Waits(entry[f])
    BY <2>3, <2>4 DEF n
  <2>10. Holdings'
    BY <2>5, <2>6, <2>7, <2>8 DEF Holdings
  <2>. QED BY <2>2, <2>5, <2>9, <2>10
<1>. QED BY <1>2, <1>3 DEF Moves


(* ... and no entry needs what another one, or none, holds.                *)
LEMMA MovesNeeds ==
  ASSUME Holdings, attempts \in Nat, NEW E, Moves(E), NEW f \in Entries
  PROVE  Needs(E[f]) \subseteq Places(entry[f]) \cup {attempts + 1}
<1>1. /\ Proper(entry[f]) /\ Places(entry[f]) \subseteq 1..attempts
      /\ Needs(entry[f]) \subseteq live /\ live \subseteq 1..attempts
  BY DEF Holdings, Owned
<1>2. Needs(entry[f]) \subseteq Places(entry[f])
  <2>1. 0 \notin Needs(entry[f])
    BY <1>1
  <2>. QED BY <2>1 DEF Needs, Places
<1>3. attempts + 1 \notin Places(entry[f])
  BY <1>1
<1>4. Needs(E[f]) \subseteq Needs(entry[f]) \cup {attempts + 1}
  BY <1>1, <1>3 DEF Moves, Carried, Started, Keeps, Begins
<1>. QED BY <1>2, <1>4

(* A handler that concerns no completion preserves the invariant.          *)
LEMMA MovesPreserves ==
  ASSUME IInv, Accounted, NEW E, Moves(E), NEW dead, Install(E, dead),
         \A f \in Entries : Needs(E[f]) \cap dead = {}, auth' = auth
  PROVE  Accounted'
<1>1. attempts \in Nat /\ entry \in Legal /\ Holdings
  BY DEF IInv, TypeOK, Accounted
<1>2. /\ Holdings' /\ attempts' \in Nat /\ attempts <= attempts'
      /\ \A f \in Entries : /\ Places(entry[f])' \subseteq Places(entry[f]) \cup {attempts + 1}
                            /\ Waits(entry[f])' => Waits(entry[f])
  BY <1>1, HoldingsStep
<1>3. Closings'
  <2> SUFFICES ASSUME NEW k \in Callers, NEW f \in Entries
               PROVE  /\ auth[k].closing \in 0..attempts'
                      /\ auth[k].closing \notin Places(entry[f])'
    BY DEF Closings
  <2>1. auth[k].closing \in 0..attempts /\ auth[k].closing \notin Places(entry[f])
    BY DEF Accounted, Closings
  <2>2. auth[k].closing # attempts + 1 /\ auth[k].closing \in 0..attempts'
    BY <1>1, <1>2, <2>1
  <2>. QED BY <1>2, <2>1, <2>2
<1>4. Parking'
  BY <1>2 DEF Accounted, Parking, Completes
<1>. QED BY <1>2, <1>3, <1>4 DEF Accounted

(* ... that closes nothing,                                                *)
LEMMA QuietPreserves ==
  ASSUME IInv, Accounted, NEW E, Moves(E), Install(E, {}), auth' = auth
  PROVE  Accounted'
BY MovesPreserves

(* ... or changes one entry and closes a client that it held.              *)
LEMMA EntryPreserves ==
  ASSUME IInv, Accounted, NEW e \in Entries, NEW t \in Sound(~Busy(e)), Keeps(entry[e], t),
         NEW c \in Places(entry[e]) \cup {0}, c \notin Needs(t),
         Install([entry EXCEPT ![e] = t], {c}), auth' = auth
  PROVE  Accounted'
<1> DEFINE E == [entry EXCEPT ![e] = t]
<1>1. attempts \in Nat /\ entry \in Legal /\ Holdings
  BY DEF IInv, TypeOK, Accounted
<1>2. Moves(E) /\ E[e] = t
  BY <1>1, NothingCarried, CarriedExcept DEF Moves
<1>. HIDE DEF E
<1>3. \A f \in Entries : Needs(E[f]) \cap {c} = {}
  <2> SUFFICES ASSUME NEW f \in Entries, f # e PROVE c \notin Needs(E[f])
    BY <1>2
  <2>1. Needs(E[f]) \subseteq Places(entry[f]) \cup {attempts + 1}
    BY <1>1, <1>2, MovesNeeds
  <2>2. /\ Places(entry[e]) \subseteq 1..attempts /\ Places(entry[f]) \subseteq 1..attempts
        /\ Places(entry[e]) \cap Places(entry[f]) = {}
    BY <1>1 DEF Holdings, Owned
  <2>3. c # attempts + 1 /\ c \notin Places(entry[f])
    BY <1>1, <2>2
  <2>. QED BY <2>1, <2>3
<1>. QED BY <1>2, <1>3, MovesPreserves DEF E

LEMMA KeptPreserves ==
  ASSUME IInv, Accounted, NEW e \in Entries, NEW t \in Sound(~Busy(e)), Keeps(entry[e], t),
         Install([entry EXCEPT ![e] = t], {}), auth' = auth
  PROVE  Accounted'
<1>1. entry \in Legal
  BY DEF IInv
<1>2. Moves([entry EXCEPT ![e] = t])
  BY <1>1, NothingCarried, CarriedExcept DEF Moves
<1>. QED BY <1>2, QuietPreserves

----------------------------------------------------------------------------
(* The steps of the tasks.                                                 *)

(* An attempt has its number, and a client in its place.                   *)
LEMMA TrialPlace ==
  ASSUME Accounted, NEW e \in Entries, entry[e].connect \in {"open", "cleanup"}
  PROVE  entry[e].attempt \in Places(entry[e]) /\ Proper(entry[e])
<1>1. Proper(entry[e])
  BY DEF Accounted, Holdings, Owned
<1>. QED BY <1>1 DEF Proper, Places, Trial

(* ... and so have the others, or they are empty.                          *)
LEMMA OtherPlaces ==
  ASSUME Accounted, NEW e \in Entries
  PROVE  /\ Proper(entry[e])
         /\ {entry[e].session, entry[e].cleanup, entry[e].releasing}
              \subseteq Places(entry[e]) \cup {0}
BY DEF Accounted, Holdings, Owned, Places

(* The connect task.                                                       *)
LEMMA ConnectingAccounted ==
  ASSUME IInv, Accounted, NEW e \in Entries, Connecting(e)
  PROVE  Accounted'
<1> DEFINE s == entry[e]
<1>1. /\ s \in Sound(~Busy(e)) /\ entry \in Legal
      /\ s.attempt \in Nat /\ s.def \in Defs /\ s.ready \in Seq(Continuations)
      /\ attempts \in Nat /\ attempts + 1 \in Nat \ {0} /\ seq + 1 \in Nat
  BY LegalAt DEF IInv, Entry, TypeOK
<1>2. /\ {"cleanup", "listen"} \subseteq ConnectAt /\ "none" \in Streaks
      /\ {"failed", "quarantined", "authorizing"} \subseteq Phases
      /\ TRUE \in BOOLEAN /\ FALSE \in BOOLEAN
  BY DEF ConnectAt, Streaks, Phases
<1>3. CASE ConnectDrained(e)
  <2>1. Attempting(s, attempts + 1) \in Sound(~Busy(e))
    BY <1>1, AttemptingSound
  <2>2. Begins(s, Attempting(s, attempts + 1), attempts + 1)
    BY <1>1, AttemptingBegins
  <2>3. Moves([entry EXCEPT ![e] = Attempting(s, attempts + 1)])
    BY <1>1, <2>1, <2>2, NothingCarried, StartedExcept DEF Moves
  <2>4. Install([entry EXCEPT ![e] = Attempting(s, attempts + 1)], {}) /\ auth' = auth
    BY <1>3 DEF ConnectDrained, Update
  <2>. QED BY <2>3, <2>4, QuietPreserves
<1>4. ASSUME s.connect \in {"open", "cleanup"},
             Update([entry EXCEPT ![e] = ConnectSettled(Transition(s, "failed"), FALSE)],
                    {s.attempt})
      PROVE  Accounted'
  <2> DEFINE t == ConnectSettled(Transition(s, "failed"), FALSE)
  <2>1. t \in Sound(~Busy(e))
    BY <1>1, <1>2, TransitionSound, ConnectSettledSound
  <2>2. Keeps(s, t) /\ (Proper(s) => s.attempt \notin Needs(t))
    BY <1>1, <1>4, FailedKeeps
  <2>3. s.attempt \in Places(s) /\ Proper(s)
    BY <1>4, TrialPlace
  <2>4. Install([entry EXCEPT ![e] = t], {s.attempt}) /\ auth' = auth
    BY <1>4 DEF Update
  <2>. HIDE DEF t
  <2>. QED BY <2>1, <2>2, <2>3, <2>4, EntryPreserves
<1>5. CASE OpenFails(e)
  BY <1>4, <1>5 DEF OpenFails, Opening
<1>6. CASE ConnectCleaned(e)
  BY <1>4, <1>6 DEF ConnectCleaned
<1>7. CASE ConnectRejected(e)
  <2> DEFINE t == [s EXCEPT !.connect = "cleanup"]
  <2>1. t \in Sound(~Busy(e))
    BY <1>1, <1>2, Recording
  <2>2. Keeps(s, t)
    BY <1>1, <1>7, RejectedKeeps DEF ConnectRejected, Opening
  <2>3. Install([entry EXCEPT ![e] = t], {}) /\ auth' = auth
    BY <1>7 DEF ConnectRejected, Update
  <2>. HIDE DEF t
  <2>. QED BY <2>1, <2>2, <2>3, KeptPreserves
<1>8. CASE ConnectCleanupFails(e)
  <2> DEFINE t == ConnectSettled(Transition([s EXCEPT !.cleanup = s.attempt],
                                            "quarantined"), FALSE)
  <2>1. [s EXCEPT !.cleanup = s.attempt] \in Sound(~Busy(e))
    BY <1>1, <1>2, Recording
  <2>2. t \in Sound(~Busy(e))
    BY <1>2, <2>1, TransitionSound, ConnectSettledSound
  <2>3. Keeps(s, t)
    BY <1>1, <1>8, SetAsideKeeps DEF ConnectCleanupFails
  <2>4. Install([entry EXCEPT ![e] = t], {}) /\ auth' = auth
    BY <1>8 DEF ConnectCleanupFails, Update
  <2>. HIDE DEF t
  <2>. QED BY <2>2, <2>3, <2>4, KeptPreserves
<1>9. CASE ConnectUnauthorized(e)
  <2> DEFINE t == ConnectSettled(Transition([s EXCEPT !.pending = s.attempt],
                                            "authorizing"), FALSE)
  <2>1. [s EXCEPT !.pending = s.attempt] \in Sound(~Busy(e))
    BY <1>1, <1>2, Recording
  <2>2. t \in Sound(~Busy(e))
    BY <1>2, <2>1, TransitionSound, ConnectSettledSound
  <2>3. Keeps(s, t)
    BY <1>1, <1>9, SetAsideKeeps DEF ConnectUnauthorized, Opening
  <2>4. Install([entry EXCEPT ![e] = t], {}) /\ auth' = auth
    BY <1>9 DEF ConnectUnauthorized, Update
  <2>. HIDE DEF t
  <2>. QED BY <2>2, <2>3, <2>4, KeptPreserves
<1>10. CASE ConnectSucceeds(e)
  <2> DEFINE a == Adopted(s, seq + 1)
             x == [a EXCEPT !.connect = "listen"]
             repairs == s.verdict /\ s.attemptDef \in RepairsListen
             t == IF repairs THEN x ELSE Online(a)
  <2>1. a \in Sound(~Busy(e))
    BY <1>1, AdoptedSound
  <2>2. Online(a) \in Sound(~Busy(e)) /\ x \in Sound(~Busy(e))
    <3>. HIDE DEF a
    <3>. QED BY <1>1, <1>2, <2>1, OnlineSound, Recording
  <2>3. Keeps(s, Online(a)) /\ (~Steady => Keeps(s, x))
    BY <1>1, <1>10, AdoptedKeeps DEF ConnectSucceeds, Opening
  <2>4. Install([entry EXCEPT ![e] = t], {}) /\ auth' = auth
    BY <1>10, Zenon DEF ConnectSucceeds
  <2>5. repairs => ~Steady
    BY DEF Steady
  <2>. HIDE DEF a, x, repairs
  <2>6. t \in Sound(~Busy(e)) /\ Keeps(s, t)
    BY <2>2, <2>3, <2>5
  <2>. HIDE DEF t
  <2>. QED BY <2>4, <2>6, KeptPreserves
<1>11. CASE ListenRepaired(e)
  <2>1. Online(s) \in Sound(~Busy(e))
    BY <1>1, OnlineSound
  <2>2. s.connect = "listen" /\ ~Steady
    BY <1>11 DEF ListenRepaired, Accounted, Holdings, Owned
  <2>3. Keeps(s, Online(s))
    BY <1>1, <2>2, RepairedKeeps
  <2>4. Install([entry EXCEPT ![e] = Online(s)], {}) /\ auth' = auth
    BY <1>11 DEF ListenRepaired, Update
  <2>. QED BY <2>1, <2>3, <2>4, KeptPreserves
<1>. QED BY <1>3, <1>5, <1>6, <1>7, <1>8, <1>9, <1>10, <1>11 DEF Connecting

(* The disconnect task.                                                    *)
LEMMA ClosingAccounted ==
  ASSUME IInv, Accounted, NEW e \in Entries, Closing(e)
  PROVE  Accounted'
<1> DEFINE s == entry[e]
           x == WentOffline([s EXCEPT !.releasing = 0])
           y == WentOffline([s EXCEPT !.cleanup = 0])
           z == WentOffline(NoSession(s))
           d == [s EXCEPT !.disconnect = "close"]
           q == DisconnectSettled(Transition(s, "quarantined"), FALSE)
<1>1. /\ s \in Sound(~Busy(e)) /\ entry \in Legal /\ s \in Entry
      /\ s.def \in Defs /\ s.ready \in Seq(Continuations)
  BY LegalAt DEF IInv, Entry
<1>2. /\ 0 \in Nat /\ "none" \in ConnectAt /\ "none" \in Streaks
      /\ "quarantined" \in Phases /\ FALSE \in BOOLEAN
  BY DEF ConnectAt, Streaks, Phases
<1>3. x \in Sound(~Busy(e)) /\ y \in Sound(~Busy(e)) /\ z \in Sound(~Busy(e))
  BY <1>1, <1>2, Recording, NoSessionSound, WentOfflineSound
<1>4. /\ Keeps(s, x) /\ s.releasing \notin Needs(x)
      /\ Keeps(s, y) /\ s.cleanup \notin Needs(y)
      /\ Keeps(s, z) /\ s.session \notin Needs(z)
  BY <1>1, TakenDownKeeps, OtherPlaces
<1>5. {s.session, s.cleanup, s.releasing} \subseteq Places(s) \cup {0}
  BY OtherPlaces
<1>6. CASE ReleaseDone(e)
  <2>1. Install([entry EXCEPT ![e] = x], {s.releasing}) /\ auth' = auth
    BY <1>6 DEF ReleaseDone, Update
  <2>. HIDE DEF x
  <2>. QED BY <1>3, <1>4, <1>5, <2>1, EntryPreserves
<1>7. CASE QuarantineCleaned(e)
  <2>1. Install([entry EXCEPT ![e] = y], {s.cleanup}) /\ auth' = auth
    BY <1>7 DEF QuarantineCleaned, Update
  <2>. HIDE DEF y
  <2>. QED BY <1>3, <1>4, <1>5, <2>1, EntryPreserves
<1>8. CASE CloseDone(e)
  <2>1. Install([entry EXCEPT ![e] = z], {s.session}) /\ auth' = auth
    BY <1>8 DEF CloseDone, Update
  <2>. HIDE DEF z
  <2>. QED BY <1>3, <1>4, <1>5, <2>1, EntryPreserves
<1>9. CASE CloseFails(e)
  <2>1. Install([entry EXCEPT ![e] = q], {}) /\ auth' = auth
    BY <1>9 DEF CloseFails, Update
  <2>2. q \in Sound(~Busy(e)) /\ Keeps(s, q)
    BY <1>1, <1>2, TransitionSound, DisconnectSettledSound, QuarantinedKeeps
  <2>. HIDE DEF q
  <2>. QED BY <2>1, <2>2, KeptPreserves
<1>10. CASE Drained(e)
  <2>1. d \in Sound(~Busy(e))
    <3>1. ~Busy(e)
      BY <1>10 DEF Drained, DrainedOf
    <3>2. d \in Entry
      <4>1. "close" \in DisconnectAt
        BY DEF DisconnectAt
      <4>. QED BY <1>1, <4>1, ZenonT(60) DEF Entry
    <3>3. d.phase = s.phase /\ d.gen = s.gen /\ d.catalog = s.catalog
      BY <1>1, ZenonT(60) DEF Entry
    <3>. HIDE DEF d
    <3>. QED BY <1>1, <3>1, <3>2, <3>3 DEF Sound, CatalogOK, Usable
  <2>2. Keeps(s, d)
    BY <1>1, MarksAlike, AlikeKeeps
  <2>3. Install([entry EXCEPT ![e] = d], {}) /\ auth' = auth
    BY <1>10 DEF Drained, Update
  <2>. HIDE DEF d
  <2>. QED BY <2>1, <2>2, <2>3, KeptPreserves
<1>11. CASE DrainedDead(e)
  <2>1. WentOffline(s) \in Sound(~Busy(e)) /\ Keeps(s, WentOffline(s))
    BY <1>1, WentOfflineSound, OfflineKeeps
  <2>2. Install([entry EXCEPT ![e] = WentOffline(s)], {}) /\ auth' = auth
    BY <1>11 DEF DrainedDead, Update
  <2>. QED BY <2>1, <2>2, KeptPreserves
<1>. QED BY <1>6, <1>7, <1>8, <1>9, <1>10, <1>11 DEF Closing

----------------------------------------------------------------------------
(* Continuations, calls and events.                                        *)

(* The next continuation is taken off the queue.                           *)
LEMMA RestCarried ==
  ASSUME entry \in Legal, NEW e \in Entries, entry[e].ready # <<>>
  PROVE  Carried(Rest(e)) /\ Rest(e)[e] \in Sound(~Busy(e)) /\ Rest(e)[e] \in Entry
<1> DEFINE t == [entry[e] EXCEPT !.ready = Tail(entry[e].ready)]
<1>1. Rest(e) \in Legal /\ Rest(e)[e] = t /\ Rest(e) = [entry EXCEPT ![e] = t]
  BY RestLegal DEF Rest, Legal
<1>2. Keeps(entry[e], t)
  BY LegalAt, MarksAlike, AlikeKeeps
<1>. HIDE DEF t
<1> DEFINE R == Rest(e)
<1>3. R[e] \in Sound(~Busy(e)) /\ R[e] \in Entry /\ R[e] = t /\ R = [entry EXCEPT ![e] = t]
  <2>1. R \in Legal /\ R[e] = t /\ R = [entry EXCEPT ![e] = t]
    BY <1>1
  <2>. HIDE DEF R
  <2>. QED BY <2>1, LegalAt
<1>4. Carried([entry EXCEPT ![e] = t])
  BY <1>2, <1>3, NothingCarried, CarriedExcept
<1>. QED BY <1>3, <1>4

(* A connect by id, and a note in the entry.                               *)
LEMMA ConnectMarked ==
  ASSUME NEW E, Carried(E), NEW id, NEW e \in Entries, attempts \in Nat,
         registry \in [Ids -> Entries \cup {None}]
  PROVE  LET C == ConnectById(id, E)
         IN  /\ Moves([C EXCEPT ![e] = ReconnectSettles(C[e])])
             /\ Moves([C EXCEPT ![e] = WithRetry(C[e])])
<1> DEFINE C == ConnectById(id, E)
           x == ReconnectSettles(C[e])
           y == WithRetry(C[e])
<1>1. Moves(C)
  BY ConnectByIdMoves
<1>. HIDE DEF C
<1>2. C[e] \in Sound(~Busy(e)) /\ C[e] \in Entry
  BY <1>1, LegalAt DEF Moves, Carried, Started
<1>3. x \in Sound(~Busy(e)) /\ Alike(C[e], x)
  BY <1>2, ReconnectSettlesSound, MarksAlike DEF ReconnectSettles
<1>4. y \in Sound(~Busy(e)) /\ Alike(C[e], y)
  <2>1. "none" \in SwapAt /\ (C[e].connect # "none") \in BOOLEAN
    BY DEF SwapAt
  <2>2. y \in Sound(~Busy(e))
    BY <1>2, <2>1, Marking DEF WithRetry
  <2>. QED BY <1>2, <2>2, MarksAlike DEF WithRetry
<1>. HIDE DEF x, y
<1>5. Moves([C EXCEPT ![e] = x]) /\ Moves([C EXCEPT ![e] = y])
  BY <1>1, <1>3, <1>4, MovesExcept
<1>. QED BY <1>5 DEF C, x, y

(* The continuations of settled tasks.                                     *)
LEMMA ContinueAccounted ==
  ASSUME IInv, Accounted, NEW e \in Entries, Continue(e)
  PROVE  Accounted'
<1>1. /\ entry \in Legal /\ entry[e].ready # <<>> /\ attempts \in Nat
      /\ registry \in [Ids -> Entries \cup {None}]
  BY DEF IInv, TypeOK, Continue, RetryAfterFailure, DisconnectAfterConnect, SwapContinues,
         RemoveAfterDisconnect, QueuedConnect, Awaken
<1> DEFINE R == Rest(e)
<1>2. Carried(R) /\ R[e] \in Sound(~Busy(e)) /\ R[e] \in Entry
  BY <1>1, RestCarried
<1>3. ASSUME NEW t \in Sound(~Busy(e)), Keeps(R[e], t), Install([R EXCEPT ![e] = t], {}),
             auth' = auth
      PROVE  Accounted'
  <2>. HIDE DEF R
  <2>1. Moves([R EXCEPT ![e] = t])
    BY <1>2, <1>3, CarriedExcept DEF Moves
  <2>. QED BY <1>3, <2>1, QuietPreserves
<1>4. CASE RetryAfterFailure(e)
  <2>1. Install([R EXCEPT ![e] = Rescheduled(R[e])], {}) /\ auth' = auth
    BY <1>4, Zenon DEF RetryAfterFailure, Update
  <2>. HIDE DEF R
  <2>2. Rescheduled(R[e]) \in Sound(~Busy(e)) /\ Keeps(R[e], Rescheduled(R[e]))
    BY <1>2, RescheduledSound, RescheduledKeeps
  <2>. QED BY <1>3, <2>1, <2>2
<1>5. CASE DisconnectAfterConnect(e)
  <2>1. Install([R EXCEPT ![e] = Draining(R[e], Busy(e))], {}) /\ auth' = auth
    BY <1>5, Zenon DEF DisconnectAfterConnect, Update
  <2>. HIDE DEF R
  <2>2. Draining(R[e], Busy(e)) \in Sound(~Busy(e)) /\ Keeps(R[e], Draining(R[e], Busy(e)))
    BY <1>2, DrainingSound, DrainingKeeps
  <2>. QED BY <1>3, <2>1, <2>2
<1>6. CASE SwapContinues(e)
  <2>1. /\ Install(IF entry[e].swap = "connect" THEN SwapProceeds(e, R)
                   ELSE SwapFinishes(e, R), {})
        /\ auth' = auth
    BY <1>6, Zenon DEF SwapContinues, Update
  <2>. HIDE DEF R
  <2>2. Moves(SwapProceeds(e, R)) /\ Moves(SwapFinishes(e, R))
    BY <1>1, <1>2, SwapProceedsMoves, SwapFinishesMoves
  <2>3. Moves(IF entry[e].swap = "connect" THEN SwapProceeds(e, R) ELSE SwapFinishes(e, R))
    BY <2>2
  <2>. QED BY <2>1, <2>3, QuietPreserves
<1>7. CASE RemoveAfterDisconnect(e)
  <2> DEFINE t == [R[e] EXCEPT !.removing = FALSE]
  <2>1. Install([R EXCEPT ![e].removing = FALSE], {}) /\ auth' = auth
    BY <1>7, Zenon DEF RemoveAfterDisconnect
  <2>2. [R EXCEPT ![e].removing = FALSE] = [R EXCEPT ![e] = t]
    OBVIOUS
  <2>3. "none" \in SwapAt
    BY DEF SwapAt
  <2>. HIDE DEF R
  <2>4. t \in Sound(~Busy(e)) /\ Keeps(R[e], t)
    BY <1>2, <2>3, Marking, MarksAlike, AlikeKeeps
  <2>. HIDE DEF t
  <2>. QED BY <1>3, <2>1, <2>2, <2>4
<1>8. CASE QueuedConnect(e)
  <2> DEFINE C == ConnectById(entry[e].owner, R)
  <2>1. Install([C EXCEPT ![e] = ReconnectSettles(C[e])], {}) /\ auth' = auth
    BY <1>8, Zenon DEF QueuedConnect, Update
  <2>. HIDE DEF R
  <2>2. Moves([C EXCEPT ![e] = ReconnectSettles(C[e])])
    BY <1>1, <1>2, ConnectMarked
  <2>. HIDE DEF C
  <2>. QED BY <2>1, <2>2, QuietPreserves
<1>. QED BY <1>4, <1>5, <1>6, <1>7, <1>8 DEF Continue

(* connect(), disconnect() and remove().                                   *)
LEMMA CallAccounted ==
  ASSUME IInv, Accounted, NEW id \in Ids, Connect(id) \/ Disconnect(id) \/ Remove(id)
  PROVE  Accounted'
<1> DEFINE e == registry[id]
           s == Disconnecting(entry[e], Busy(e))
<1>1. /\ entry \in Legal /\ attempts \in Nat /\ e \in Entries
      /\ registry \in [Ids -> Entries \cup {None}]
  BY DEF IInv, TypeOK, Connect, Disconnect, Remove
<1>2. entry[e] \in Sound(~Busy(e)) /\ entry[e] \in Entry
  BY <1>1, LegalAt
<1>3. CASE Connect(id)
  <2>1. Install(ConnectById(id, entry), {}) /\ auth' = auth
    BY <1>3, Zenon DEF Connect, Update
  <2>2. Moves(ConnectById(id, entry))
    BY <1>1, NothingCarried, ConnectByIdMoves
  <2>. QED BY <2>1, <2>2, QuietPreserves
<1>4. s \in Sound(~Busy(e)) /\ Keeps(entry[e], s) /\ s \in Entry
  BY <1>2, DisconnectingSound, DisconnectingKeeps, SoundIs
<1>5. CASE Disconnect(id)
  <2>1. Install([entry EXCEPT ![e] = s], {}) /\ auth' = auth
    BY <1>5, Zenon DEF Disconnect, DisconnectById, Update
  <2>. HIDE DEF s
  <2>. QED BY <1>1, <1>4, <2>1, KeptPreserves
<1>6. CASE Remove(id)
  <2> DEFINE r == [s EXCEPT !.removing = TRUE]
             x == [r EXCEPT !.ready = Append(r.ready, "remove")]
             y == [r EXCEPT !.onDisconnect = Append(r.onDisconnect, "remove")]
             t == IF s.disconnect = "none" THEN x ELSE y
  <2>1. "none" \in SwapAt /\ "remove" \in Continuations /\ TRUE \in BOOLEAN
    BY DEF SwapAt, Continuations
  <2>2. Install([entry EXCEPT ![e] = t], {}) /\ auth' = auth
    BY <1>6, Zenon DEF Remove, Update
  <2>. HIDE DEF s
  <2>3. r \in Sound(~Busy(e)) /\ Alike(s, r)
    BY <1>4, <2>1, Marking, MarksAlike
  <2>. HIDE DEF r
  <2>4. r \in Entry
    BY <2>3, SoundIs
  <2>5. x \in Sound(~Busy(e)) /\ y \in Sound(~Busy(e)) /\ Alike(r, x) /\ Alike(r, y)
    BY <2>1, <2>3, <2>4, Registering, MarksAlike
  <2>. HIDE DEF x, y
  <2>6. t \in Sound(~Busy(e)) /\ Keeps(entry[e], t)
    <3>1. Keeps(entry[e], r)
      BY <1>4, <2>3, AlikeKeeps, KeepsTrans
    <3>2. Keeps(entry[e], x) /\ Keeps(entry[e], y)
      BY <2>5, <3>1, AlikeKeeps, KeepsTrans
    <3>. QED BY <2>5, <3>2
  <2>. HIDE DEF t
  <2>. QED BY <1>1, <2>2, <2>6, KeptPreserves
<1>. QED BY <1>3, <1>5, <1>6

(* replace().                                                              *)
LEMMA ReplaceAccounted ==
  ASSUME IInv, Accounted, NEW id \in Ids, NEW d \in Defs, NEW cancel \in BOOLEAN,
         Replace(id, d, cancel)
  PROVE  Accounted'
<1> DEFINE e == registry[id]
           s == [entry[e] EXCEPT !.swapTo = d]
           E == [entry EXCEPT ![e] = s]
           t == [s EXCEPT !.swap = "connect"]
           u == [t EXCEPT !.onConnect = Append(t.onConnect, "swap")]
           F == [E EXCEPT ![e] = u]
           M == [E EXCEPT ![e].swap = "connect", ![e].onConnect = Append(@, "swap")]
           G == IF s.connect = "none" THEN SwapProceeds(e, E) ELSE M
<1>1. /\ entry \in Legal /\ attempts \in Nat /\ e \in Entries
      /\ registry \in [Ids -> Entries \cup {None}]
  BY DEF IInv, TypeOK, Replace
<1>2. entry[e] \in Sound(~Busy(e)) /\ entry[e] \in Entry
  BY <1>1, LegalAt
<1>3. /\ 0 \in Nat /\ "none" \in ConnectAt /\ "none" \in Streaks
      /\ entry[e].ready \in Seq(Continuations) /\ "connect" \in SwapAt
      /\ "swap" \in Continuations /\ TRUE \in BOOLEAN
  BY <1>2 DEF ConnectAt, Streaks, SwapAt, Continuations, Entry
<1>4. s \in Sound(~Busy(e)) /\ Keeps(entry[e], s) /\ s \in Entry
  BY <1>2, <1>3, Recording, MarksAlike, AlikeKeeps, SoundIs
<1>5. Install(G, {}) /\ auth' = auth
  BY Zenon DEF Replace, Update
<1>6. M = F
  <2>1. entry \in [Entries -> Entry]
    BY <1>1 DEF Legal
  <2>. HIDE DEF s
  <2>. QED BY <1>1, <2>1
<1>. HIDE DEF s
<1>7. Carried(E) /\ E[e] = s
  BY <1>1, <1>4, NothingCarried, CarriedExcept
<1>. HIDE DEF E
<1>8. Moves(SwapProceeds(e, E))
  BY <1>1, <1>7, SwapProceedsMoves
<1>9. t \in Sound(~Busy(e)) /\ Alike(s, t)
  BY <1>3, <1>4, Marking, MarksAlike
<1>. HIDE DEF t
<1>10. u \in Sound(~Busy(e)) /\ Alike(t, u)
  BY <1>3, <1>9, Registering, MarksAlike, SoundIs
<1>. HIDE DEF u
<1>11. Keeps(s, u)
  BY <1>9, <1>10, AlikeKeeps, KeepsTrans
<1>12. Moves(F)
  BY <1>1, <1>7, <1>10, <1>11, CarriedExcept DEF Moves
<1>13. Moves(G)
  <2>. HIDE DEF F, M
  <2>. QED BY <1>6, <1>8, <1>12
<1>. HIDE DEF G
<1>. QED BY <1>5, <1>13, QuietPreserves

(* The reconnect timer, a lost session and the passing of time.            *)
LEMMA EventAccounted ==
  ASSUME IInv, Accounted, NEW e \in Entries, ReconnectFires(e) \/ SessionLost(e) \/ TimePasses(e)
  PROVE  Accounted'
<1> DEFINE s == entry[e]
<1>1. /\ s \in Sound(~Busy(e)) /\ s \in Entry /\ entry \in Legal /\ attempts \in Nat
      /\ s.def \in Defs /\ s.ready \in Seq(Continuations) /\ s.session \in Nat
      /\ registry \in [Ids -> Entries \cup {None}]
  BY LegalAt DEF IInv, TypeOK, Entry
<1>2. /\ 0 \in Nat /\ "none" \in ConnectAt /\ "none" \in SwapAt
      /\ "elapsed" \in Streaks /\ FALSE \in BOOLEAN
  BY DEF ConnectAt, SwapAt, Streaks
<1>3. CASE ReconnectFires(e)
  <2> DEFINE u == [s EXCEPT !.timer = FALSE]
             E == [entry EXCEPT ![e] = u]
             C == ConnectById(E[e].owner, E)
             F == [C EXCEPT ![e] = WithRetry(C[e])]
             G == IF TimerConnects(E[e]) THEN F ELSE E
  <2>1. u \in Sound(~Busy(e)) /\ Keeps(s, u)
    BY <1>1, <1>2, Marking, MarksAlike, AlikeKeeps
  <2>2. Install(G, {}) /\ auth' = auth
    BY <1>3, Zenon DEF ReconnectFires, Update
  <2>. HIDE DEF u
  <2>3. Carried(E)
    BY <1>1, <2>1, NothingCarried, CarriedExcept
  <2>. HIDE DEF E
  <2>4. Moves(F)
    BY <1>1, <2>3, ConnectMarked
  <2>. HIDE DEF F
  <2>5. Moves(G)
    BY <2>3, <2>4 DEF Moves
  <2>. HIDE DEF G
  <2>. QED BY <2>2, <2>5, QuietPreserves
<1>4. CASE SessionLost(e)
  <2> DEFINE c == s.session
             t == Lost(s, c)
  <2>1. Install([entry EXCEPT ![e] = t], {c}) /\ auth' = auth /\ c \in live
    BY <1>4, Zenon DEF SessionLost, Update
  <2>2. c # 0 /\ Proper(s) /\ c \in Places(s) \cup {0}
    <3>1. live \subseteq 1..attempts
      BY DEF Accounted, Holdings
    <3>. QED BY <2>1, <3>1, OtherPlaces
  <2>3. t \in Sound(~Busy(e)) /\ Keeps(s, t) /\ c \notin Needs(t)
    BY <1>1, <2>2, LostSound, LostKeeps
  <2>. HIDE DEF t, c
  <2>. QED BY <2>1, <2>2, <2>3, EntryPreserves
<1>5. CASE TimePasses(e)
  <2> DEFINE t == [s EXCEPT !.streak = "elapsed"]
  <2>1. Install([entry EXCEPT ![e] = t], {}) /\ auth' = auth
    BY <1>5, Zenon DEF TimePasses, Update
  <2>. HIDE DEF s
  <2>2. t \in Sound(~Busy(e))
    BY <1>1, <1>2, Recording
  <2>3. Alike(s, t)
    <3>1. s \in Entry
      BY <1>1
    <3>. QED BY <3>1, MarksAlike
  <2>. HIDE DEF t
  <2>4. Keeps(s, t)
    BY <2>3, AlikeKeeps
  <2>. QED BY <2>1, <2>2, <2>4, KeptPreserves, Zenon DEF s
<1>. QED BY <1>3, <1>4, <1>5

----------------------------------------------------------------------------
(* The operations.                                                         *)

(* A step that begins no attempt and opens and closes no client.           *)
LEMMA PlainInstall ==
  ASSUME IInv, Accounted, NEW e \in Entries, NEW t, t.attempt = 0 \/ t = entry[e],
         entry' = [entry EXCEPT ![e] = t], UNCHANGED <<attempts, live>>
  PROVE  Install([entry EXCEPT ![e] = t], {})
<1> DEFINE E == [entry EXCEPT ![e] = t]
<1>1. \A f \in Entries : entry[f].attempt \in Nat /\ entry[f].attempt <= attempts
  <2> TAKE f \in Entries
  <2>1. entry[f] \in Entry
    BY LegalAt DEF IInv
  <2>. QED BY <2>1 DEF Entry, Accounted, Holdings, Owned
<1>2. attempts \in Nat /\ entry \in [Entries -> Entry]
  BY DEF IInv, TypeOK
<1>3. \A f \in Entries : E[f] = t \/ E[f] = entry[f]
  BY <1>2
<1>. HIDE DEF E
<1>4. \A f \in Entries : E[f].attempt # attempts + 1
  BY <1>1, <1>2, <1>3
<1>. QED BY <1>4 DEF Install, E

LEMMA SameAccounted ==
  ASSUME Accounted, UNCHANGED <<entry, attempts, live, auth>>
  PROVE  Accounted'
BY DEF Accounted, Holdings, Owned, Closings, Parking, Completes

(* A usable connection stays one, with a catalog or without.               *)
LEMMA UsableKeeps ==
  ASSUME NEW s \in Entry, Usable(s), NEW p \in {"online", "degraded"}, NEW n \in Nat
  PROVE  Keeps(s, Transition(s, p)) /\ Keeps(s, Transition([s EXCEPT !.catalog = n], p))
<1>1. ASSUME NEW u \in Entry, Alike(s, u) PROVE Keeps(s, Transition(u, p))
  <2> DEFINE t == Transition(u, p)
  <2>1. IsTransition(u, t, p)
    BY <1>1, TransitionFields
  <2>. HIDE DEF t
  <2>2. /\ SameClients(s, t) /\ t.connect = s.connect /\ t.attempt = s.attempt
        /\ t.phase = p
    BY <1>1, <2>1 DEF Alike, IsTransition, SameClients, SameConnect
  <2>3. Trial(t) = Trial(s) /\ Usable(t) /\ ~Waits(t)
    BY <2>2 DEF Trial, Usable, Waits
  <2>4. Proper(s) => Proper(t)
    BY <2>2, <2>3 DEF SameClients, Proper, Apart
  <2>5. Places(t) = Places(s) /\ Needs(t) = Needs(s)
    BY <2>2, <2>3 DEF SameClients, Places, Needs
  <2>. QED BY <2>2, <2>3, <2>4, <2>5 DEF Keeps, t
<1>2. [s EXCEPT !.catalog = n] \in Entry
  BY ZenonT(60) DEF Entry
<1>3. Alike(s, s) /\ Alike(s, [s EXCEPT !.catalog = n])
  BY MarksAlike DEF Alike, SameClients
<1>. QED BY <1>1, <1>2, <1>3

(* The end of an operation.                                                *)
LEMMA OpEndsAccounted ==
  ASSUME IInv, Accounted, NEW o \in Ops, OpEnds(o)
  PROVE  Accounted'
<1> DEFINE e == op[o].entry
           s == entry[e]
           c == op[o].session
<1>1. /\ e \in Entries /\ c \in Nat /\ op[o].gen \in Nat /\ entry \in Legal
      /\ auth' = auth
  BY DEF IInv, TypeOK, Operation, OpEnds, OpReturns, OpRefreshCommits, OpRefreshFails,
         OpExpires, RefreshExpires, Running
<1>2. s \in Sound(~Busy(e)) /\ s \in Entry
  BY <1>1, LegalAt
<1>3. CASE OpReturns(o)
  BY <1>3, SameAccounted DEF OpReturns
<1>4. ASSUME Authority(o), NEW p \in {"online", "degraded"}, Commit(o, p)
      PROVE  Accounted'
  <2> DEFINE u == [s EXCEPT !.catalog = op[o].gen]
             t == Transition(u, p)
  <2>1. s.gen = op[o].gen /\ Usable(s)
    BY <1>4, Zenon DEF Authority
  <2>2. Install([entry EXCEPT ![e] = t], {})
    BY <1>4, Zenon DEF Commit
  <2>3. Keeps(s, t)
    BY <1>1, <1>2, <2>1, UsableKeeps
  <2>4. u \in Entry
    BY <1>1, <1>2, ZenonT(60) DEF Entry
  <2>5. /\ u.phase = s.phase /\ u.gen = s.gen /\ u.catalog = op[o].gen
        /\ u.disconnect = s.disconnect
    BY <1>2, ZenonT(60) DEF Entry
  <2>. HIDE DEF u
  <2>6. u \in Sound(~Busy(e)) /\ p \in Phases
    BY <1>2, <2>1, <2>4, <2>5 DEF Sound, CatalogOK, Usable, Phases
  <2>7. t \in Sound(~Busy(e))
    BY <2>6, TransitionSound
  <2>. HIDE DEF t
  <2>. QED BY <1>1, <2>2, <2>3, <2>7, KeptPreserves
<1>5. CASE OpRefreshCommits(o)
  BY <1>4, <1>5 DEF OpRefreshCommits
<1>6. CASE RefreshExpires(o)
  BY <1>4, <1>6 DEF RefreshExpires
<1>7. CASE OpRefreshFails(o)
  <2> DEFINE t == Transition(s, "degraded")
  <2>1. Usable(s) /\ "degraded" \in Phases
    BY <1>7, Zenon DEF OpRefreshFails, Authority, Phases
  <2>2. Install([entry EXCEPT ![e] = t], {})
    BY <1>7, Zenon DEF OpRefreshFails
  <2>3. t \in Sound(~Busy(e)) /\ Keeps(s, t)
    BY <1>1, <1>2, <2>1, UsableKeeps, TransitionSound
  <2>. HIDE DEF t
  <2>. QED BY <1>1, <2>2, <2>3, KeptPreserves
<1>8. CASE OpExpires(o)
  <2> DEFINE t == Lost(s, c)
             dead == IF t = s THEN {} ELSE {c}
  <2>1. Install([entry EXCEPT ![e] = t], dead)
    BY <1>8, Zenon DEF OpExpires
  <2>2. t \in Sound(~Busy(e)) /\ Keeps(s, t)
    BY <1>1, <1>2, LostSound, LostKeeps
  <2>3. CASE t = s
    <3>1. Install([entry EXCEPT ![e] = t], {})
      BY <2>1, <2>3
    <3>. HIDE DEF t
    <3>. QED BY <1>1, <2>2, <3>1, KeptPreserves
  <2>4. CASE t # s
    <3>1. Install([entry EXCEPT ![e] = t], {c})
      BY <2>1, <2>4
    <3>2. s.session = c
      BY <2>4 DEF Lost
    <3>3. Proper(s) /\ c \in Places(s) \cup {0} /\ (c # 0 => c \notin Needs(t))
      BY <1>1, <1>2, <3>2, OtherPlaces, LostKeeps
    <3>4. 0 \notin Needs(t)
      <4>1. Needs(s) \subseteq 1..attempts
        BY <1>1 DEF Accounted, Holdings, Owned
      <4>. HIDE DEF t
      <4>. QED BY <2>2, <3>3, <4>1 DEF Keeps
    <3>. HIDE DEF t
    <3>. QED BY <1>1, <2>2, <3>1, <3>3, <3>4, EntryPreserves
  <2>. QED BY <2>3, <2>4
<1>. QED BY <1>3, <1>5, <1>6, <1>7, <1>8 DEF OpEnds

----------------------------------------------------------------------------
(* The completions of authorizations.                                      *)

(* A completion that is noted, and releases nothing.                       *)
LEMMA NotedAccounted ==
  ASSUME IInv, Accounted, NEW k \in Callers, auth[k].at \notin {"completed", "failed"},
         NEW r, r.closing = 0 \/ r.closing = auth[k].closing, auth' = [auth EXCEPT ![k] = r],
         UNCHANGED <<entry, attempts, live>>
  PROVE  Accounted'
<1>1. auth' \in [Callers -> {auth[j] : j \in Callers} \cup {r}]
      /\ auth'[k] = r /\ \A j \in Callers \ {k} : auth'[j] = auth[j]
  BY DEF IInv, TypeOK
<1>2. Holdings'
  BY DEF Accounted, Holdings, Owned
<1>3. Closings'
  <2> SUFFICES ASSUME NEW j \in Callers, NEW f \in Entries
               PROVE  /\ auth'[j].closing \in 0..attempts
                      /\ auth'[j].closing \notin Places(entry[f])
    BY DEF Closings
  <2>1. \A i \in Callers : /\ auth[i].closing \in 0..attempts
                           /\ auth[i].closing \notin Places(entry[f])
    BY DEF Accounted, Closings
  <2>2. 0 \in 0..attempts /\ 0 \notin Places(entry[f])
    BY DEF Places, IInv, TypeOK
  <2>. QED BY <1>1, <2>1, <2>2
<1>4. Parking'
  <2> SUFFICES ASSUME NEW f \in Entries, Waits(entry[f])
               PROVE  \E j \in Callers : Completes(j, f)'
    BY DEF Parking
  <2>1. PICK j \in Callers : Completes(j, f)
    BY DEF Accounted, Parking
  <2>2. j # k
    BY <2>1 DEF Completes
  <2>. QED BY <1>1, <2>1, <2>2 DEF Completes
<1>. QED BY <1>2, <1>3, <1>4 DEF Accounted

(* The round is decided: the client that is parked passes from the entry to*)
(* the completion, which closes it.                                        *)
LEMMA ReleasedAccounted ==
  ASSUME IInv, Accounted, NEW k \in Callers, auth[k].at \notin {"completed", "failed"},
         NEW e \in Entries, NEW r, r.entry = e, r.at \in {"completed", "failed"},
         r.closing = entry[e].pending, auth' = [auth EXCEPT ![k] = r],
         Install([entry EXCEPT ![e].pending = 0], {})
  PROVE  Accounted'
<1> DEFINE s == entry[e]
           t == [s EXCEPT !.pending = 0]
           E == [entry EXCEPT ![e] = t]
<1>1. /\ entry \in Legal /\ attempts \in Nat /\ s \in Entry /\ entry \in [Entries -> Entry]
      /\ auth \in [Callers -> Round \cup {IdleAuth}]
  BY LegalAt DEF IInv, TypeOK
<1>2. /\ t.phase = s.phase /\ t.connect = s.connect /\ t.attempt = s.attempt
      /\ t.session = s.session /\ t.pending = 0 /\ t.cleanup = s.cleanup
      /\ t.releasing = s.releasing
  BY <1>1, ZenonT(60) DEF Entry
<1>3. Install(E, {})
  OBVIOUS
<1>4. E[e] = t /\ \A f \in Entries \ {e} : E[f] = entry[f]
  BY <1>1
<1>. HIDE DEF E, t
<1>5. \A f \in Entries : entry[f].attempt \in Nat /\ Owned(f)
  <2> TAKE f \in Entries
  <2>1. entry[f] \in Entry
    BY <1>1
  <2>. QED BY <2>1 DEF Entry, Accounted, Holdings
<1>6. \A f \in Entries : E[f].attempt \in Nat /\ E[f].attempt <= attempts
  BY <1>2, <1>4, <1>5 DEF Owned
<1>7. entry' = E /\ attempts' = attempts /\ live' = live
  <2>1. entry' = E /\ attempts' = attempts /\ live' = live \ {}
    BY <1>1, <1>3, <1>6, InstallQuiet
  <2>. QED BY <2>1
<1>8. Trial(t) = Trial(s) /\ (Usable(t) <=> Usable(s))
  BY <1>2 DEF Trial, Usable
<1>9. /\ Proper(t) /\ Places(t) \subseteq Places(s) /\ Needs(t) \subseteq Needs(s)
      /\ s.pending \notin Places(t)
  <2>1. Proper(s)
    BY <1>5 DEF Owned
  <2>2. Proper(t)
    BY <1>2, <1>8, <2>1 DEF Proper, Apart
  <2>3. Places(t) \subseteq Places(s) /\ Needs(t) \subseteq Needs(s)
    BY <1>2, <1>8 DEF Places, Needs
  <2>4. s.pending \notin Places(t)
    BY <1>2, <1>8, <2>1 DEF Proper, Apart, Places
  <2>. QED BY <2>2, <2>3, <2>4
<1>10. \A f \in Entries : Places(E[f]) \subseteq Places(entry[f])
  BY <1>4, <1>9
<1>11. Holdings'
  <2>1. \A f \in Entries : Owned(f)'
    <3> TAKE f \in Entries
    <3>1. Owned(f) /\ Owned(e)
      BY <1>5
    <3>2. CASE f = e
      BY <1>2, <1>4, <1>7, <1>9, <3>1, <3>2 DEF Owned
    <3>3. CASE f # e
      BY <1>4, <1>7, <3>1, <3>3 DEF Owned
    <3>. QED BY <3>2, <3>3
  <2>2. \A f, h \in Entries : f # h => Places(E[f]) \cap Places(E[h]) = {}
    BY <1>10 DEF Accounted, Holdings
  <2>3. live \subseteq 1..attempts
    BY DEF Accounted, Holdings
  <2>. QED BY <1>7, <2>1, <2>2, <2>3 DEF Holdings
<1>12. auth'[k] = r /\ \A j \in Callers \ {k} : auth'[j] = auth[j]
  BY <1>1
<1>13. \A f \in Entries : s.pending \in 0..attempts /\ s.pending \notin Places(E[f])
  <2> TAKE f \in Entries
  <2>1. Places(s) \subseteq 1..attempts /\ (s.pending = 0 \/ s.pending \in Places(s))
    BY <1>5 DEF Owned, Places
  <2>2. s.pending \in 0..attempts
    BY <1>1, <2>1
  <2>3. s.pending = 0 => s.pending \notin Places(E[f])
    BY DEF Places
  <2>4. f # e => Places(entry[f]) \cap Places(s) = {}
    BY DEF Accounted, Holdings
  <2>. QED BY <1>4, <1>9, <2>1, <2>2, <2>3, <2>4
<1>14. Closings'
  <2> SUFFICES ASSUME NEW j \in Callers, NEW f \in Entries
               PROVE  /\ auth'[j].closing \in 0..attempts
                      /\ auth'[j].closing \notin Places(E[f])
    BY <1>7 DEF Closings
  <2>1. auth[j].closing \in 0..attempts /\ auth[j].closing \notin Places(entry[f])
    BY DEF Accounted, Closings
  <2>. QED BY <1>10, <1>12, <1>13, <2>1
<1>15. Parking'
  <2> SUFFICES ASSUME NEW f \in Entries, Waits(E[f])
               PROVE  \E j \in Callers : Completes(j, f)'
    BY <1>7 DEF Parking
  <2>1. CASE f = e
    BY <1>12, <2>1 DEF Completes
  <2>2. CASE f # e
    <3>1. PICK j \in Callers : Completes(j, f)
      BY <1>4, <2>2 DEF Accounted, Parking
    <3>2. j # k
      BY <3>1 DEF Completes
    <3>. QED BY <1>12, <3>1, <3>2 DEF Completes
  <2>. QED BY <2>1, <2>2
<1>. QED BY <1>11, <1>14, <1>15 DEF Accounted

(* The call.                                                               *)
LEMMA CompleteAuthAccounted ==
  ASSUME IInv, Accounted, NEW k \in Callers, NEW id \in Ids, CompleteAuth(k, id)
  PROVE  Accounted'
<1> DEFINE e == registry[id]
           round == [entry |-> e, at |-> "verify", closing |-> 0]
<1>1. e \in Entries /\ auth[k] = IdleAuth
  BY DEF IInv, TypeOK, CompleteAuth
<1>2. auth[k].at \notin {"completed", "failed"} /\ auth[k].closing = 0
  BY <1>1 DEF IdleAuth
<1>3. CASE auth' = [auth EXCEPT ![k] = round] /\ UNCHANGED <<entry, attempts, live>>
  <2> DEFINE r == round
  <2>1. r.closing = 0
    OBVIOUS
  <2>2. auth' = [auth EXCEPT ![k] = r]
    BY <1>3
  <2>. HIDE DEF r
  <2>. QED BY <1>2, <1>3, <2>1, <2>2, NotedAccounted
<1>4. CASE Releasing(k, [round EXCEPT !.at = "failed"])
  <2> DEFINE x == [round EXCEPT !.at = "failed"]
             r == [entry |-> e, at |-> "failed", closing |-> entry[e].pending]
  <2>1. x = [entry |-> e, at |-> "failed", closing |-> 0]
    <3>. HIDE DEF e
    <3>. QED OBVIOUS
  <2>2. x.entry = e /\ [x EXCEPT !.closing = entry[e].pending] = r
    <3>. HIDE DEF x, e
    <3>. QED BY <2>1
  <2>3. auth' = [auth EXCEPT ![k] = r] /\ Install([entry EXCEPT ![e].pending = 0], {})
    <3>. HIDE DEF x, r
    <3>. QED BY <1>4, <2>2 DEF Releasing, x
  <2>4. r.entry = e /\ r.at \in {"completed", "failed"} /\ r.closing = entry[e].pending
    OBVIOUS
  <2>. HIDE DEF r, e
  <2>. QED BY <1>1, <1>2, <2>3, <2>4, ReleasedAccounted
<1>. QED BY <1>3, <1>4, Zenon DEF CompleteAuth

(* What a handler leaves of an entry that a connect by id may concern.     *)
LEMMA ConnectByIdAt ==
  ASSUME NEW E, Carried(E), NEW id, NEW f \in Entries, attempts \in Nat,
         registry \in [Ids -> Entries \cup {None}]
  PROVE  LET t == ConnectById(id, E)[f]
         IN  Keeps(E[f], t) \/ Begins(E[f], t, attempts + 1)
<1> DEFINE e == Lookup(id)
           C == ConnectById(id, E)
<1>1. CASE closed \/ e = None
  <2>1. C = E
    BY <1>1 DEF ConnectById
  <2>. QED BY <2>1, KeepsSelf
<1>2. CASE ~(closed \/ e = None)
  <2> DEFINE t == Connected(E[e], Busy(e), attempts + 1)
  <2>1. e \in Entries /\ attempts + 1 \in Nat \ {0}
    BY <1>2, LookupRegistered
  <2>2. C = [E EXCEPT ![e] = t]
    BY <1>2 DEF ConnectById
  <2>. HIDE DEF e, C
  <2>3. E[e] \in Sound(~Busy(e)) /\ E \in [Entries -> Entry]
    BY <2>1, LegalAt DEF Carried
  <2>4. Keeps(E[e], t) \/ Begins(E[e], t, attempts + 1)
    BY <2>1, <2>3, ConnectedMoves
  <2>. HIDE DEF t
  <2>5. CASE f = e
    BY <2>2, <2>3, <2>4, <2>5 DEF C
  <2>6. CASE f # e
    <3>1. C[f] = E[f]
      BY <2>2, <2>3, <2>6
    <3>. QED BY <3>1, KeepsSelf DEF C
  <2>. QED BY <2>5, <2>6
<1>. QED BY <1>1, <1>2

(* The released client is closed, and the connection moves on.             *)
LEMMA AuthSettlesAccounted ==
  ASSUME IInv, Accounted, NEW k \in Callers, AuthSettles(k)
  PROVE  Accounted'
<1> DEFINE e == auth[k].entry
           s == entry[e]
           c == auth[k].closing
           t == AuthOutcome(s, auth[k].at)
           E == [entry EXCEPT ![e] = t]
           F == IF auth[k].at = "failed" THEN E ELSE ConnectById(E[e].owner, E)
<1>1. /\ entry \in Legal /\ attempts \in Nat /\ Holdings
      /\ registry \in [Ids -> Entries \cup {None}]
      /\ auth \in [Callers -> Round \cup {IdleAuth}]
  BY DEF IInv, TypeOK, Accounted
<1>2. auth[k] \in Round /\ e \in Entries /\ auth[k].at \in {"completed", "failed"}
  BY <1>1 DEF AuthSettles, IdleAuth, Round
<1>3. s \in Sound(~Busy(e)) /\ s \in Entry
  BY <1>1, <1>2, LegalAt
<1>4. /\ Install(F, {c}) /\ auth' = [auth EXCEPT ![k] = IdleAuth]
  BY Zenon DEF AuthSettles
<1>5. t \in Sound(~Busy(e)) /\ Keeps(s, t) /\ ~Waits(t)
  <2> DEFINE p == IF auth[k].at = "failed" THEN "failed" ELSE "offline"
  <2>1. p \in Down /\ p \in Phases /\ t = Transition(s, p) /\ p # "authorizing"
    BY DEF AuthOutcome, Down, Phases
  <2>. HIDE DEF p, t
  <2>2. IsTransition(s, t, p)
    BY <1>3, <2>1, TransitionFields
  <2>3. ~Waits(t)
    BY <2>1, <2>2 DEF IsTransition, Waits
  <2>. QED BY <1>3, <2>1, <2>3, TransitionSound, TransitionKeeps
<1>. HIDE DEF t
<1>6. Carried(E) /\ E[e] = t
  BY <1>1, <1>2, <1>5, NothingCarried, CarriedExcept
<1>. HIDE DEF E
<1>7. Moves(F)
  BY <1>1, <1>6, ConnectByIdMoves DEF Moves
<1>8. ~Waits(F[e])
  <2>1. Proper(t) /\ attempts + 1 \notin Places(t)
    <3>1. Proper(s) /\ Places(s) \subseteq 1..attempts
      BY <1>1, <1>2 DEF Holdings, Owned
    <3>. QED BY <1>1, <1>5, <3>1 DEF Keeps
  <2>2. Keeps(t, F[e]) \/ Begins(t, F[e], attempts + 1)
    <3>1. CASE auth[k].at = "failed"
      BY <1>6, <3>1, KeepsSelf
    <3>2. CASE auth[k].at # "failed"
      BY <1>1, <1>2, <1>6, <3>2, ConnectByIdAt
    <3>. QED BY <3>1, <3>2
  <2>. HIDE DEF F
  <2>. QED BY <1>5, <2>1, <2>2 DEF Keeps, Begins
<1>. HIDE DEF F
<1>9. \A j \in Callers, f \in Entries :
        auth[j].closing \in 0..attempts /\ auth[j].closing \notin Places(entry[f])
  BY DEF Accounted, Closings
<1>10. \A f \in Entries : Needs(F[f]) \cap {c} = {}
  <2> SUFFICES ASSUME NEW f \in Entries PROVE c \notin Needs(F[f])
    OBVIOUS
  <2>1. Needs(F[f]) \subseteq Places(entry[f]) \cup {attempts + 1}
    BY <1>1, <1>7, MovesNeeds
  <2>2. c # attempts + 1 /\ c \notin Places(entry[f])
    BY <1>1, <1>9
  <2>. QED BY <2>1, <2>2
<1>11. /\ Holdings' /\ attempts' \in Nat /\ attempts <= attempts'
       /\ \A f \in Entries : /\ Places(entry[f])' \subseteq Places(entry[f]) \cup {attempts + 1}
                             /\ Waits(entry[f])' => Waits(entry[f])
  BY <1>1, <1>4, <1>7, <1>10, HoldingsStep
<1>12. /\ auth'[k] = IdleAuth /\ IdleAuth.closing = 0
       /\ \A j \in Callers \ {k} : auth'[j] = auth[j]
  BY <1>1, <1>4 DEF IdleAuth
<1>13. Closings'
  <2> SUFFICES ASSUME NEW j \in Callers, NEW f \in Entries
               PROVE  /\ auth'[j].closing \in 0..attempts'
                      /\ auth'[j].closing \notin Places(entry[f])'
    BY DEF Closings
  <2>1. CASE j = k
    <3>1. 0 \notin Places(entry[f])'
      BY DEF Places
    <3>2. 0 \in 0..attempts'
      BY <1>11
    <3>. QED BY <1>12, <2>1, <3>1, <3>2
  <2>2. CASE j # k
    <3>1. auth'[j] = auth[j]
      BY <1>12, <2>2
    <3>2. auth[j].closing # attempts + 1 /\ auth[j].closing \in 0..attempts'
      BY <1>1, <1>9, <1>11
    <3>. QED BY <1>9, <1>11, <3>1, <3>2
  <2>. QED BY <2>1, <2>2
<1>14. Parking'
  <2> SUFFICES ASSUME NEW f \in Entries, Waits(entry[f])'
               PROVE  \E j \in Callers : Completes(j, f)'
    BY DEF Parking
  <2>1. PICK j \in Callers : Completes(j, f)
    BY <1>11 DEF Accounted, Parking
  <2>2. entry' = F
    BY <1>4 DEF Install
  <2>3. j # k
    BY <1>8, <2>1, <2>2 DEF Completes
  <2>. QED BY <1>12, <2>1, <2>3 DEF Completes
<1>. QED BY <1>11, <1>13, <1>14 DEF Accounted

(* The further steps of a completion.                                      *)
LEMMA AuthAdvancesAccounted ==
  ASSUME IInv, Accounted, NEW k \in Callers, AuthAdvances(k)
  PROVE  Accounted'
<1>1. auth[k] \in Round /\ auth[k].entry \in Entries
  BY DEF IInv, TypeOK, AuthAdvances, AuthVerified, AuthExchanged, AuthSettles, IdleAuth, Round
<1>2. CASE AuthVerified(k)
  <2>1. PICK r \in {IdleAuth, [auth[k] EXCEPT !.at = "exchange"]} :
          auth' = [auth EXCEPT ![k] = r]
    BY <1>2 DEF AuthVerified
  <2>2. r.closing = 0 \/ r.closing = auth[k].closing
    BY <1>1 DEF IdleAuth, Round
  <2>3. auth[k].at = "verify" /\ UNCHANGED <<entry, attempts, live>>
    BY <1>2 DEF AuthVerified
  <2>. QED BY <2>1, <2>2, <2>3, NotedAccounted
<1>3. CASE AuthExchanged(k)
  <2> DEFINE e == auth[k].entry
  <2>1. PICK at \in {"completed", "failed"} : Releasing(k, [auth[k] EXCEPT !.at = at])
    BY <1>3 DEF AuthExchanged
  <2> DEFINE x == [auth[k] EXCEPT !.at = at]
             r == [x EXCEPT !.closing = entry[e].pending]
  <2>2. /\ x.entry = e /\ r.entry = e /\ r.at = at /\ r.closing = entry[e].pending
    BY <1>1 DEF Round
  <2>. HIDE DEF x
  <2>3. auth' = [auth EXCEPT ![k] = r] /\ Install([entry EXCEPT ![e].pending = 0], {})
    BY <2>1, <2>2 DEF Releasing, x
  <2>4. auth[k].at = "exchange" /\ e \in Entries
    BY <1>1, <1>3 DEF AuthExchanged
  <2>. HIDE DEF r, e
  <2>. QED BY <2>2, <2>3, <2>4, ReleasedAccounted
<1>4. CASE AuthSettles(k)
  BY <1>4, AuthSettlesAccounted
<1>. QED BY <1>2, <1>3, <1>4 DEF AuthAdvances

----------------------------------------------------------------------------
(* Registration, close() and the beginning.                                *)

(* An entry that holds nothing.                                            *)
LEMMA FreshHolds ==
  ASSUME NEW id, NEW d
  PROVE  LET t == Fresh(id, d)
         IN  /\ Proper(t) /\ t.attempt = 0 /\ t.connect = "none"
             /\ Places(t) = {} /\ Needs(t) = {} /\ ~Waits(t)
<1> DEFINE t == Fresh(id, d)
<1>1. /\ t.phase = "offline" /\ t.connect = "none" /\ t.attempt = 0
      /\ t.session = 0 /\ t.pending = 0 /\ t.cleanup = 0 /\ t.releasing = 0
  BY DEF Fresh
<1>. HIDE DEF t
<1>2. Trial(t) = 0 /\ ~Usable(t) /\ ~Waits(t)
  BY <1>1 DEF Trial, Usable, Waits
<1>3. Proper(t) /\ Places(t) = {} /\ Needs(t) = {}
  BY <1>1, <1>2 DEF Proper, Apart, Places, Needs
<1>. QED BY <1>1, <1>2, <1>3 DEF t

LEMMA RegisterAccounted ==
  ASSUME IInv, Accounted, NEW id \in Ids, NEW d \in Defs, Register(id, d)
  PROVE  Accounted'
<1>1. PICK e \in Entries : entry' = [entry EXCEPT ![e] = Fresh(id, d)]
  BY DEF Register
<1>2. UNCHANGED <<auth, attempts, live>>
  BY DEF Register
<1> DEFINE t == Fresh(id, d)
<1>3. t \in Sound(~Busy(e))
  BY FreshSound
<1>4. /\ Proper(t) /\ t.attempt = 0 /\ t.connect = "none"
      /\ Places(t) = {} /\ Needs(t) = {} /\ ~Waits(t)
  BY FreshHolds
<1>5. entry' = [entry EXCEPT ![e] = t]
  BY <1>1
<1>. HIDE DEF t
<1>6. Keeps(entry[e], t)
  BY <1>4 DEF Keeps
<1>7. Install([entry EXCEPT ![e] = t], {})
  BY <1>2, <1>4, <1>5, PlainInstall
<1>. QED BY <1>2, <1>3, <1>6, <1>7, KeptPreserves

LEMMA CloseAccounted ==
  ASSUME IInv, Accounted, Close
  PROVE  Accounted'
<1> DEFINE D(e) == IF Registered(e) THEN Disconnecting(entry[e], Busy(e)) ELSE entry[e]
           E == [e \in Entries |-> D(e)]
<1>1. entry \in Legal /\ auth' = auth
  BY DEF IInv, Close
<1>2. Install(E, {})
  BY Zenon DEF Close
<1>3. \A e \in Entries : D(e) \in Sound(~Busy(e)) /\ Keeps(entry[e], D(e))
  BY <1>1, LegalAt, DisconnectingSound, DisconnectingKeeps, KeepsSelf
<1>. HIDE DEF D
<1>4. E \in Legal
  BY <1>3 DEF Legal, Sound
<1>5. Moves(E)
  BY <1>3, <1>4 DEF Moves, Carried
<1>. HIDE DEF E
<1>. QED BY <1>1, <1>2, <1>5, QuietPreserves

LEMMA InitAccounted == Init => Accounted
<1> SUFFICES ASSUME Init PROVE Accounted
  OBVIOUS
<1> DEFINE t == Fresh(None, CHOOSE d \in Defs : TRUE)
<1>1. /\ Proper(t) /\ t.attempt = 0 /\ t.connect = "none"
      /\ Places(t) = {} /\ Needs(t) = {} /\ ~Waits(t)
  BY FreshHolds
<1>2. \A e \in Entries : entry[e] = t
  BY DEF Init
<1>. HIDE DEF t
<1>3. attempts = 0 /\ live = {} /\ \A k \in Callers : auth[k].closing = 0
  BY DEF Init, IdleAuth
<1>4. Holdings
  BY <1>1, <1>2, <1>3 DEF Holdings, Owned
<1>5. Closings
  BY <1>1, <1>2, <1>3 DEF Closings
<1>6. Parking
  BY <1>1, <1>2 DEF Parking
<1>. QED BY <1>4, <1>5, <1>6 DEF Accounted

(* Every step preserves the invariant.                                     *)
LEMMA NextAccounted == IInv /\ Accounted /\ [Next]_vars => Accounted'
<1> SUFFICES ASSUME IInv, Accounted, [Next]_vars
             PROVE  Accounted'
  OBVIOUS
<1>1. ASSUME HostCall PROVE Accounted'
  <2>1. ASSUME NEW id \in Ids, NEW o \in Ops, NEW kind \in {"call", "refresh"},
               OpStart(o, id, kind)
        PROVE  Accounted'
    BY <2>1, SameAccounted DEF OpStart
  <2>. QED BY <1>1, <2>1, RegisterAccounted, CallAccounted, ReplaceAccounted,
              CompleteAuthAccounted, CloseAccounted DEF HostCall
<1>2. ASSUME NEW e \in Entries,
             \/ Continue(e) \/ Connecting(e) \/ Closing(e) \/ ReconnectFires(e)
             \/ SessionLost(e) \/ TimePasses(e)
      PROVE  Accounted'
  BY <1>2, ContinueAccounted, ConnectingAccounted, ClosingAccounted, EventAccounted
<1>3. ASSUME NEW o \in Ops, OpEnds(o) PROVE Accounted'
  BY <1>3, OpEndsAccounted
<1>4. ASSUME NEW k \in Callers, AuthAdvances(k) PROVE Accounted'
  BY <1>4, AuthAdvancesAccounted
<1>5. CASE UNCHANGED vars
  BY <1>5, SameAccounted DEF vars
<1>. QED BY <1>1, <1>2, <1>3, <1>4, <1>5 DEF Next

(* Every client has one place, whatever the host, the server and the       *)
(* completions of authorizations do.                                       *)
THEOREM AccountedAlways == Spec => [](IInv /\ Accounted)
<1>1. Init => IInv /\ Accounted
  BY InitInv, InitAccounted
<1>2. IInv /\ Accounted /\ [Next]_vars => (IInv /\ Accounted)'
  BY NextInv, NextAccounted
<1>. QED BY <1>1, <1>2, PTL DEF Spec

(* An authorization can always be completed: while the connection is       *)
(* `authorizing` its client is open, or a completion is about to move it,  *)
(* however many completions overlap.                                       *)
THEOREM ParkedAlwaysCompletes == Spec => []ParkedCanComplete
<1>1. ASSUME Accounted PROVE ParkedCanComplete
  <2> SUFFICES ASSUME NEW e \in Entries, entry[e].phase = "authorizing",
                      entry[e].pending \notin live
               PROVE  \E k \in Callers : Completes(k, e)
    BY DEF ParkedCanComplete, Completes
  <2>1. Needs(entry[e]) \subseteq live
    BY <1>1 DEF Accounted, Holdings, Owned
  <2>2. Waits(entry[e])
    BY <2>1 DEF Needs, Waits
  <2>. QED BY <1>1, <2>2 DEF Accounted, Parking
<1>2. IInv /\ Accounted => ParkedCanComplete
  BY <1>1
<1>. QED BY <1>2, AccountedAlways, PTL

(* A connection that takes operations holds an open client, when no connect*)
(* waits for the repair of a listen stream.                                *)
THEOREM UsableAlwaysHolds ==
  ASSUME RepairsListen = {}
  PROVE  Spec => []UsableHoldsClient
<1>1. ASSUME Accounted PROVE UsableHoldsClient
  BY <1>1 DEF UsableHoldsClient, Accounted, Holdings, Owned, Needs, Steady
<1>2. IInv /\ Accounted => UsableHoldsClient
  BY <1>1
<1>. QED BY <1>2, AccountedAlways, PTL

(* Every client is held by exactly one thing that can close it, and a      *)
(* usable connection has one.                                              *)
THEOREM ClientsAlwaysAccounted ==
  ASSUME Callers = {}, RepairsListen = {}
  PROVE  Spec => []ClientsAccounted
<1>1. UsableHoldsClient /\ NoOrphanClient => ClientsAccounted
  BY DEF ClientsAccounted
<1>. QED BY <1>1, UsableAlwaysHolds, NoClientOrphaned, PTL
=============================================================================
