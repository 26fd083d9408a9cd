--------------------------- MODULE FollowersProofs --------------------------
(* Proofs about what is kept in step with something else: the published     *)
(* catalog with the lists of the server (CatalogRefresh), and a file, a     *)
(* config, a wait and the clients of a projected server (Followers), for    *)
(* every set of sections, calls, callers and tools and every budget.        *)
(*                                                                          *)
(* CatalogRefresh.  That one automatic refresh is in flight at a time rests *)
(* on where timer and inFlight are (AutoOrder); that the budget holds, on   *)
(* the count being what was spent and what is in flight, and on an armed    *)
(* timer having something left to spend; that the catalog never goes back,  *)
(* on what a refresh in flight has got so far (ViewsOrder): nothing that is *)
(* older than the catalog, as long as its revision is current.              *)
(*                                                                          *)
(* Followers.  A call of sync() is answered by a run that read after it     *)
(* asked (SyncCalls), and nothing runs once the sync drops its subscription *)
(* (SyncOrder).  onChange is told of newer contents only because one read   *)
(* of the queue runs at a time, and neither the disk nor that read is older *)
(* than what was told last; one that is not newer has the digest recorded   *)
(* already (WatchNewest).  The queue is the only thing a closing watch      *)
(* still has (WatchOrder).                                                  *)
EXTENDS CatalogRefresh, Followers, SequenceTheorems, TLAPS


(* An entry's AutoRefreshState, `busy` being whether an automatic refresh  *)
(* is in flight.                                                           *)
AutoOrder(c, busy) ==
  /\ c.timer => Usable(c) /\ ~busy /\ c.count < MaxRefreshes
  /\ c.inFlight <=> Usable(c) /\ busy
  /\ Usable(c) => c.count = c.spent + (IF c.inFlight THEN 1 ELSE 0)
  /\ c.spent <= MaxRefreshes

(* What refresh f, in flight, has got of the lists.                        *)
FlightOrder(f) ==
  \A s \in Sections :
    flight[f].got[s] # Blank =>
      /\ flight[f].got[s].version <= upstream[s]
      /\ flight[f].current => flight[f].got[s].version >= conn.catalog[s].version

(* The catalog and those that will replace it.                             *)
ViewsOrder ==
  /\ \A s \in Sections : conn.catalog[s].version <= upstream[s]
  /\ \A f \in Refreshes : flight[f].open => FlightOrder(f)

IInv == TypeOK /\ AutoOrder(conn, flight[Automatic].open) /\ ViewsOrder

----------------------------------------------------------------------------
(* The values the variables start with, and return to, have their types.   *)
LEMMA BlankTypes ==
  Blank \in View /\ Empty \in [Sections -> View] /\ Landed \in Flight /\ Takeoff \in Flight
<1>1. Blank \in View
  BY DEF Blank, View
<1>2. Empty \in [Sections -> View]
  BY <1>1 DEF Empty
<1>3. Landed \in Flight
  BY <1>2 DEF Landed, Flight
<1>4. Takeoff \in Flight
  BY <1>2, <1>3 DEF Takeoff, Landed, Flight
<1>. QED BY <1>1, <1>2, <1>3, <1>4

(* #cancelAutoRefresh.                                                     *)
LEMMA NoAutoFields ==
  ASSUME NEW c \in Conn
  PROVE  /\ NoAuto(c) \in Conn
         /\ NoAuto(c).phase = c.phase /\ NoAuto(c).catalog = c.catalog
         /\ NoAuto(c).session = c.session /\ NoAuto(c).spent = c.spent
         /\ NoAuto(c).count = 0 /\ ~NoAuto(c).timer /\ ~NoAuto(c).inFlight
<1>1. 0 \in 0..MaxRefreshes
  BY ConstantsAssumption
<1>. QED BY <1>1 DEF Conn, NoAuto

(* #scheduleAutoRefresh touches the AutoRefreshState and, when the budget  *)
(* is spent, the phase.                                                    *)
LEMMA ScheduledSound ==
  ASSUME NEW c \in Conn, NEW busy \in BOOLEAN, AutoOrder(c, busy)
  PROVE  /\ Scheduled(c) \in Conn /\ AutoOrder(Scheduled(c), busy)
         /\ Scheduled(c).catalog = c.catalog /\ Scheduled(c).session = c.session
<1>1. CASE ~Usable(c) \/ c.capped
  BY <1>1 DEF Scheduled
<1>2. CASE Usable(c) /\ ~c.capped /\ c.count >= MaxRefreshes
  <2> DEFINE d == [c EXCEPT !.capped = TRUE, !.phase = "degraded"]
  <2>1. Scheduled(c) = d
    BY <1>2 DEF Scheduled
  <2>. QED BY <1>2, <2>1 DEF Conn, AutoOrder, Usable
<1>3. CASE Usable(c) /\ ~c.capped /\ ~(c.count >= MaxRefreshes)
  <2> DEFINE d == [c EXCEPT !.pending = TRUE]
             e == [c EXCEPT !.timer = TRUE]
  <2>1. Scheduled(c) = IF c.inFlight THEN d ELSE e
    BY <1>3 DEF Scheduled
  <2>2. c.count < MaxRefreshes
    BY <1>3, ConstantsAssumption DEF Conn
  <2>. QED BY <1>3, <2>1, <2>2 DEF Conn, AutoOrder, Usable
<1>. QED BY <1>1, <1>2, <1>3

(* The end of an automatic refresh.                                        *)
LEMMA SettledSound ==
  ASSUME NEW c \in Conn, AutoOrder(c, TRUE), NEW attempted \in BOOLEAN
  PROVE  /\ Settled(c, attempted) \in Conn /\ AutoOrder(Settled(c, attempted), FALSE)
         /\ Settled(c, attempted).catalog = c.catalog
         /\ Settled(c, attempted).session = c.session
<1> DEFINE n == IF attempted THEN c.count ELSE c.count - 1
           m == IF attempted THEN c.spent + 1 ELSE c.spent
           d == [c EXCEPT !.inFlight = FALSE, !.pending = FALSE, !.count = n, !.spent = m]
<1>1. CASE ~Usable(c)
  BY <1>1 DEF Settled, AutoOrder
<1>2. CASE Usable(c)
  <2>1. /\ c.count \in 0..MaxRefreshes /\ c.spent \in Nat /\ c.count = c.spent + 1
        /\ ~c.timer
    BY <1>2 DEF AutoOrder, Conn
  <2>2. n \in 0..MaxRefreshes /\ m \in Nat /\ n = m /\ m <= MaxRefreshes
    BY <2>1, ConstantsAssumption
  <2>3. Settled(c, attempted) = IF c.pending THEN Scheduled(d) ELSE d
    BY <1>2 DEF Settled
  <2>. HIDE DEF n, m
  <2>4. /\ d \in Conn /\ d.phase = c.phase /\ d.count = n /\ d.spent = m /\ ~d.inFlight
        /\ ~d.timer /\ d.catalog = c.catalog /\ d.session = c.session
    BY <2>1, <2>2 DEF Conn
  <2>. HIDE DEF d
  <2>5. AutoOrder(d, FALSE)
    BY <2>2, <2>4 DEF AutoOrder, Usable, Conn
  <2>. QED BY <2>3, <2>4, <2>5, ScheduledSound
<1>. QED BY <1>1, <1>2

----------------------------------------------------------------------------
(* What a step may not do to the catalog of a session.                     *)
Onward ==
  \A s \in Sections :
    LET v == conn.catalog[s]  w == conn'.catalog[s]
    IN  /\ conn'.session = conn.session
        /\ v.status # "none" /\ w.status \in {"fresh", "stale"}
        => w.version >= v.version

(* A catalog that stays as it is, or is replaced by an empty one.          *)
LEMMA OnwardSame ==
  ASSUME TypeOK, conn'.catalog \in {conn.catalog, Empty}
  PROVE  Onward
<1>1. \A s \in Sections : conn.catalog[s].version \in Nat
  BY DEF TypeOK, Conn, View
<1>. QED BY <1>1 DEF Onward, Empty, Blank

(* The invariant holds at the start.                                       *)
LEMMA InitInv == Init => IInv
<1> SUFFICES ASSUME Init PROVE IInv
  OBVIOUS
<1>1. TypeOK
  <2>1. conn \in Conn
    BY BlankTypes, ConstantsAssumption DEF Init, Conn
  <2>. QED BY <2>1, BlankTypes DEF Init, TypeOK
<1>2. AutoOrder(conn, flight[Automatic].open)
  BY ConstantsAssumption DEF Init, AutoOrder, Usable, Landed, Refreshes
<1>3. ViewsOrder
  BY DEF Init, ViewsOrder, Empty, Blank, Landed
<1>. QED BY <1>1, <1>2, <1>3 DEF IInv

(* A step of the refreshes alone.                                          *)
LEMMA FlightStep ==
  ASSUME IInv, UNCHANGED <<conn, upstream, told>>, flight' \in [Refreshes -> Flight],
         flight'[Automatic].open = flight[Automatic].open, ViewsOrder'
  PROVE  IInv' /\ Onward
BY OnwardSame DEF IInv, TypeOK

(* A step of the connection that leaves the catalog alone.                 *)
LEMMA ConnStep ==
  ASSUME IInv, UNCHANGED <<flight, upstream>>, told' \subseteq Sections,
         conn' \in Conn, AutoOrder(conn', flight[Automatic].open), conn'.catalog = conn.catalog
  PROVE  IInv' /\ Onward
<1>1. ViewsOrder'
  BY DEF IInv, ViewsOrder, FlightOrder
<1>. QED BY <1>1, OnwardSame DEF IInv, TypeOK

(* The server changes a list or announces a change.                        *)
LEMMA ChangeInv ==
  ASSUME IInv, NEW s \in Sections, Change(s)
  PROVE  IInv' /\ Onward
<1>1. /\ upstream' \in [Sections -> Nat] /\ \A r \in Sections : upstream'[r] >= upstream[r]
      /\ told' \subseteq Sections /\ UNCHANGED <<conn, flight>>
  BY DEF Change, IInv, TypeOK
<1>2. TypeOK'
  BY <1>1 DEF IInv, TypeOK
<1>3. ViewsOrder'
  <2>1. \A f \in Refreshes, r \in Sections : flight[f].got[r].version \in Nat
    BY DEF IInv, TypeOK, Flight, View
  <2>2. \A r \in Sections : conn.catalog[r].version \in Nat /\ upstream[r] \in Nat
    BY DEF IInv, TypeOK, Conn, View
  <2>. QED BY <1>1, <2>1, <2>2 DEF IInv, TypeOK, ViewsOrder, FlightOrder
<1>4. Onward
  BY <1>1, OnwardSame DEF IInv
<1>. QED BY <1>1, <1>2, <1>3, <1>4 DEF IInv

(* An announcement arrives.                                                *)
LEMMA NotifiedInv ==
  ASSUME IInv, NEW s \in Sections, Notified(s)
  PROVE  IInv' /\ Onward
<1>1. /\ conn' = Scheduled(conn) /\ told' \subseteq Sections /\ UNCHANGED <<flight, upstream>>
  BY DEF Notified, IInv, TypeOK
<1>2. conn \in Conn /\ flight[Automatic].open \in BOOLEAN /\ AutoOrder(conn, flight[Automatic].open)
  BY DEF IInv, TypeOK, Flight, Refreshes
<1>3. /\ conn' \in Conn /\ AutoOrder(conn', flight[Automatic].open) /\ conn'.catalog = conn.catalog
  BY <1>1, <1>2, ScheduledSound
<1>. QED BY <1>1, <1>3, ConnStep

(* A refresh takes off: nothing is listed yet.                             *)
LEMMA TakeoffViews ==
  ASSUME IInv, NEW f \in Refreshes, flight' = [flight EXCEPT ![f] = Takeoff],
         conn'.catalog = conn.catalog, UNCHANGED upstream
  PROVE  flight' \in [Refreshes -> Flight] /\ flight'[f].open /\ ViewsOrder'
<1>1. flight' \in [Refreshes -> Flight] /\ flight'[f] = Takeoff
      /\ \A g \in Refreshes : g # f => flight'[g] = flight[g]
  BY BlankTypes DEF IInv, TypeOK
<1>2. Takeoff.open /\ Takeoff.got = Empty
  BY DEF Takeoff, Landed
<1>3. \A g \in Refreshes : flight'[g].open => FlightOrder(g)'
  BY <1>1, <1>2 DEF IInv, ViewsOrder, FlightOrder, Empty
<1>. QED BY <1>1, <1>2, <1>3 DEF IInv, ViewsOrder

(* The automatic refresh takes off: the timer that was armed had something *)
(* left to spend.                                                          *)
LEMMA TimerFiresInv ==
  ASSUME IInv, TimerFires
  PROVE  IInv' /\ Onward
<1>1. /\ conn.timer /\ conn' = [conn EXCEPT !.timer = FALSE, !.count = @ + 1, !.inFlight = TRUE]
      /\ flight' = [flight EXCEPT ![Automatic] = Takeoff] /\ UNCHANGED <<upstream, told>>
      /\ Automatic \in Refreshes /\ conn \in Conn
      /\ Usable(conn) /\ ~flight[Automatic].open /\ conn.count < MaxRefreshes
      /\ ~conn.inFlight /\ conn.count = conn.spent
  BY DEF TimerFires, IInv, TypeOK, AutoOrder, Refreshes, Conn
<1>2. conn.count + 1 \in 0..MaxRefreshes /\ conn.count + 1 = conn.spent + 1
  BY <1>1, ConstantsAssumption DEF Conn
<1>3. /\ conn' \in Conn /\ conn'.catalog = conn.catalog /\ conn'.phase = conn.phase
      /\ conn'.count = conn.spent + 1 /\ conn'.spent = conn.spent
      /\ conn'.inFlight /\ ~conn'.timer
  BY <1>1, <1>2 DEF Conn
<1>4. flight' \in [Refreshes -> Flight] /\ flight'[Automatic].open /\ ViewsOrder'
  BY <1>1, <1>3, TakeoffViews
<1>5. AutoOrder(conn', flight'[Automatic].open)
  BY <1>1, <1>3, <1>4 DEF AutoOrder, Usable, IInv
<1>6. Onward
  BY <1>3, OnwardSame DEF IInv
<1>. QED BY <1>1, <1>3, <1>4, <1>5, <1>6 DEF IInv, TypeOK

(* A refresh of the host takes off.                                        *)
LEMMA RefreshCatalogInv ==
  ASSUME IInv, NEW k \in Calls, RefreshCatalog(k)
  PROVE  IInv' /\ Onward
<1>1. /\ flight' = [flight EXCEPT ![k] = Takeoff] /\ UNCHANGED <<conn, upstream, told>>
      /\ k \in Refreshes /\ k # Automatic
  BY ConstantsAssumption DEF RefreshCatalog, Refreshes
<1>2. flight'[Automatic] = flight[Automatic]
  BY <1>1 DEF IInv, TypeOK, Refreshes
<1>3. flight' \in [Refreshes -> Flight] /\ ViewsOrder'
  BY <1>1, TakeoffViews
<1>. QED BY <1>1, <1>2, <1>3, FlightStep

(* A list is as new as the server's, or what there was of it before.       *)
LEMMA AnswerInv ==
  ASSUME IInv, NEW f \in Refreshes, NEW s \in Sections, Answer(f, s)
  PROVE  IInv' /\ Onward
<1>1. PICK view \in {Listed(s), Unlisted(conn.catalog[s])} :
        /\ flight' = [flight EXCEPT ![f].got[s] = view] /\ UNCHANGED <<conn, upstream, told>>
        /\ flight[f].open
  BY DEF Answer
<1>2. /\ flight[f] \in Flight /\ upstream[s] \in Nat /\ conn.catalog[s] \in View
      /\ conn.catalog[s].version <= upstream[s] /\ conn.catalog[s].version \in Nat
  BY DEF IInv, TypeOK, ViewsOrder, Conn, View
<1>3. /\ view \in View /\ view.version <= upstream[s]
      /\ view.version >= conn.catalog[s].version
  <2>1. CASE view = Listed(s)
    BY <1>2, <2>1 DEF Listed, View
  <2>2. CASE view = Unlisted(conn.catalog[s]) /\ conn.catalog[s].version > 0
    BY <1>2, <2>2 DEF Unlisted, View
  <2>3. CASE view = Unlisted(conn.catalog[s]) /\ ~(conn.catalog[s].version > 0)
    BY <1>2, <2>3 DEF Unlisted, View
  <2>. QED BY <1>1, <2>1, <2>2, <2>3
<1>4. /\ flight' \in [Refreshes -> Flight] /\ flight'[f].open = flight[f].open
      /\ flight'[f].current = flight[f].current /\ flight'[f].got[s] = view
      /\ \A r \in Sections : r # s => flight'[f].got[r] = flight[f].got[r]
      /\ \A g \in Refreshes : g # f => flight'[g] = flight[g]
  <2>1. [flight[f] EXCEPT !.got[s] = view] \in Flight
    BY <1>2, <1>3 DEF Flight
  <2>. QED BY <1>1, <1>2, <2>1 DEF IInv, TypeOK, Flight
<1>5. FlightOrder(f)'
  BY <1>1, <1>3, <1>4 DEF IInv, ViewsOrder, FlightOrder
<1>6. \A g \in Refreshes : flight'[g].open => FlightOrder(g)'
  BY <1>1, <1>4, <1>5 DEF IInv, ViewsOrder, FlightOrder
<1>7. ViewsOrder'
  BY <1>1, <1>6 DEF IInv, ViewsOrder
<1>8. flight'[Automatic].open = flight[Automatic].open
  BY <1>4 DEF Refreshes
<1>. QED BY <1>1, <1>4, <1>7, <1>8, FlightStep

(* A refresh that is over has left c: the catalog it found or, if it       *)
(* commits, the one it has got.                                            *)
LEMMA LandInv ==
  ASSUME IInv, NEW f \in Refreshes, flight[f].open,
         NEW c \in Conn, AutoOrder(c, flight[Automatic].open),
         NEW commits \in BOOLEAN, NEW attempted \in BOOLEAN, Land(f, c, commits, attempted),
         c.catalog = IF commits THEN flight[f].got ELSE conn.catalog,
         commits => flight[f].current /\ Answered(f)
  PROVE  IInv' /\ Onward
<1>1. /\ UNCHANGED <<upstream, told>>
      /\ flight' = [g \in Refreshes |-> IF g = f THEN Landed
                                        ELSE IF commits THEN Fenced(g) ELSE flight[g]]
      /\ conn' = IF f = Automatic THEN Settled(c, attempted) ELSE c
  BY DEF Land
<1>2. \A g \in Refreshes : flight[g] \in Flight /\ Fenced(g) \in Flight
                           /\ Fenced(g).open = flight[g].open /\ Fenced(g).got = flight[g].got
                           /\ (flight[g].open => ~Fenced(g).current)
  BY DEF IInv, TypeOK, Flight, Fenced
<1>3. flight' \in [Refreshes -> Flight] /\ ~flight'[f].open
  BY <1>1, <1>2, BlankTypes DEF Landed
<1>4. \A g \in Refreshes : g # f => /\ flight'[g].open = flight[g].open
                                    /\ flight'[g].got = flight[g].got
                                    /\ flight'[g].current /\ flight[g].open
                                         => ~commits /\ flight[g].current
  BY <1>1, <1>2
<1>5. conn' \in Conn /\ AutoOrder(conn', flight'[Automatic].open) /\ conn'.catalog = c.catalog
  <2>1. CASE f = Automatic
    <3>1. flight[Automatic].open = TRUE /\ flight'[Automatic].open = FALSE
      BY <1>2, <1>3, <2>1, BlankTypes DEF Flight
    <3>. QED BY <1>1, <2>1, <3>1, SettledSound
  <2>2. CASE f # Automatic
    BY <1>1, <1>4, <2>2 DEF Refreshes
  <2>. QED BY <2>1, <2>2
<1>6. \A s \in Sections : /\ c.catalog[s] \in View /\ conn.catalog[s] \in View
                          /\ c.catalog[s].version <= upstream[s]
                          /\ c.catalog[s].version >= conn.catalog[s].version
  BY DEF IInv, TypeOK, ViewsOrder, FlightOrder, Answered, Conn, View
<1>7. \A g \in Refreshes : flight'[g].open => FlightOrder(g)'
  BY <1>1, <1>3, <1>4, <1>5 DEF IInv, ViewsOrder, FlightOrder
<1>8. ViewsOrder'
  BY <1>1, <1>5, <1>6, <1>7 DEF ViewsOrder
<1>9. Onward
  BY <1>5, <1>6 DEF Onward
<1>. QED BY <1>1, <1>3, <1>5, <1>8, <1>9 DEF IInv, TypeOK

(* The four ends of a refresh.                                             *)
LEMMA AdvancesInv ==
  ASSUME IInv, NEW f \in Refreshes, Commits(f) \/ Refused(f) \/ Exceeds(f) \/ Aborts(f)
  PROVE  IInv' /\ Onward
<1> DEFINE p == IF Whole(flight[f].got) THEN "online" ELSE "degraded"
           c == [conn EXCEPT !.catalog = flight[f].got, !.phase = p]
           d == [conn EXCEPT !.phase = "degraded"]
<1>1. /\ conn \in Conn /\ flight[f] \in Flight /\ AutoOrder(conn, flight[Automatic].open)
  BY DEF IInv, TypeOK
<1>2. CASE Commits(f)
  <2>1. flight[f].open /\ flight[f].current /\ Answered(f) /\ Usable(conn)
        /\ Land(f, c, TRUE, TRUE)
    BY <1>2 DEF Commits, Answered, Authority
  <2>2. p \in {"online", "degraded"}
    OBVIOUS
  <2>. HIDE DEF p
  <2>3. c \in Conn /\ c.catalog = flight[f].got /\ AutoOrder(c, flight[Automatic].open)
    BY <1>1, <2>1, <2>2 DEF Conn, Flight, AutoOrder, Usable
  <2>. HIDE DEF c
  <2>. QED BY <2>1, <2>3, LandInv
<1>3. CASE Refused(f) \/ Aborts(f)
  <2>1. flight[f].open /\ Land(f, conn, FALSE, FALSE)
    BY <1>3 DEF Refused, Aborts, Answered
  <2>. QED BY <1>1, <2>1, LandInv
<1>4. CASE Exceeds(f)
  <2>1. flight[f].open /\ Land(f, IF Authority(f) THEN d ELSE conn, FALSE, TRUE)
    BY <1>4 DEF Exceeds, Answered
  <2>2. Usable(conn) => d \in Conn /\ d.catalog = conn.catalog /\ AutoOrder(d, flight[Automatic].open)
    BY <1>1 DEF Conn, AutoOrder, Usable
  <2>3. Authority(f) => Usable(conn)
    BY DEF Authority
  <2>. HIDE DEF d
  <2>4. CASE Authority(f)
    BY <2>1, <2>2, <2>3, <2>4, LandInv
  <2>5. CASE ~Authority(f)
    BY <1>1, <2>1, <2>5, LandInv
  <2>. QED BY <2>4, <2>5
<1>. QED BY <1>2, <1>3, <1>4

(* A session comes up, with no refresh of an older one in flight.          *)
LEMMA ConnectInv ==
  ASSUME IInv, Connect
  PROVE  IInv' /\ Onward
<1> DEFINE n == NoAuto(conn)
<1>1. /\ \A f \in Refreshes : ~flight[f].open
      /\ conn' = [n EXCEPT !.session = n.session + 1, !.phase = "online",
                           !.catalog = Empty, !.spent = 0]
      /\ told' = {} /\ UNCHANGED <<flight, upstream>> /\ conn \in Conn /\ Automatic \in Refreshes
  BY DEF Connect, IInv, TypeOK, Refreshes
<1>2. n \in Conn /\ n.count = 0 /\ ~n.timer /\ ~n.inFlight
  BY <1>1, NoAutoFields
<1>. HIDE DEF n
<1>3. /\ conn' \in Conn /\ conn'.catalog = Empty /\ conn'.count = 0 /\ conn'.spent = 0
      /\ ~conn'.timer /\ ~conn'.inFlight
  <2> DEFINE m == n.session + 1
  <2>1. m \in Nat /\ "online" \in {"down", "online", "degraded"} /\ 0 \in Nat
    BY <1>2 DEF Conn
  <2>2. conn' = [n EXCEPT !.session = m, !.phase = "online", !.catalog = Empty, !.spent = 0]
    BY <1>1
  <2>. HIDE DEF m
  <2>. QED BY <1>2, <2>1, <2>2, BlankTypes, ZenonT(30) DEF Conn
<1>4. AutoOrder(conn', flight'[Automatic].open)
  BY <1>1, <1>3, ConstantsAssumption DEF AutoOrder
<1>5. ViewsOrder'
  BY <1>1, <1>3 DEF IInv, TypeOK, ViewsOrder, Empty, Blank
<1>6. Onward
  BY <1>3, OnwardSame DEF IInv
<1>. QED BY <1>1, <1>3, <1>4, <1>5, <1>6 DEF IInv, TypeOK

(* The session goes, and a refresh may still be in flight.                 *)
LEMMA DownInv ==
  ASSUME IInv, Down
  PROVE  IInv' /\ Onward
<1> DEFINE n == NoAuto(conn)
<1>1. /\ conn' = [n EXCEPT !.phase = "down", !.catalog = Empty]
      /\ told' = {} /\ UNCHANGED <<flight, upstream>> /\ conn \in Conn
      /\ conn.spent <= MaxRefreshes
  BY DEF Down, GoesDown, IInv, TypeOK, AutoOrder
<1>2. n \in Conn /\ ~n.timer /\ ~n.inFlight /\ n.spent = conn.spent
  BY <1>1, NoAutoFields
<1>. HIDE DEF n
<1>3. /\ conn' \in Conn /\ conn'.catalog = Empty /\ conn'.phase = "down"
      /\ ~conn'.timer /\ ~conn'.inFlight /\ conn'.spent = conn.spent
  BY <1>1, <1>2, BlankTypes DEF Conn
<1>4. AutoOrder(conn', flight'[Automatic].open)
  BY <1>1, <1>3 DEF AutoOrder, Usable
<1>5. ViewsOrder'
  <2>1. \A s \in Sections : upstream[s] \in Nat /\ conn'.catalog[s].version = 0
    BY <1>3 DEF IInv, TypeOK, Empty, Blank
  <2>2. ASSUME NEW f \in Refreshes, flight[f].open PROVE FlightOrder(f)'
    <3>1. \A s \in Sections : flight[f].got[s].version \in Nat
      BY DEF IInv, TypeOK, Flight, View
    <3>. QED BY <1>1, <2>1, <2>2, <3>1 DEF IInv, ViewsOrder, FlightOrder
  <2>. QED BY <1>1, <2>1, <2>2 DEF ViewsOrder
<1>6. Onward
  BY <1>3, OnwardSame DEF IInv
<1>. QED BY <1>1, <1>3, <1>4, <1>5, <1>6 DEF IInv, TypeOK

(* Every step preserves the invariant, and takes no section back.          *)
LEMMA NextInv == IInv /\ [Next]_vars => IInv' /\ (Onward \/ UNCHANGED vars)
<1> SUFFICES ASSUME IInv, [Next]_vars PROVE IInv' /\ (Onward \/ UNCHANGED vars)
  OBVIOUS
<1>1. CASE UNCHANGED vars
  BY <1>1 DEF vars, IInv, TypeOK, ViewsOrder, FlightOrder
<1>2. ASSUME NEW s \in Sections, Change(s) \/ Notified(s) PROVE IInv' /\ Onward
  BY <1>2, ChangeInv, NotifiedInv
<1>3. ASSUME NEW k \in Calls, RefreshCatalog(k) \/ Aborts(k) PROVE IInv' /\ Onward
  <2>1. k \in Refreshes
    BY DEF Refreshes
  <2>. QED BY <1>3, <2>1, RefreshCatalogInv, AdvancesInv
<1>4. ASSUME NEW f \in Refreshes, Advances(f) PROVE IInv' /\ Onward
  BY <1>4, AnswerInv, AdvancesInv DEF Advances
<1>. QED BY <1>1, <1>2, <1>3, <1>4, ConnectInv, DownInv, TimerFiresInv DEF Next

(* The invariant of the automatic refresh and of all catalogs that are     *)
(* published or in flight.                                                 *)
THEOREM InvAlways == Spec => []IInv
BY InitInv, NextInv, PTL DEF Spec

(* #scheduleAutoRefresh keeps one automatic refresh in flight at a time,   *)
(* and none, nor a timer, for a connection that is down.                   *)
THEOREM OneRefreshAlways == Spec => []OneRefresh
<1>1. IInv => OneRefresh
  BY DEF IInv, OneRefresh, SingleFlight, AutoOrder
<1>. QED BY <1>1, InvAlways, PTL

(* However many changes the server announces, a generation pays for at most*)
(* maxRefreshesPerGeneration automatic refreshes.                          *)
THEOREM BudgetAlwaysHolds == Spec => []BudgetHolds
<1>1. IInv => BudgetHolds
  <2> SUFFICES ASSUME IInv PROVE BudgetHolds
    OBVIOUS
  <2>1. /\ conn.count \in 0..MaxRefreshes /\ conn.spent \in Nat /\ conn.spent <= MaxRefreshes
        /\ conn.inFlight => conn.count = conn.spent + 1
    BY DEF IInv, TypeOK, Conn, AutoOrder
  <2>. QED BY <2>1, ConstantsAssumption DEF BudgetHolds
<1>. QED BY <1>1, InvAlways, PTL

(* However refreshes overtake each other, no section of the published      *)
(* catalog goes back to an older list within a session: #performRefresh    *)
(* commits under the revision it found, or not at all.                     *)
THEOREM CatalogAlwaysAdvances == Spec => CatalogAdvances
<1>1. IInv /\ [Next]_vars =>
        [\A s \in Sections :
           LET v == conn.catalog[s]  w == conn'.catalog[s]
           IN  /\ conn'.session = conn.session
               /\ v.status # "none" /\ w.status \in {"fresh", "stale"}
               => w.version >= v.version]_vars
  BY NextInv DEF Onward
<1>. QED BY <1>1, InvAlways, PTL DEF Spec, CatalogAdvances

-----------------------------------------------------------------------------

(* What a sync has in flight, and what it knows of a call.                  *)
Runs == [at : {"reading", "read"}, read : 0 .. MaxVersions, waiting : SUBSET Callers]
SyncCall == [phase : {"idle", "waiting", "answered"}, asked : 0 .. MaxVersions, got : 0 .. MaxVersions]

(* The file.  Until it follows, a sync holds the run of its first read; once*)
(* it drops its subscription nothing runs and none is renewed.              *)
SyncOrder ==
    /\ stage = "read" => run \in Runs
    /\ stage \in {"dropping", "stopped", "stranded"} => run = None /\ resub # "sent"
    /\ stage = "stopped" => (session.up => ~session.subscribed)

(* Who is to be answered by the run in flight asked before it read.         *)
SyncCalls ==
    /\ \A c \in Callers :
          /\ caller[c].asked <= version
          /\ caller[c].got > 0 => caller[c].got >= caller[c].asked
    /\ run # None =>
          \A c \in run.waiting :
             caller[c].phase # "idle" /\ (run.at = "read" => caller[c].asked <= run.read)
    /\ pending # None => \A c \in pending : caller[c].phase # "idle"

SyncInv == Sync!TypeOK /\ SyncOrder /\ SyncCalls

(* The bounds, one by one.                                                  *)
LEMMA BoundsAre ==
    /\ MaxOnline \in Nat /\ MaxDirs \in Nat /\ MaxQueue \in Nat /\ MaxVersions \in Nat
    /\ MaxGap \in Nat /\ MaxGenerations \in Nat
    /\ MaxOnline # 0 /\ MaxDirs # 0 /\ MaxQueue # 0 /\ MaxVersions # 0
BY FollowersAssumption

(* The type invariant by these sets.                                        *)
LEMMA SyncTypes ==
    Sync!TypeOK <=>
      /\ version \in 1 .. MaxVersions /\ session \in Sync!Sessions /\ note \in BOOLEAN /\ file \in 0 .. MaxVersions
      /\ run \in {None} \cup Runs /\ pending \in {None} \cup SUBSET Callers
      /\ generation \in 1 .. MaxOnline /\ lastError \in BOOLEAN /\ again \in BOOLEAN
      /\ resub \in {"none", "sent", "done", "refused"}
      /\ stage \in {"start", "reading", "read", "following", "stopping", "dropping", "stopped", "stranded",
                     "failed"}
      /\ caller \in [Callers -> SyncCall] /\ gap \in 0 .. MaxGap
BY DEF Sync!TypeOK, Runs, SyncCall

(* And of the state after a step.                                           *)
LEMMA SyncTypesNext ==
    Sync!TypeOK' <=>
      /\ version' \in 1 .. MaxVersions /\ session' \in Sync!Sessions /\ note' \in BOOLEAN /\ file' \in 0 .. MaxVersions
      /\ run' \in {None} \cup Runs /\ pending' \in {None} \cup SUBSET Callers
      /\ generation' \in 1 .. MaxOnline /\ lastError' \in BOOLEAN /\ again' \in BOOLEAN
      /\ resub' \in {"none", "sent", "done", "refused"}
      /\ stage' \in {"start", "reading", "read", "following", "stopping", "dropping", "stopped", "stranded",
                     "failed"}
      /\ caller' \in [Callers -> SyncCall] /\ gap' \in 0 .. MaxGap
BY DEF Sync!TypeOK, Runs, SyncCall

(* It holds before the first read.                                          *)
LEMMA SyncBegins == Sync!Init => SyncInv
<1> SUFFICES ASSUME Sync!Init PROVE SyncInv
  OBVIOUS
<1>1. Sync!TypeOK
  <2>1. session \in Sync!Sessions /\ caller \in [Callers -> SyncCall]
    BY BoundsAre DEF Sync!Init, Sync!Sessions, SyncCall
  <2>2. /\ 1 \in 1 .. MaxVersions /\ 0 \in 0 .. MaxVersions /\ 1 \in 1 .. MaxOnline /\ 0 \in 0 .. MaxGap
        /\ FALSE \in BOOLEAN
    BY BoundsAre
  <2> QED BY <2>1, <2>2, SyncTypes DEF Sync!Init
<1>2. SyncOrder /\ SyncCalls
  BY DEF Sync!Init, SyncOrder, SyncCalls
<1> QED BY <1>1, <1>2 DEF SyncInv

(* A run that a caller, an event or a renewal asks for.                     *)
LEMMA JoinKeeps ==
    ASSUME SyncInv, NEW callers \in SUBSET Callers, Sync!Joins(callers)
    PROVE  /\ run' \in {None} \cup Runs /\ pending' \in {None} \cup SUBSET Callers
           /\ run' = run \/ (run' \in Runs /\ run'.at = "reading" /\ run'.waiting = callers)
           /\ run \in Runs => run' \in Runs
           /\ pending' # None => pending' = pending \/ \A c \in pending' : c \in callers \/ (pending # None /\ c \in pending)
<1>0. run \in {None} \cup Runs /\ pending \in {None} \cup SUBSET Callers /\ 0 \in 0 .. MaxVersions
  BY SyncTypes, BoundsAre DEF SyncInv
<1>1. Sync!Begun(callers) \in Runs /\ Sync!Begun(callers).at = "reading" /\ Sync!Begun(callers).waiting = callers
  BY <1>0 DEF Sync!Begun, Runs
<1> QED BY <1>0, <1>1 DEF Sync!Joins

(* Where a run joins and nothing else is answered.                          *)
LEMMA JoinsCalls ==
    ASSUME SyncInv, NEW callers \in SUBSET Callers, Sync!Joins(callers), version' = version,
           caller' \in [Callers -> SyncCall], \A c \in callers : caller'[c].phase # "idle",
           \A c \in Callers :
              \/ caller'[c] = caller[c]
              \/ caller[c].phase = "idle" /\ caller'[c].asked = version /\ caller'[c].got = 0 /\ caller'[c].phase # "idle"
    PROVE  SyncCalls'
<1>0. /\ run' \in {None} \cup Runs /\ pending' \in {None} \cup SUBSET Callers
      /\ run' = run \/ (run' \in Runs /\ run'.at = "reading" /\ run'.waiting = callers)
      /\ pending' # None => pending' = pending \/ \A c \in pending' : c \in callers \/ (pending # None /\ c \in pending)
  BY JoinKeeps
<1>1. version \in Nat /\ run \in {None} \cup Runs /\ pending \in {None} \cup SUBSET Callers
  BY SyncTypes, BoundsAre DEF SyncInv
<1>2. \A c \in Callers : caller'[c].asked <= version' /\ (caller'[c].got > 0 => caller'[c].got >= caller'[c].asked)
  BY <1>1 DEF SyncInv, SyncCalls
<1>3. run' # None => \A c \in run'.waiting :
         caller'[c].phase # "idle" /\ (run'.at = "read" => caller'[c].asked <= run'.read)
  <2>1. CASE run' = run
    BY <1>1, <2>1 DEF SyncInv, SyncCalls, Runs
  <2>2. CASE run' # run
    BY <1>0, <2>2
  <2> QED BY <2>1, <2>2
<1>4. pending' # None => \A c \in pending' : caller'[c].phase # "idle"
  BY <1>0, <1>1 DEF SyncInv, SyncCalls
<1> QED BY <1>2, <1>3, <1>4 DEF SyncCalls

(* A run ends, its callers are answered, and the follow-up starts.          *)
LEMMA EndKeepsCalls ==
    ASSUME SyncInv, run # None, NEW got \in 0 .. MaxVersions, Sync!EndOf(got), version' = version,
           got = 0 \/ (run.at = "read" /\ got = run.read)
    PROVE  /\ SyncCalls' /\ run' \in {None} \cup Runs /\ pending' = None /\ caller' \in [Callers -> SyncCall]
           /\ stage # "following" /\ Sync!Stopped => run' = None
<1>0. /\ run \in Runs /\ pending \in {None} \cup SUBSET Callers /\ caller \in [Callers -> SyncCall] /\ version \in Nat
      /\ 0 \in 0 .. MaxVersions /\ MaxVersions \in Nat
  BY SyncTypes, BoundsAre DEF SyncInv
<1>1. /\ pending' = None
      /\ run' = IF pending = None \/ Sync!Stopped THEN None ELSE Sync!Begun(pending)
      /\ caller' = Sync!Answered(run.waiting, got)
  BY DEF Sync!EndOf, Sync!FollowUp
<1>2. ASSUME NEW c \in Callers
      PROVE  /\ caller'[c] \in SyncCall /\ caller'[c].asked = caller[c].asked
             /\ caller[c].phase # "idle" => caller'[c].phase # "idle"
             /\ IF c \in run.waiting THEN caller'[c].got = got ELSE caller'[c].got = caller[c].got
  <2>1. caller[c] \in SyncCall
    BY <1>0
  <2>2. \/ c \in run.waiting /\ caller'[c] = [caller[c] EXCEPT !.phase = "answered", !.got = got]
        \/ c \notin run.waiting /\ caller'[c] = [caller[c] EXCEPT !.phase = "answered"]
        \/ c \notin run.waiting /\ caller'[c] = caller[c]
    BY <1>1 DEF Sync!Answered
  <2> QED BY <2>1, <2>2 DEF SyncCall
<1>3. caller' \in [Callers -> SyncCall]
  BY <1>1, <1>2 DEF Sync!Answered
<1>4. pending # None => Sync!Begun(pending) \in Runs /\ Sync!Begun(pending).at = "reading" /\ Sync!Begun(pending).waiting = pending
  BY <1>0 DEF Sync!Begun, Runs
<1>5. \A c \in Callers : caller'[c].asked <= version' /\ (caller'[c].got > 0 => caller'[c].got >= caller'[c].asked)
  <2> SUFFICES ASSUME NEW c \in Callers
               PROVE  caller'[c].asked <= version' /\ (caller'[c].got > 0 => caller'[c].got >= caller'[c].asked)
    OBVIOUS
  <2>1. caller[c].asked <= version /\ (caller[c].got > 0 => caller[c].got >= caller[c].asked)
    BY DEF SyncInv, SyncCalls
  <2>2. c \in run.waiting /\ run.at = "read" => caller[c].asked <= run.read
    BY DEF SyncInv, SyncCalls
  <2>3. caller[c].asked \in Nat /\ caller[c].got \in Nat /\ got \in Nat
    BY <1>0 DEF SyncCall
  <2> QED BY <1>2, <2>1, <2>2, <2>3
<1>6. run' # None => \A c \in run'.waiting :
         caller'[c].phase # "idle" /\ (run'.at = "read" => caller'[c].asked <= run'.read)
  BY <1>0, <1>1, <1>2, <1>4 DEF SyncInv, SyncCalls
<1> QED BY <1>0, <1>1, <1>3, <1>4, <1>5, <1>6 DEF SyncCalls, Sync!Stopped

(* Every step of the sync keeps it.                                         *)
LEMMA SyncStep == SyncInv /\ Sync!Next => SyncInv'
<1> SUFFICES ASSUME SyncInv, Sync!Next PROVE SyncInv'
  OBVIOUS
<1>0. /\ version \in 1 .. MaxVersions /\ session \in Sync!Sessions /\ note \in BOOLEAN /\ file \in 0 .. MaxVersions
      /\ run \in {None} \cup Runs /\ pending \in {None} \cup SUBSET Callers
      /\ generation \in 1 .. MaxOnline /\ lastError \in BOOLEAN /\ again \in BOOLEAN
      /\ resub \in {"none", "sent", "done", "refused"}
      /\ stage \in {"start", "reading", "read", "following", "stopping", "dropping", "stopped", "stranded",
                     "failed"}
      /\ caller \in [Callers -> SyncCall] /\ gap \in 0 .. MaxGap
      /\ MaxOnline \in Nat /\ MaxVersions \in Nat /\ MaxGap \in Nat
  BY SyncTypes, BoundsAre DEF SyncInv
<1>u. Sync!Unheard => gap' \in 0 .. MaxGap
  BY <1>0 DEF Sync!Unheard
<1>1. CASE Sync!Updated
  <2>1. Sync!TypeOK'
    BY <1>0, <1>u, <1>1, SyncTypesNext DEF Sync!Updated
  <2>2. SyncOrder'
    BY <1>1 DEF Sync!Updated, SyncInv, SyncOrder
  <2>3. SyncCalls'
    <3>1. version' = version + 1 /\ UNCHANGED <<run, pending, caller>>
      BY <1>1 DEF Sync!Updated
    <3>2. \A c \in Callers : caller[c].asked \in Nat /\ version \in Nat
      BY <1>0 DEF SyncCall
    <3> QED BY <3>1, <3>2 DEF SyncInv, SyncCalls
  <2> QED BY <2>1, <2>2, <2>3 DEF SyncInv
<1>2. CASE Sync!Lost
  <2>1. session' \in Sync!Sessions /\ ~session'.up
    BY <1>0, <1>2 DEF Sync!Lost, Sync!Sessions
  <2>2. Sync!TypeOK'
    BY <1>0, <1>2, <2>1, SyncTypesNext DEF Sync!Lost
  <2>3. SyncOrder' /\ SyncCalls'
    BY <1>2, <2>1 DEF Sync!Lost, SyncInv, SyncOrder, SyncCalls
  <2> QED BY <2>2, <2>3 DEF SyncInv
<1>3. CASE Sync!Online
  <2>1. session' \in Sync!Sessions /\ ~session'.subscribed /\ session'.generation \in 1 .. MaxOnline
        /\ session'.generation = session.generation + 1
    BY <1>0, <1>3 DEF Sync!Online, Sync!Sessions
  <2>2. Sync!TypeOK'
    BY <1>0, <1>u, <1>3, <2>1, SyncTypesNext DEF Sync!Online
  <2>3. SyncOrder' /\ SyncCalls'
    BY <1>3, <2>1 DEF Sync!Online, Sync!Renews, Sync!Following, SyncInv, SyncOrder, SyncCalls
  <2> QED BY <2>2, <2>3 DEF SyncInv
<1>4. CASE Sync!Noted
  <2>1. CASE Sync!Following
    <3>1. /\ Sync!Joins({}) /\ note' = FALSE
          /\ UNCHANGED <<version, session, file, generation, lastError, resub, stage, again, caller, gap>>
      BY <1>4, <2>1 DEF Sync!Noted
    <3>2. Sync!TypeOK'
      BY <1>0, <3>1, JoinKeeps, SyncTypesNext
    <3>3. SyncOrder' /\ SyncCalls'
      BY <1>0, <2>1, <3>1, JoinsCalls DEF SyncOrder, Sync!Following
    <3> QED BY <3>2, <3>3 DEF SyncInv
  <2>2. CASE ~Sync!Following
    <3>1. Sync!TypeOK'
      BY <1>0, <1>4, <2>2, SyncTypesNext DEF Sync!Noted
    <3>2. SyncOrder' /\ SyncCalls'
      BY <1>4, <2>2 DEF Sync!Noted, SyncInv, SyncOrder, SyncCalls
    <3> QED BY <3>1, <3>2 DEF SyncInv
  <2> QED BY <2>1, <2>2
<1>5. CASE Sync!Read
  <2>1. run # None /\ run' = [run EXCEPT !.at = "read", !.read = version] /\ ~Sync!Starting
        /\ UNCHANGED <<version, session, note, file, pending, generation, lastError, resub, stage, again,
                       caller, gap>>
    BY <1>5 DEF Sync!Read
  <2>2. run \in Runs /\ run' \in Runs /\ run'.at = "read" /\ run'.read = version /\ run'.waiting = run.waiting
    <3>1. run \in Runs /\ version \in 0 .. MaxVersions
      BY <1>0, <2>1
    <3>2. run' \in Runs
      BY <2>1, <3>1 DEF Runs
    <3> QED BY <2>1, <3>1, <3>2 DEF Runs
  <2>3. Sync!TypeOK'
    BY <1>0, <2>1, <2>2, SyncTypesNext
  <2>4. SyncOrder'
    BY <2>1 DEF SyncInv, SyncOrder, Sync!Starting
  <2>5. SyncCalls'
    <3>1. \A c \in run.waiting : c \in Callers
      BY <2>2 DEF Runs
    <3> QED BY <2>1, <2>2, <3>1 DEF SyncInv, SyncCalls
  <2> QED BY <2>3, <2>4, <2>5 DEF SyncInv
<1>6. ASSUME NEW throws \in BOOLEAN, Sync!Written(throws) PROVE SyncInv'
  <2>1. /\ ~Sync!Starting /\ run # None /\ run.at = "read" /\ file' = run.read /\ Sync!EndOf(run.read)
        /\ lastError' \in BOOLEAN /\ UNCHANGED <<version, session, note, generation, resub, stage, again, gap>>
    BY <1>6 DEF Sync!Written
  <2>2. run.read \in 0 .. MaxVersions
    BY <1>0, <2>1 DEF Runs
  <2>3. Sync!TypeOK' /\ SyncCalls'
    BY <1>0, <2>1, <2>2, EndKeepsCalls, SyncTypesNext
  <2>4. SyncOrder'
    BY <2>1 DEF SyncInv, SyncOrder, Sync!Starting
  <2> QED BY <2>3, <2>4 DEF SyncInv
<1>7. CASE Sync!RunFails
  <2>1. /\ ~Sync!Starting /\ run # None /\ Sync!EndOf(0)
        /\ lastError' \in BOOLEAN
        /\ UNCHANGED <<version, session, note, file, generation, resub, stage, again, gap>>
    BY <1>7 DEF Sync!RunFails
  <2>2. 0 \in 0 .. MaxVersions
    BY <1>0
  <2>3. Sync!TypeOK' /\ SyncCalls'
    BY <1>0, <2>1, <2>2, EndKeepsCalls, SyncTypesNext
  <2>4. SyncOrder'
    BY <2>1 DEF SyncInv, SyncOrder, Sync!Starting
  <2> QED BY <2>3, <2>4 DEF SyncInv
<1>8. CASE Sync!Resubscribed
  <2>1. /\ resub = "sent" /\ resub' = "done" /\ session' \in Sync!Sessions
        /\ UNCHANGED <<version, note, file, generation, lastError, stage, again, caller, gap>>
    BY <1>0, <1>8 DEF Sync!Resubscribed, Sync!Sessions
  <2>2. stage \notin {"dropping", "stopped", "stranded"}
    BY <2>1 DEF SyncInv, SyncOrder
  <2>3. CASE UNCHANGED <<run, pending>>
    <3>1. Sync!TypeOK'
      BY <1>0, <2>1, <2>3, SyncTypesNext
    <3>2. SyncOrder' /\ SyncCalls'
      BY <2>1, <2>2, <2>3 DEF SyncInv, SyncOrder, SyncCalls
    <3> QED BY <3>1, <3>2 DEF SyncInv
  <2>4. CASE Sync!Joins({})
    <3>1. Sync!TypeOK'
      BY <1>0, <2>1, <2>4, JoinKeeps, SyncTypesNext
    <3>2. SyncCalls'
      BY <1>0, <2>1, <2>4, JoinsCalls
    <3>3. SyncOrder'
      BY <2>1, <2>2, <2>4, JoinKeeps DEF SyncInv, SyncOrder
    <3> QED BY <3>1, <3>2, <3>3 DEF SyncInv
  <2> QED BY <1>8, <2>3, <2>4 DEF Sync!Resubscribed
<1>9. CASE Sync!ResubscribeFails
  <2>1. Sync!TypeOK'
    BY <1>0, <1>9, SyncTypesNext DEF Sync!ResubscribeFails
  <2>2. SyncOrder' /\ SyncCalls'
    BY <1>9 DEF Sync!ResubscribeFails, SyncInv, SyncOrder, SyncCalls
  <2> QED BY <2>1, <2>2 DEF SyncInv
<1>10. CASE Sync!Subscribe
  <2>1. session' \in Sync!Sessions
    BY <1>0, <1>10 DEF Sync!Subscribe, Sync!Sessions
  <2>2. Sync!TypeOK'
    BY <1>0, <1>10, <2>1, SyncTypesNext DEF Sync!Subscribe
  <2>3. SyncOrder' /\ SyncCalls'
    BY <1>10, <2>1 DEF Sync!Subscribe, SyncInv, SyncOrder, SyncCalls
  <2> QED BY <2>2, <2>3 DEF SyncInv
<1>16. ASSUME NEW refused \in BOOLEAN, Sync!Unsubscribed(refused) PROVE SyncInv'
  <2>1. session' \in Sync!Sessions /\ (~refused => ~session'.subscribed)
    BY <1>0, <1>16 DEF Sync!Unsubscribed, Sync!Sessions
  <2>2. Sync!TypeOK'
    BY <1>0, <1>16, <2>1, SyncTypesNext DEF Sync!Unsubscribed
  <2>3. SyncOrder' /\ SyncCalls'
    BY <1>16, <2>1 DEF Sync!Unsubscribed, SyncInv, SyncOrder, SyncCalls
  <2> QED BY <2>2, <2>3 DEF SyncInv
<1>11. CASE Sync!FirstRead
  <2>1. run' \in Runs /\ run'.waiting = {} /\ stage' = "read"
    <3>1. run' = [at |-> "read", read |-> version, waiting |-> {}] /\ stage' = "read" /\ version \in 0 .. MaxVersions
      BY <1>0, <1>11 DEF Sync!FirstRead
    <3> QED BY <3>1 DEF Runs
  <2>2. Sync!TypeOK'
    BY <1>0, <1>11, <2>1, SyncTypesNext DEF Sync!FirstRead
  <2>3. SyncOrder' /\ SyncCalls'
    BY <1>11, <2>1 DEF Sync!FirstRead, SyncInv, SyncOrder, SyncCalls
  <2> QED BY <2>2, <2>3 DEF SyncInv
<1>12. CASE Sync!FirstWritten
  <2>1. run.read \in 0 .. MaxVersions
    BY <1>0, <1>12 DEF Sync!FirstWritten, SyncInv, SyncOrder, Runs
  <2>2. Sync!TypeOK'
    BY <1>0, <1>12, <2>1, SyncTypesNext DEF Sync!FirstWritten
  <2>3. SyncOrder' /\ SyncCalls'
    BY <1>12 DEF Sync!FirstWritten, SyncInv, SyncOrder, SyncCalls
  <2> QED BY <2>2, <2>3 DEF SyncInv
<1>13. CASE Sync!FirstFails
  <2>1. session' \in Sync!Sessions
    BY <1>0, <1>13 DEF Sync!FirstFails, Sync!Sessions
  <2>4. file' \in 0 .. MaxVersions
    BY <1>0, <1>13 DEF Sync!FirstFails, SyncInv, SyncOrder, Runs
  <2>2. Sync!TypeOK'
    BY <1>0, <1>13, <2>1, <2>4, SyncTypesNext DEF Sync!FirstFails
  <2>3. SyncOrder' /\ SyncCalls'
    BY <1>13 DEF Sync!FirstFails, SyncInv, SyncOrder, SyncCalls
  <2> QED BY <2>2, <2>3 DEF SyncInv
<1>14. CASE Sync!Stop \/ Sync!StopAgain \/ Sync!Dropping
  <2>1. Sync!TypeOK'
    BY <1>0, <1>14, SyncTypesNext DEF Sync!Stop, Sync!StopAgain, Sync!Dropping
  <2>2. SyncOrder' /\ SyncCalls'
    BY <1>14 DEF Sync!Stop, Sync!StopAgain, Sync!Dropping, Sync!Quiet, SyncInv, SyncOrder, SyncCalls
  <2> QED BY <2>1, <2>2 DEF SyncInv
<1>15. ASSUME NEW c \in Callers, Sync!Sync(c) PROVE SyncInv'
  <2>0. /\ caller[c].phase = "idle" /\ caller[c] \in SyncCall
        /\ UNCHANGED <<version, session, note, file, generation, lastError, resub, stage, again, gap>>
    BY <1>0, <1>15 DEF Sync!Sync
  <2>1. CASE Sync!Stopped
    <3>1. caller' = [caller EXCEPT ![c].phase = "answered"] /\ UNCHANGED <<run, pending>>
      BY <1>15, <2>1 DEF Sync!Sync
    <3>2. /\ caller' \in [Callers -> SyncCall]
          /\ \A d \in Callers : /\ caller'[d].asked = caller[d].asked /\ caller'[d].got = caller[d].got
                                /\ caller[d].phase # "idle" => caller'[d].phase # "idle"
      BY <1>0, <2>0, <3>1 DEF SyncCall
    <3>3. Sync!TypeOK'
      BY <1>0, <2>0, <3>1, <3>2, SyncTypesNext
    <3>4. SyncCalls'
      BY <1>0, <2>0, <3>1, <3>2 DEF SyncInv, SyncCalls, Runs
    <3> QED BY <2>0, <3>1, <3>3, <3>4 DEF SyncInv, SyncOrder
  <2>2. CASE ~Sync!Stopped
    <3>1. /\ caller' = [caller EXCEPT ![c] = [phase |-> "waiting", asked |-> version, got |-> 0]] /\ Sync!Joins({c})
          /\ stage = "following"
      BY <1>15, <2>2 DEF Sync!Sync, Sync!Following
    <3>2. /\ caller' \in [Callers -> SyncCall] /\ caller'[c].phase = "waiting" /\ caller'[c].asked = version /\ caller'[c].got = 0
          /\ \A d \in Callers \ {c} : caller'[d] = caller[d]
      BY <1>0, <3>1 DEF SyncCall
    <3>3. Sync!TypeOK'
      BY <1>0, <2>0, <3>1, <3>2, JoinKeeps, SyncTypesNext
    <3>4. SyncCalls'
      BY <2>0, <3>1, <3>2, JoinsCalls
    <3> QED BY <2>0, <3>1, <3>3, <3>4 DEF SyncInv, SyncOrder
  <2> QED BY <2>1, <2>2
<1> QED BY <1>1, <1>2, <1>3, <1>4, <1>5, <1>6, <1>7, <1>8, <1>9, <1>10, <1>11, <1>12, <1>13, <1>14, <1>15,
         <1>16 DEF Sync!Next

(* From the first stop() on nothing begins: what is coalesced is dropped    *)
(* when the run in flight ends, and nobody joins.                           *)
LEMMA SyncEnds == SyncInv /\ Sync!Next /\ Sync!Stopped => Sync!Ending
<1> SUFFICES ASSUME SyncInv, Sync!Next, Sync!Stopped PROVE Sync!Ending
  OBVIOUS
<1>0. stage \notin {"start", "reading", "read", "following"}
  BY DEF Sync!Stopped, Sync!Resolved
<1>1. CASE UNCHANGED <<run, pending>>
  BY <1>1 DEF Sync!Ending
<1>3. CASE Sync!Read
  BY <1>3 DEF Sync!Read, Sync!Ending
<1>4. CASE Sync!Updated \/ Sync!Lost \/ Sync!Online \/ Sync!Noted
  BY <1>0, <1>1, <1>4 DEF Sync!Updated, Sync!Lost, Sync!Online, Sync!Noted, Sync!Following
<1>5. CASE Sync!RunFails \/ \E throws \in BOOLEAN : Sync!Written(throws)
  BY <1>5 DEF Sync!RunFails, Sync!Written, Sync!EndOf, Sync!FollowUp, Sync!Ending
<1>6. CASE Sync!Resubscribed \/ Sync!ResubscribeFails
  BY <1>1, <1>6 DEF Sync!Resubscribed, Sync!ResubscribeFails
<1>7. CASE Sync!Subscribe \/ Sync!FirstRead \/ Sync!FirstWritten \/ Sync!FirstFails \/ Sync!Stop
  BY <1>0, <1>7 DEF Sync!Subscribe, Sync!FirstRead, Sync!FirstWritten, Sync!FirstFails, Sync!Stop, Sync!Starting, Sync!Following
<1>8. CASE Sync!StopAgain \/ Sync!Dropping \/ \E refused \in BOOLEAN : Sync!Unsubscribed(refused)
  BY <1>1, <1>8 DEF Sync!StopAgain, Sync!Dropping, Sync!Unsubscribed
<1>9. ASSUME NEW c \in Callers, Sync!Sync(c) PROVE Sync!Ending
  BY <1>1, <1>9 DEF Sync!Sync
<1> QED BY <1>3, <1>4, <1>5, <1>6, <1>7, <1>8, <1>9 DEF Sync!Next

-----------------------------------------------------------------------------
(* The wait for a task: its outcome is its end.                             *)
TaskInv ==
    /\ Polling!TypeOK /\ Polling!OwnReason
    /\ wait.at # "done" => wait.outcome = "none"

(* It holds before the wait begins.                                         *)
LEMMA TaskBegins == Polling!Init => TaskInv
BY DEF Polling!Init, TaskInv, Polling!TypeOK, Polling!OwnReason, Polling!At, Polling!Statuses, Polling!Terminal, Polling!Outcomes

(* A wait that is cut short ends with the reason, and once only.            *)
LEMMA TaskStep == TaskInv /\ Polling!Next => TaskInv'
<1> SUFFICES ASSUME TaskInv, Polling!Next PROVE TaskInv'
  OBVIOUS
<1> DEFINE Waits == [at : {"idle", "sleeping", "done"} \cup Polling!Requests, outcome : Polling!Outcomes]
           Signals == [given : BOOLEAN, aborted : BOOLEAN]
           Good(w, s) == /\ w \in Waits /\ (w.outcome = "error" => ~s.aborted)
                         /\ w.at # "done" => w.outcome = "none"
<1> USE DEF Polling!Statuses, Polling!Terminal
<1>0. /\ task \in {"none", "gone"} \cup Polling!Statuses /\ wait \in Waits
      /\ answer \in {"none"} \cup Polling!Statuses /\ signal \in Signals /\ Good(wait, signal)
  BY DEF TaskInv, Polling!TypeOK, Polling!OwnReason
<1>1. \A s : /\ \A to \in {"idle", "sleeping", "creating", "getting", "fetching"} : Good(Polling!At(to), s)
             /\ Good(Polling!Over("result"), s) /\ Good(Polling!Over("ended"), s) /\ Good(Polling!Over("reason"), s)
             /\ Good(Polling!Rejected(s), s) /\ Good(Polling!Polls(s), s) /\ Good(Polling!Asleep(s), s)
  BY DEF Polling!At, Polling!Over, Polling!Rejected, Polling!Polls, Polling!Asleep, Polling!Requests, Polling!Outcomes
<1>2. \A s \in Signals : \A t \in Polling!Updated(s) : t \in Signals
  BY DEF Polling!Updated
<1>3. \A s : \A status \in Polling!Statuses : Good(Polling!Advised(status, s), s)
  BY <1>1 DEF Polling!Advised
<1> HIDE DEF Good
<1>4. SUFFICES /\ task' \in {"none", "gone"} \cup Polling!Statuses
               /\ answer' \in {"none"} \cup Polling!Statuses /\ signal' \in Signals /\ Good(wait', signal')
  BY <1>4 DEF TaskInv, Polling!TypeOK, Polling!OwnReason, Good
<1>5. CASE Polling!CallToolViaTask \/ Polling!WaitForTask
  BY <1>0, <1>1, <1>5 DEF Polling!CallToolViaTask, Polling!WaitForTask
<1>6. CASE Polling!Created
  BY <1>0, <1>1, <1>2, <1>6 DEF Polling!Created
<1>7. CASE Polling!Polled
  BY <1>0, <1>2, <1>3, <1>7 DEF Polling!Polled
<1>8. CASE Polling!Fetched \/ Polling!SleepEnds \/ Polling!RequestFails
  BY <1>0, <1>1, <1>8 DEF Polling!Fetched, Polling!SleepEnds, Polling!RequestFails
<1>9. CASE Polling!Abort
  <2>1. signal' = [signal EXCEPT !.aborted = TRUE] /\ UNCHANGED <<task, answer>> /\ wait.at # "done"
        /\ (wait' = Polling!Over("reason") \/ wait' = wait)
    BY <1>9 DEF Polling!Abort
  <2>2. signal' \in Signals
    BY <1>0, <2>1
  <2>3. Good(wait, signal')
    BY <1>0, <2>1 DEF Good
  <2> QED BY <1>0, <1>1, <2>1, <2>2, <2>3
<1>10. CASE Polling!Reads \/ Polling!TaskMoves \/ Polling!TaskForgotten
  BY <1>0, <1>10 DEF Polling!Reads, Polling!TaskMoves, Polling!TaskForgotten
<1> QED BY <1>5, <1>6, <1>7, <1>8, <1>9, <1>10 DEF Polling!Next

-----------------------------------------------------------------------------
(* The clients of a projected server.                                       *)
FrontInv == Front!TypeOK /\ Front!SilentWhenClosed /\ Front!HandlersFenced

(* It holds before the connection is there.                                 *)
LEMMA FrontBegins == Front!Init => FrontInv
BY FollowersAssumption DEF Front!Init, FrontInv, Front!TypeOK, Front!SilentWhenClosed, Front!HandlersFenced, Front!Catalogs

(* A handler compares the connection and its generation before it calls;    *)
(* unsubscribing clears what the bridge had to say.                         *)
LEMMA FrontStep == FrontInv /\ Front!Next => FrontInv'
<1> SUFFICES ASSUME FrontInv, Front!Next PROVE FrontInv'
  OBVIOUS
<1> USE DEF Front!TypeOK, Front!SilentWhenClosed, Front!HandlersFenced
<1> DEFINE Behind == [registered: BOOLEAN, up: BOOLEAN, generation: 0..MaxGenerations, catalog: Front!Catalogs]
           Bridge == [timer: BOOLEAN, due: BOOLEAN, closed: BOOLEAN, sent: BOOLEAN]
           Client == [listed: Front!Catalogs, listing: Front!Catalogs, stale: BOOLEAN]
<1>0. /\ behind \in Behind /\ bridge \in Bridge /\ client \in Client /\ (bridge.closed => ~bridge.due)
      /\ MaxGenerations \in Nat /\ FrontInv
      /\ None \in Front!Catalogs /\ \A c \in SUBSET Tools : c \in Front!Catalogs
  BY BoundsAre DEF FrontInv, Front!Catalogs
<1>1. CASE Front!Connect
  <2>1. behind' \in Behind
    <3>1. behind.generation + 1 \in 0 .. MaxGenerations
      BY <1>0, <1>1 DEF Front!Connect
    <3>2. behind' = [behind EXCEPT !.up = TRUE, !.generation = behind.generation + 1, !.catalog = None]
      BY <1>1 DEF Front!Connect
    <3> QED BY <1>0, <3>1, <3>2
  <2> QED BY <1>0, <1>1, <2>1 DEF Front!Connect, FrontInv
<1>2. CASE Front!GoesDown
  <2>1. behind' \in Behind
    BY <1>0, <1>2 DEF Front!GoesDown
  <2> QED BY <1>0, <1>2, <2>1 DEF Front!GoesDown, FrontInv
<1>3. CASE Front!Refresh \/ Front!Remove
  <2>1. behind' \in Behind
    BY <1>0, <1>3 DEF Front!Refresh, Front!Remove
  <2>2. bridge' \in Bridge /\ (bridge'.closed => ~bridge'.due)
    BY <1>0, <1>3 DEF Front!Refresh, Front!Remove, Front!Heard
  <2> QED BY <1>0, <1>3, <2>1, <2>2 DEF Front!Refresh, Front!Remove, FrontInv
<1>4. CASE Front!Fire \/ Front!Unsubscribe
  <2>1. bridge' \in Bridge /\ ~bridge'.due
    BY <1>0, <1>4 DEF Front!Fire, Front!Fired, Front!Unsubscribe, Front!Unsubscribed
  <2> QED BY <1>0, <1>4, <2>1 DEF Front!Fire, Front!Unsubscribe, FrontInv
<1>5. CASE Front!Told
  <2>1. bridge' \in Bridge /\ bridge'.closed = bridge.closed /\ bridge'.due = bridge.due /\ client' \in Client
    BY <1>0, <1>5 DEF Front!Told
  <2> QED BY <1>0, <1>5, <2>1 DEF Front!Told, FrontInv
<1>6. CASE Front!Lists \/ Front!Listed
  <2>1. Front!Provided(behind.catalog) \in Front!Catalogs
    BY <1>0 DEF Front!Provided, Front!Catalogs
  <2>2. client' \in Client
    BY <1>0, <1>6, <2>1 DEF Front!Lists, Front!Listed
  <2> QED BY <1>0, <1>6, <2>2 DEF Front!Lists, Front!Listed, FrontInv
<1>7. CASE Front!Materialize \/ Front!Calls \/ Front!Ends
  <2>1. Front!Resolved \in Front!Control
    BY <1>0 DEF Front!Resolved, Front!Control
  <2>2. UNCHANGED <<behind, bridge, client>>
    BY <1>7 DEF Front!Materialize, Front!Calls, Front!Ends
  <2>3. /\ invoked' \in {None} \cup [control: Front!Control, to: {None} \cup Front!Control]
        /\ invoked' # None /\ invoked'.to # None => invoked'.to = invoked'.control
    <3>1. CASE Front!Materialize
      BY <2>1, <3>1 DEF Front!Materialize
    <3>2. CASE Front!Calls
      <4>1. /\ invoked \in [control: Front!Control, to: {None} \cup Front!Control]
            /\ invoked' = [invoked EXCEPT !.to = Front!Resolved] /\ Front!Admits(invoked.control)
        BY <1>0, <3>2 DEF Front!Calls, FrontInv
      <4>2. invoked.control = Front!Resolved
        BY <4>1 DEF Front!Admits, Front!Resolved, Front!Control
      <4> QED BY <2>1, <4>1, <4>2
    <3>3. CASE Front!Ends
      BY <3>3 DEF Front!Ends
    <3> QED BY <1>7, <3>1, <3>2, <3>3
  <2> QED BY <1>0, <2>2, <2>3 DEF FrontInv
<1> QED BY <1>1, <1>2, <1>3, <1>4, <1>5, <1>6, <1>7 DEF Front!Next

-----------------------------------------------------------------------------
(* The config file.  What the queue holds, and what is watched when.        *)
Emits == [at : {"queued", "read"}, version : 0 .. MaxVersions, kind : Watch!Kinds]
WatchOrder ==
    /\ phase \in {"start", "primed"} => ~timer /\ poll.at = "off" /\ queue = <<>>
    /\ phase \in {"closing", "closed"} => ~timer /\ handle.on = 0 /\ poll.at = "off"
    /\ phase = "closed" => queue = <<>>
    /\ \A i \in 2 .. Len(queue) : queue[i].at = "queued"

(* The digest that is recorded is of the content that was handed over, until*)
(* a newer one is read; no content that is in hand is older.                *)
Newest(c) ==
    /\ delivered.version <= c.version
    /\ delivered.version = c.version /\ c.kind # "denied" => digest = Watch!DigestOf(c)
WatchNewest ==
    /\ disk.version # 0 /\ Newest(disk)
    /\ queue # <<>> /\ queue[1].at = "read" =>
         /\ Newest(queue[1]) /\ queue[1].version <= disk.version
         /\ queue[1].version = disk.version => queue[1].kind = disk.kind

WatchInv == Watch!TypeOK /\ WatchOrder /\ WatchNewest

(* The type invariant by these sets.                                        *)
Disks == [dir : 0 .. MaxDirs, version : 0 .. MaxVersions, kind : Watch!Kinds]
Handles == [on : 0 .. MaxDirs, identity : 0 .. MaxDirs, events : SUBSET {"file", "self"}]
Polls == [at : {"off", "starting", "on"}, version : 0 .. MaxVersions, kind : Watch!Kinds]
Deliveries == [calls : Nat, version : 0 .. MaxVersions]
LEMMA WatchTypes ==
    Watch!TypeOK <=>
      /\ disk \in Disks /\ (disk.dir = 0 => disk.kind = "absent") /\ handle \in Handles /\ poll \in Polls
      /\ timer \in BOOLEAN /\ queue \in Seq(Emits) /\ Len(queue) <= MaxQueue /\ digest \in Watch!Digests
      /\ delivered \in Deliveries /\ phase \in {"start", "primed", "open", "closing", "closed"}
      /\ options \in [initial : BOOLEAN, poll : BOOLEAN] /\ missed \in 0 .. MaxGap
BY DEF Watch!TypeOK, Disks, Handles, Polls, Deliveries, Emits

(* And of the state after a step.                                           *)
LEMMA WatchTypesNext ==
    Watch!TypeOK' <=>
      /\ disk' \in Disks /\ (disk'.dir = 0 => disk'.kind = "absent") /\ handle' \in Handles /\ poll' \in Polls
      /\ timer' \in BOOLEAN /\ queue' \in Seq(Emits) /\ Len(queue') <= MaxQueue /\ digest' \in Watch!Digests
      /\ delivered' \in Deliveries /\ phase' \in {"start", "primed", "open", "closing", "closed"}
      /\ options' \in [initial : BOOLEAN, poll : BOOLEAN] /\ missed' \in 0 .. MaxGap
BY DEF Watch!TypeOK, Disks, Handles, Polls, Deliveries, Emits

(* What is known of the watch at a step.                                    *)
LEMMA WatchIs ==
    ASSUME WatchInv
    PROVE  /\ disk \in Disks /\ (disk.dir = 0 => disk.kind = "absent") /\ handle \in Handles /\ poll \in Polls
           /\ timer \in BOOLEAN /\ queue \in Seq(Emits) /\ Len(queue) \in 0 .. MaxQueue /\ digest \in Watch!Digests
           /\ delivered \in Deliveries /\ phase \in {"start", "primed", "open", "closing", "closed"}
           /\ options \in [initial : BOOLEAN, poll : BOOLEAN] /\ missed \in 0 .. MaxGap
           /\ disk.dir \in 0 .. MaxDirs /\ disk.version \in 1 .. MaxVersions /\ disk.kind \in Watch!Kinds
           /\ delivered.version \in 0 .. MaxVersions /\ delivered.calls \in Nat
           /\ MaxQueue \in Nat \ {0} /\ MaxVersions \in Nat \ {0} /\ MaxDirs \in Nat \ {0} /\ MaxGap \in Nat
<1>1. Watch!TypeOK /\ disk.version # 0
  BY DEF WatchInv, WatchNewest
<1>2. /\ disk \in Disks /\ queue \in Seq(Emits) /\ Len(queue) <= MaxQueue /\ delivered \in Deliveries
  BY <1>1, WatchTypes
<1>3. Len(queue) \in 0 .. MaxQueue
  BY <1>2, BoundsAre, LenProperties
<1>4. disk.dir \in 0 .. MaxDirs /\ disk.version \in 0 .. MaxVersions /\ disk.kind \in Watch!Kinds
      /\ delivered.version \in 0 .. MaxVersions /\ delivered.calls \in Nat
  BY <1>2 DEF Disks, Deliveries
<1> QED BY <1>1, <1>2, <1>3, <1>4, BoundsAre, WatchTypes

(* It holds at the start.                                                   *)
LEMMA WatchBegins == Watch!Init => WatchInv
<1> SUFFICES ASSUME Watch!Init PROVE WatchInv
  OBVIOUS
<1>0. /\ 1 \in 0 .. MaxVersions /\ 0 \in 0 .. MaxVersions /\ 0 \in 0 .. MaxDirs /\ 1 \in 0 .. MaxDirs
      /\ 0 \in 0 .. MaxGap /\ MaxVersions + 1 \in 0 .. MaxVersions + 1 /\ MaxQueue \in Nat
  BY BoundsAre
<1>1. /\ disk \in Disks /\ (disk.dir = 0 => disk.kind = "absent") /\ disk.version = 1
      /\ \/ disk.kind = "absent"
         \/ disk.kind = "good"
  BY <1>0 DEF Watch!Init, Disks, Watch!Kinds
<1>2. /\ handle \in Handles /\ poll \in Polls /\ poll.at = "off" /\ handle.on = 0
  BY <1>0 DEF Watch!Init, Watch!NoHandle, Watch!NoPoll, Handles, Polls, Watch!Kinds
<1>3. delivered \in Deliveries /\ delivered.version = 0
  BY <1>0 DEF Watch!Init, Deliveries
<1>4. queue = <<>> /\ queue \in Seq(Emits) /\ Len(queue) = 0 /\ digest \in Watch!Digests
  BY <1>0, EmptySeq DEF Watch!Init, Watch!Digests, Watch!NoDigest
<1>5. Watch!TypeOK
  <2>1. /\ timer \in BOOLEAN /\ phase \in {"start", "primed", "open", "closing", "closed"}
        /\ options \in [initial : BOOLEAN, poll : BOOLEAN] /\ missed \in 0 .. MaxGap
    BY <1>0 DEF Watch!Init
  <2>2. Len(queue) <= MaxQueue
    BY <1>0, <1>4
  <2> QED BY <1>1, <1>2, <1>3, <1>4, <2>1, <2>2, WatchTypes
<1>6. WatchOrder
  BY <1>2, <1>4 DEF Watch!Init, WatchOrder
<1>7. WatchNewest
  BY <1>1, <1>3, <1>4 DEF WatchNewest, Newest
<1> QED BY <1>5, <1>6, <1>7 DEF WatchInv

(* A step that changes the disk, if only to something newer.                *)
LEMMA DiskKeeps ==
    ASSUME WatchInv, UNCHANGED <<poll, timer, queue, digest, delivered, phase, options>>,
           disk' \in Disks, disk'.dir = 0 => disk'.kind = "absent",
           \/ disk'.version = disk.version /\ disk'.kind = disk.kind
           \/ disk'.version = disk.version + 1,
           Watch!Noticed({"file"}) \/ Watch!Noticed({"file", "self"}) \/ UNCHANGED <<handle, missed>>
    PROVE  WatchInv'
<1>0. /\ handle \in Handles /\ missed \in 0 .. MaxGap /\ MaxGap \in Nat /\ queue \in Seq(Emits) /\ Watch!TypeOK
      /\ disk.version \in 1 .. MaxVersions /\ delivered.version \in 0 .. MaxVersions /\ MaxVersions \in Nat
  BY WatchIs DEF WatchInv
<1>1. handle' \in Handles /\ (handle.on = 0 => handle'.on = 0)
  <2>1. CASE handle' = handle
    BY <1>0, <2>1
  <2>2. CASE \E events \in {{"file"}, {"file", "self"}} : handle' = [handle EXCEPT !.events = @ \cup events] /\ handle.on # 0
    <3>1. PICK events \in {{"file"}, {"file", "self"}} : handle' = [handle EXCEPT !.events = handle.events \cup events] /\ handle.on # 0
      BY <2>2
    <3>2. events \subseteq {"file", "self"} /\ handle.events \subseteq {"file", "self"}
      BY <1>0 DEF Handles
    <3> QED BY <1>0, <3>1, <3>2 DEF Handles
  <2> QED BY <2>1, <2>2 DEF Watch!Noticed, Watch!HandleSees
<1>2. missed' \in 0 .. MaxGap
  BY <1>0 DEF Watch!Noticed
<1>3. Watch!TypeOK'
  BY <1>0, <1>1, <1>2, WatchTypes, WatchTypesNext
<1>4. WatchOrder'
  BY <1>1 DEF WatchInv, WatchOrder
<1>5. WatchNewest'
  <2>1. disk'.version # 0 /\ Newest(disk)'
    BY <1>0 DEF WatchInv, WatchNewest, Newest, Watch!DigestOf
  <2>2. ASSUME queue # <<>>, queue[1].at = "read"
        PROVE  /\ Newest(queue[1])' /\ queue[1].version <= disk'.version
               /\ queue[1].version = disk'.version => queue[1].kind = disk'.kind
    <3>1. /\ Newest(queue[1]) /\ queue[1].version <= disk.version
          /\ queue[1].version = disk.version => queue[1].kind = disk.kind
      BY <2>2 DEF WatchInv, WatchNewest
    <3>2. Newest(queue[1])'
      BY <3>1 DEF Newest, Watch!DigestOf
    <3>3. queue[1].version \in 0 .. MaxVersions
      <4>1. queue[1] \in Emits
        BY <1>0, <2>2, EmptySeq, ElementOfSeq
      <4> QED BY <4>1 DEF Emits
    <3> QED BY <1>0, <3>1, <3>2, <3>3
  <2> QED BY <2>1, <2>2 DEF WatchNewest
<1> QED BY <1>3, <1>4, <1>5 DEF WatchInv

(* What an external program does to the file and its directory.             *)
LEMMA DiskStep ==
    ASSUME WatchInv, \/ \E kind \in Watch!Kinds : Watch!Edit(kind)
                     \/ Watch!Touched \/ Watch!DirGone \/ \E d \in 1 .. MaxDirs : Watch!DirBack(d)
    PROVE  WatchInv' /\ UNCHANGED delivered
<1>0. /\ disk \in Disks /\ disk.dir \in 0 .. MaxDirs /\ disk.version \in 1 .. MaxVersions /\ disk.kind \in Watch!Kinds
      /\ (disk.dir = 0 => disk.kind = "absent") /\ MaxVersions \in Nat /\ MaxDirs \in Nat /\ "absent" \in Watch!Kinds
  BY WatchIs DEF Watch!Kinds
<1>1. ASSUME NEW kind \in Watch!Kinds, Watch!Edit(kind) PROVE WatchInv' /\ UNCHANGED delivered
  <2>1. /\ disk' = [disk EXCEPT !.version = disk.version + 1, !.kind = kind] /\ disk.dir # 0 /\ disk.version < MaxVersions
        /\ Watch!Noticed({"file"}) /\ UNCHANGED <<poll, timer, queue, digest, delivered, phase, options>>
    BY <1>1 DEF Watch!Edit
  <2>2. disk' \in Disks /\ disk'.dir # 0 /\ disk'.version = disk.version + 1
    <3>1. disk.version + 1 \in 0 .. MaxVersions /\ disk = [disk EXCEPT !.kind = disk.kind]
      BY <1>0, <2>1 DEF Disks
    <3>2. disk \in [dir : 0 .. MaxDirs, version : 0 .. MaxVersions, kind : Watch!Kinds]
      BY <1>0 DEF Disks
    <3>3. [disk EXCEPT !.version = disk.version + 1, !.kind = kind] \in
            [dir : 0 .. MaxDirs, version : 0 .. MaxVersions, kind : Watch!Kinds]
      BY <1>1, <3>1, <3>2
    <3> QED BY <2>1, <3>2, <3>3 DEF Disks
  <2> QED BY <2>1, <2>2, DiskKeeps
<1>2. CASE Watch!Touched
  BY <1>0, <1>2, DiskKeeps DEF Watch!Touched
<1>3. CASE Watch!DirGone
  <2>1. /\ disk' = [dir |-> 0, kind |-> "absent",
                    version |-> IF disk.kind = "absent" THEN disk.version ELSE disk.version + 1]
        /\ (disk.kind # "absent" => disk.version < MaxVersions)
        /\ Watch!Noticed({"file", "self"}) /\ UNCHANGED <<poll, timer, queue, digest, delivered, phase, options>>
    BY <1>3 DEF Watch!DirGone
  <2>2. /\ disk' \in Disks /\ disk'.kind = "absent"
        /\ \/ disk'.version = disk.version /\ disk'.kind = disk.kind
           \/ disk'.version = disk.version + 1
    BY <1>0, <2>1 DEF Disks
  <2> QED BY <2>1, <2>2, DiskKeeps
<1>4. ASSUME NEW d \in 1 .. MaxDirs, Watch!DirBack(d) PROVE WatchInv' /\ UNCHANGED delivered
  <2>1. disk' = [disk EXCEPT !.dir = d] /\ UNCHANGED <<handle, poll, timer, queue, digest, delivered, phase, options, missed>>
    BY <1>4 DEF Watch!DirBack
  <2>2. disk' \in Disks /\ disk'.dir # 0 /\ disk'.version = disk.version /\ disk'.kind = disk.kind
    BY <1>0, <2>1 DEF Disks
  <2> QED BY <2>1, <2>2, DiskKeeps
<1> QED BY <1>1, <1>2, <1>3, <1>4

(* A step that touches neither the disk nor what was read and told.         *)
LEMMA WatchersKeep ==
    ASSUME WatchInv, UNCHANGED <<disk, queue, digest, delivered, options>>,
           handle' \in Handles, poll' \in Polls, timer' \in BOOLEAN, missed' \in 0 .. MaxGap,
           phase' \in {"start", "primed", "open", "closing", "closed"}, WatchOrder'
    PROVE  WatchInv'
<1>1. Watch!TypeOK'
  BY WatchTypes, WatchTypesNext DEF WatchInv
<1>2. WatchNewest'
  BY DEF WatchInv, WatchNewest, Newest, Watch!DigestOf
<1> QED BY <1>1, <1>2 DEF WatchInv

(* The ways of watching, and the end.                                       *)
LEMMA WatchersStep ==
    ASSUME WatchInv, \/ Watch!FileEvent \/ Watch!SelfEvent \/ Watch!WatchError \/ Watch!PollStarts \/ Watch!PollTick
                     \/ Watch!Close \/ Watch!Closes
    PROVE  WatchInv' /\ UNCHANGED delivered
<1>0. /\ disk \in Disks /\ handle \in Handles /\ poll \in Polls /\ missed \in 0 .. MaxGap /\ MaxGap \in Nat
      /\ disk.dir \in 0 .. MaxDirs /\ disk.version \in 0 .. MaxVersions /\ disk.kind \in Watch!Kinds
      /\ timer \in BOOLEAN /\ phase \in {"start", "primed", "open", "closing", "closed"} /\ WatchOrder
      /\ 0 \in 0 .. MaxDirs /\ 0 \in 0 .. MaxVersions
  BY WatchIs DEF WatchInv
<1>1. /\ Watch!NoHandle \in Handles /\ Watch!NoHandle.on = 0 /\ Watch!NoPoll \in Polls /\ Watch!NoPoll.at = "off"
  BY <1>0 DEF Watch!NoHandle, Watch!NoPoll, Handles, Polls, Watch!Kinds
<1>2. Watch!Opened \in Handles /\ Watch!Copy("on") \in Polls /\ Watch!Polling \in Polls
  BY <1>0 DEF Watch!Opened, Watch!Copy, Watch!Polling, Handles, Polls
<1>3. \A events : [handle EXCEPT !.events = handle.events \ events] \in Handles
  BY <1>0 DEF Handles
<1>4. CASE Watch!FileEvent
  <2>1. /\ phase = "open" /\ handle' \in Handles /\ timer' = TRUE
        /\ UNCHANGED <<disk, poll, queue, digest, delivered, phase, options, missed>>
    BY <1>3, <1>4 DEF Watch!FileEvent, Watch!Open, Watch!Triggers
  <2> QED BY <1>0, <2>1, WatchersKeep DEF WatchOrder
<1>5. CASE Watch!SelfEvent
  <2>1. /\ phase = "open" /\ handle' \in Handles /\ timer' \in BOOLEAN /\ poll' \in Polls
        /\ UNCHANGED <<disk, queue, digest, delivered, phase, options, missed>>
    BY <1>0, <1>1, <1>2, <1>3, <1>5 DEF Watch!SelfEvent, Watch!Open, Watch!Triggers
  <2> QED BY <1>0, <2>1, WatchersKeep DEF WatchOrder
<1>6. CASE Watch!WatchError
  <2>1. /\ phase = "open" /\ handle' \in Handles /\ poll' \in Polls /\ missed' \in 0 .. MaxGap
        /\ UNCHANGED <<disk, timer, queue, digest, delivered, phase, options>>
    BY <1>0, <1>1, <1>2, <1>6 DEF Watch!WatchError, Watch!Open
  <2> QED BY <1>0, <2>1, WatchersKeep DEF WatchOrder
<1>7. CASE Watch!PollStarts \/ Watch!PollTick
  <2>1. /\ poll.at # "off" /\ poll' \in Polls /\ timer' \in BOOLEAN
        /\ UNCHANGED <<disk, handle, queue, digest, delivered, phase, options, missed>>
    BY <1>0, <1>2, <1>7 DEF Watch!PollStarts, Watch!PollTick, Watch!Triggers
  <2> QED BY <1>0, <2>1, WatchersKeep DEF WatchOrder
<1>8. CASE Watch!Close
  BY <1>0, <1>1, <1>8, WatchersKeep DEF Watch!Close, Watch!Open, WatchOrder
<1>9. CASE Watch!Closes
  BY <1>0, <1>9, WatchersKeep DEF Watch!Closes, Watch!Drained, WatchOrder
<1> QED BY <1>4, <1>5, <1>6, <1>7, <1>8, <1>9 DEF Watch!FileEvent, Watch!SelfEvent, Watch!WatchError, Watch!PollStarts, Watch!PollTick,
      Watch!Close, Watch!Closes

(* The start: what is primed counts as told.                                *)
LEMMA PrimeStep ==
    ASSUME WatchInv, Watch!Prime
    PROVE  WatchInv' /\ delivered'.calls = delivered.calls
<1>0. /\ disk.version \in 1 .. MaxVersions /\ disk.kind \in Watch!Kinds /\ delivered \in Deliveries
      /\ MaxVersions \in Nat /\ queue = <<>> /\ phase = "start" /\ WatchOrder /\ Watch!TypeOK /\ phase' = "primed"
      /\ UNCHANGED <<disk, handle, poll, timer, queue, options, missed>>
  BY WatchIs DEF WatchInv, WatchOrder, Watch!Prime
<1>1. delivered' \in Deliveries /\ delivered'.calls = delivered.calls
      /\ delivered'.version = IF options.initial THEN 0 ELSE disk.version
  BY <1>0 DEF Watch!Prime, Deliveries
<1>2. digest' \in Watch!Digests
  BY <1>0 DEF Watch!Prime, Watch!Digests, Watch!NoDigest, Watch!DigestOf
<1>3. Watch!TypeOK'
  BY <1>0, <1>1, <1>2, WatchTypes, WatchTypesNext
<1>4. WatchOrder'
  BY <1>0 DEF WatchOrder
<1>5. WatchNewest'
  BY <1>0, <1>1 DEF Watch!Prime, WatchNewest, Newest, Watch!DigestOf
<1> QED BY <1>1, <1>3, <1>4, <1>5 DEF WatchInv

(* The watchers are armed.                                                  *)
LEMMA ArmStep ==
    ASSUME WatchInv, Watch!Arm
    PROVE  WatchInv' /\ UNCHANGED delivered
<1>0. /\ disk \in Disks /\ disk.dir \in 0 .. MaxDirs /\ disk.version \in 0 .. MaxVersions /\ disk.kind \in Watch!Kinds
      /\ handle \in Handles /\ poll \in Polls /\ MaxQueue \in Nat \ {0} /\ phase' = "open" /\ Watch!TypeOK
      /\ UNCHANGED <<disk, timer, digest, delivered, options, missed>>
  BY WatchIs DEF WatchInv, Watch!Arm
<1>1. handle' \in Handles /\ poll' \in Polls
  BY <1>0 DEF Watch!Arm, Watch!Opened, Watch!Polling, Watch!Copy, Handles, Polls
<1>2. /\ queue' \in Seq(Emits) /\ Len(queue') <= MaxQueue /\ Len(queue') <= 1
      /\ \A i \in 1 .. Len(queue') : queue'[i].at = "queued"
  <2>1. CASE queue' = <<Watch!Copy("queued")>>
    <3>1. Watch!Copy("queued") \in Emits /\ Watch!Copy("queued").at = "queued"
      BY <1>0 DEF Watch!Copy, Emits
    <3>2. <<Watch!Copy("queued")>> \in Seq(Emits) /\ Len(<<Watch!Copy("queued")>>) = 1
          /\ <<Watch!Copy("queued")>>[1] = Watch!Copy("queued")
      BY <3>1
    <3> QED BY <1>0, <2>1, <3>1, <3>2
  <2>2. CASE queue' = <<>>
    BY <1>0, <2>2, EmptySeq
  <2> QED BY <2>1, <2>2 DEF Watch!Arm
<1>3. Watch!TypeOK'
  BY <1>0, <1>1, <1>2, WatchTypes, WatchTypesNext
<1>4. WatchOrder'
  BY <1>0, <1>2 DEF WatchOrder
<1>5. WatchNewest'
  <2>1. ~(queue' # <<>> /\ queue'[1].at = "read")
    BY <1>2, EmptySeq
  <2> QED BY <1>0, <2>1 DEF WatchInv, WatchNewest, Newest, Watch!DigestOf
<1> QED BY <1>0, <1>3, <1>4, <1>5 DEF WatchInv

(* The timer fires: another read is queued.                                 *)
LEMMA TimerStep ==
    ASSUME WatchInv, Watch!TimerFires
    PROVE  WatchInv' /\ UNCHANGED delivered
<1> DEFINE e == [at |-> "queued", version |-> 0, kind |-> "absent"]
<1>0. /\ queue \in Seq(Emits) /\ Len(queue) \in 0 .. MaxQueue /\ MaxQueue \in Nat /\ Watch!TypeOK /\ WatchOrder
      /\ timer /\ timer' = FALSE /\ Len(queue) < MaxQueue /\ queue' = Append(queue, e)
      /\ UNCHANGED <<disk, handle, poll, digest, delivered, phase, options, missed>>
      /\ e \in Emits /\ e.at = "queued"
  BY WatchIs, BoundsAre DEF WatchInv, Watch!TimerFires, Emits, Watch!Kinds
<1> HIDE DEF e
<1>1. /\ queue' \in Seq(Emits) /\ Len(queue') = Len(queue) + 1
      /\ \A i \in 1 .. Len(queue) : queue'[i] = queue[i]
      /\ queue'[Len(queue) + 1] = e
  BY <1>0, AppendProperties
<1>2. Watch!TypeOK'
  <2>1. Len(queue') <= MaxQueue
    <3>1. ASSUME NEW n \in 0 .. MaxQueue, n < MaxQueue PROVE n + 1 <= MaxQueue
      BY <1>0, <3>1
    <3> QED BY <1>0, <1>1, <3>1
  <2>2. timer' \in BOOLEAN
    BY <1>0
  <2> QED BY <1>0, <1>1, <2>1, <2>2, WatchTypes, WatchTypesNext
<1>3. WatchOrder'
  BY <1>0, <1>1 DEF WatchOrder
<1>4. WatchNewest'
  <2>1. CASE Len(queue) = 0
    <3>1. queue'[1].at = "queued"
      BY <1>0, <1>1, <2>1
    <3> QED BY <1>0, <3>1 DEF WatchInv, WatchNewest, Newest, Watch!DigestOf
  <2>2. CASE Len(queue) # 0
    <3>1. queue # <<>> /\ queue'[1] = queue[1]
      BY <1>0, <1>1, <2>2, EmptySeq
    <3> QED BY <1>0, <3>1 DEF WatchInv, WatchNewest, Newest, Watch!DigestOf
  <2> QED BY <2>1, <2>2
<1> QED BY <1>0, <1>2, <1>3, <1>4 DEF WatchInv

(* The first of the queue is done: the others move up.                      *)
LEMMA WithoutFirst ==
    ASSUME NEW q \in Seq(Emits), q # <<>>, queue = q
    PROVE  /\ Watch!Without(1) \in Seq(Emits) /\ Len(Watch!Without(1)) = Len(q) - 1
           /\ \A i \in 1 .. Len(q) - 1 : Watch!Without(1)[i] = q[i + 1]
<1>1. Len(q) \in Nat \ {0}
  BY EmptySeq
<1>2. \A i \in 2 .. Len(q) : q[i] \in Emits
  BY <1>1, ElementOfSeq
<1>3. SubSeq(q, 1, 0) = <<>>
  BY SubSeqEmpty
<1>4. /\ SubSeq(q, 2, Len(q)) \in Seq(Emits)
      /\ Len(SubSeq(q, 2, Len(q))) = Len(q) - 1
      /\ \A i \in 1 .. Len(q) - 1 : SubSeq(q, 2, Len(q))[i] = q[i + 1]
  <2>1. /\ SubSeq(q, 2, Len(q)) \in Seq(Emits)
        /\ Len(SubSeq(q, 2, Len(q))) = IF 2 <= Len(q) THEN Len(q) - 2 + 1 ELSE 0
        /\ \A i \in 1 .. Len(q) - 2 + 1 : SubSeq(q, 2, Len(q))[i] = q[2 + i - 1]
    BY <1>1, <1>2, SubSeqProperties
  <2>2. Len(q) - 2 + 1 = Len(q) - 1 /\ Len(SubSeq(q, 2, Len(q))) = Len(q) - 1
    <3>1. ASSUME NEW n \in Nat \ {0} PROVE n - 2 + 1 = n - 1 /\ (2 <= n \/ (n = 1 /\ ~(2 <= n) /\ n - 1 = 0))
      OBVIOUS
    <3>2. CASE 2 <= Len(q)
      BY <1>1, <2>1, <3>1, <3>2
    <3>3. CASE ~(2 <= Len(q))
      BY <1>1, <2>1, <3>1, <3>3
    <3> QED BY <3>2, <3>3
  <2>3. \A i \in 1 .. Len(q) - 1 : 2 + i - 1 = i + 1
    BY <1>1
  <2>4. \A i \in 1 .. Len(q) - 1 : SubSeq(q, 2, Len(q))[i] = q[2 + i - 1]
    BY <2>1, <2>2
  <2> QED BY <2>1, <2>2, <2>3, <2>4
<1>5. Watch!Without(1) = SubSeq(q, 2, Len(q))
  <2>1. Watch!Without(1) = SubSeq(q, 1, 0) \o SubSeq(q, 2, Len(q))
    BY DEF Watch!Without
  <2> QED BY <1>3, <1>4, <2>1, ConcatEmptySeq
<1> QED BY <1>4, <1>5

(* A read begins, or its result is looked at.                               *)
LEMMA EmitStep ==
    ASSUME WatchInv, NEW i \in 1 .. Len(queue), Watch!EmitReads(i) \/ Watch!EmitEnds(i)
    PROVE  WatchInv' /\ (delivered'.calls # delivered.calls => delivered'.version > delivered.version)
<1>0. /\ queue \in Seq(Emits) /\ Len(queue) \in 0 .. MaxQueue /\ MaxQueue \in Nat /\ MaxVersions \in Nat
      /\ Watch!TypeOK /\ WatchOrder /\ WatchNewest
      /\ disk.version \in 1 .. MaxVersions /\ disk.kind \in Watch!Kinds
      /\ digest \in Watch!Digests /\ delivered \in Deliveries /\ delivered.version \in 0 .. MaxVersions
      /\ UNCHANGED <<disk, handle, poll, timer, phase, options, missed>>
  BY WatchIs DEF WatchInv, Watch!EmitReads, Watch!EmitEnds
<1>1. i = 1 /\ queue # <<>> /\ queue[1] \in Emits
  <2>1. i = 1
    BY DEF Watch!EmitReads, Watch!EmitEnds, Watch!Runs
  <2> QED BY <1>0, <2>1, EmptySeq, ElementOfSeq
<1>2. phase \notin {"start", "primed", "closed"}
  BY <1>0, <1>1 DEF WatchOrder
<1>3. /\ Watch!Without(1) \in Seq(Emits) /\ Len(Watch!Without(1)) = Len(queue) - 1
      /\ \A j \in 1 .. Len(queue) - 1 : Watch!Without(1)[j] = queue[j + 1]
  BY <1>0, <1>1, WithoutFirst
<1>4. Watch!Without(1) # <<>> => Watch!Without(1)[1].at = "queued"
  <2>1. Watch!Without(1) # <<>> => 1 \in 1 .. Len(queue) - 1 /\ 2 \in 2 .. Len(queue)
    BY <1>0, <1>3, EmptySeq
  <2> QED BY <1>0, <1>3, <2>1 DEF WatchOrder
<1>5. \A j \in 2 .. Len(queue) - 1 : Watch!Without(1)[j].at = "queued"
  BY <1>0, <1>3 DEF WatchOrder
<1>6. CASE Watch!EmitReads(i)
  <2>1. UNCHANGED <<digest, delivered>>
    BY <1>6 DEF Watch!EmitReads
  <2>2. CASE queue' = Watch!Without(1)
    <3>1. Watch!TypeOK'
      BY <1>0, <1>3, <2>1, <2>2, WatchTypes, WatchTypesNext
    <3>2. WatchOrder'
      BY <1>0, <1>2, <1>3, <1>5, <2>2 DEF WatchOrder
    <3>3. WatchNewest'
      BY <1>0, <1>4, <2>1, <2>2 DEF WatchNewest, Newest, Watch!DigestOf
    <3> QED BY <2>1, <3>1, <3>2, <3>3 DEF WatchInv
  <2>3. CASE queue' = [queue EXCEPT ![1] = Watch!Copy("read")]
    <3>1. Watch!Copy("read") \in Emits /\ Watch!Copy("read").version = disk.version /\ Watch!Copy("read").kind = disk.kind
      BY <1>0 DEF Watch!Copy, Emits
    <3>2. /\ queue' \in Seq(Emits) /\ Len(queue') = Len(queue) /\ queue'[1] = Watch!Copy("read")
          /\ \A j \in 2 .. Len(queue) : queue'[j] = queue[j]
      <4>1. 1 \in 1 .. Len(queue) /\ \A j \in 2 .. Len(queue) : j \in 1 .. Len(queue) /\ j # 1
        BY <1>0, <1>1
      <4>2. /\ [queue EXCEPT ![1] = Watch!Copy("read")] \in Seq(Emits)
            /\ Len([queue EXCEPT ![1] = Watch!Copy("read")]) = Len(queue)
            /\ \A j \in 1 .. Len(queue) :
                  [queue EXCEPT ![1] = Watch!Copy("read")][j] = IF j = 1 THEN Watch!Copy("read") ELSE queue[j]
        BY <1>0, <3>1, <4>1, ExceptSeq
      <4> QED BY <2>3, <4>1, <4>2
    <3>3. Watch!TypeOK'
      BY <1>0, <2>1, <3>2, WatchTypes, WatchTypesNext
    <3>4. WatchOrder'
      BY <1>0, <1>2, <3>2 DEF WatchOrder
    <3>5. WatchNewest'
      BY <1>0, <2>1, <3>1, <3>2 DEF WatchNewest, Newest, Watch!DigestOf
    <3> QED BY <2>1, <3>3, <3>4, <3>5 DEF WatchInv
  <2> QED BY <1>1, <1>6, <2>1, <2>2, <2>3 DEF Watch!EmitReads
<1>7. CASE Watch!EmitEnds(i)
  <2> DEFINE e == queue[1]
             news == e.kind # "denied" /\ digest # Watch!DigestOf(e)
  <2>1. /\ e.at = "read" /\ queue' = Watch!Without(1)
        /\ digest' = IF news THEN Watch!DigestOf(e) ELSE digest
        /\ delivered' = IF news /\ e.kind # "bad" /\ Watch!Open
                        THEN [calls |-> delivered.calls + 1, version |-> e.version] ELSE delivered
    BY <1>1, <1>7 DEF Watch!EmitEnds
  <2>2. e.version \in 0 .. MaxVersions /\ e.kind \in Watch!Kinds
    BY <1>1 DEF Emits
  <2>3. /\ Newest(e) /\ e.version <= disk.version
        /\ e.version = disk.version => e.kind = disk.kind
    BY <1>0, <1>1, <2>1 DEF WatchNewest
  <2>4. news => e.version > delivered.version
    BY <1>0, <2>2, <2>3 DEF Newest
  <2>5. delivered' \in Deliveries /\ digest' \in Watch!Digests
    BY <1>0, <2>1, <2>2 DEF Deliveries, Watch!Digests, Watch!NoDigest, Watch!DigestOf
  <2>6. delivered'.version = delivered.version \/ (news /\ delivered'.version = e.version)
    BY <2>1
  <2>7. delivered'.calls # delivered.calls => news /\ delivered'.version = e.version
    BY <2>1
  <2>8. Newest(disk)'
    <3>1. news => delivered.version < disk.version
      BY <1>0, <2>2, <2>3, <2>4
    <3>2. CASE ~news
      BY <1>0, <2>1, <3>2 DEF WatchNewest, Newest
    <3>3. CASE news
      <4>1. e.version = disk.version => Watch!DigestOf(e) = Watch!DigestOf(disk)
        BY <2>3 DEF Watch!DigestOf
      <4>2. digest' = Watch!DigestOf(e)
        BY <2>1, <3>3
      <4> QED BY <1>0, <2>2, <2>3, <2>6, <3>1, <3>3, <4>1, <4>2 DEF Newest, Watch!DigestOf
    <3> QED BY <3>2, <3>3
  <2>9. WatchNewest'
    BY <1>0, <1>4, <2>1, <2>8 DEF WatchNewest
  <2>10. WatchOrder'
    BY <1>0, <1>2, <1>3, <1>5, <2>1 DEF WatchOrder
  <2>11. Watch!TypeOK'
    BY <1>0, <1>3, <2>1, <2>5, WatchTypes, WatchTypesNext
  <2>12. delivered'.calls # delivered.calls => delivered'.version > delivered.version
    BY <2>4, <2>7
  <2> QED BY <2>9, <2>10, <2>11, <2>12 DEF WatchInv
<1> QED BY <1>6, <1>7

(* Every step of the watch keeps it, and tells of newer contents only.      *)
LEMMA WatchStep ==
    ASSUME WatchInv, Watch!Next
    PROVE  WatchInv' /\ (delivered'.calls # delivered.calls => delivered'.version > delivered.version)
<1>1. CASE \/ \E kind \in Watch!Kinds : Watch!Edit(kind)
           \/ Watch!Touched \/ Watch!DirGone \/ \E d \in 1 .. MaxDirs : Watch!DirBack(d)
  BY <1>1, DiskStep
<1>2. CASE \/ Watch!FileEvent \/ Watch!SelfEvent \/ Watch!WatchError \/ Watch!PollStarts \/ Watch!PollTick
           \/ Watch!Close \/ Watch!Closes
  BY <1>2, WatchersStep
<1>3. CASE Watch!Prime \/ Watch!Arm \/ Watch!TimerFires
  BY <1>3, PrimeStep, ArmStep, TimerStep
<1>4. CASE \E i \in 1 .. Len(queue) : Watch!EmitReads(i) \/ Watch!EmitEnds(i)
  BY <1>4, EmitStep
<1> QED BY <1>1, <1>2, <1>3, <1>4 DEF Watch!Next

-----------------------------------------------------------------------------
(* The parts together.                                                      *)
FollowersInv == SyncInv /\ TaskInv /\ FrontInv /\ WatchInv

(* It holds when all of them begin.                                         *)
LEMMA FollowersBegin == FollowersInit => FollowersInv
BY SyncBegins, TaskBegins, FrontBegins, WatchBegins DEF FollowersInit, FollowersInv

(* What a step of another part leaves alone, it keeps.                      *)
LEMMA SyncRests == SyncInv /\ UNCHANGED syncVars => SyncInv'
BY DEF SyncInv, Sync!TypeOK, Sync!Sessions, SyncOrder, SyncCalls, syncVars
(* The same of the wait.                                                    *)
LEMMA TaskRests == TaskInv /\ UNCHANGED taskVars => TaskInv'
BY DEF TaskInv, Polling!TypeOK, Polling!OwnReason, taskVars
(* The same of the clients.                                                 *)
LEMMA FrontRests == FrontInv /\ UNCHANGED frontVars => FrontInv'
BY DEF FrontInv, Front!TypeOK, Front!SilentWhenClosed, Front!HandlersFenced, frontVars
(* The same of the watch, which calls nobody.                               *)
LEMMA WatchRests == WatchInv /\ UNCHANGED watchVars => WatchInv' /\ UNCHANGED delivered
BY DEF WatchInv, Watch!TypeOK, WatchOrder, WatchNewest, Newest, Watch!DigestOf, watchVars

(* Every step keeps it, and onChange is called with something newer.        *)
LEMMA FollowersStep ==
    ASSUME FollowersInv, [FollowersNext]_<<part, followVars>>
    PROVE  /\ FollowersInv' /\ [Sync!Stopped => Sync!Ending]_Sync!vars
           /\ [delivered'.calls # delivered.calls => delivered'.version > delivered.version]_Watch!vars
<1>0. UNCHANGED syncVars => UNCHANGED Sync!vars
  BY DEF syncVars, Sync!vars
<1>1. CASE Sync!Next /\ UNCHANGED <<watchVars, taskVars, frontVars>>
  BY <1>1, SyncStep, SyncEnds, TaskRests, FrontRests, WatchRests DEF FollowersInv
<1>2. CASE Watch!Next /\ UNCHANGED <<syncVars, taskVars, frontVars>>
  BY <1>0, <1>2, SyncRests, TaskRests, FrontRests, WatchStep DEF FollowersInv
<1>3. CASE Polling!Next /\ UNCHANGED <<syncVars, watchVars, frontVars>>
  BY <1>0, <1>3, SyncRests, TaskStep, FrontRests, WatchRests DEF FollowersInv
<1>4. CASE Front!Next /\ UNCHANGED <<syncVars, watchVars, taskVars>>
  BY <1>0, <1>4, SyncRests, TaskRests, FrontStep, WatchRests DEF FollowersInv
<1>5. CASE UNCHANGED followVars
  BY <1>0, <1>5, SyncRests, TaskRests, FrontRests, WatchRests DEF FollowersInv, followVars
<1> QED BY <1>1, <1>2, <1>3, <1>4, <1>5 DEF FollowersNext

(* What the invariant says of what has stopped.                             *)
LEMMA FollowersSay == FollowersInv => Final
<1> SUFFICES ASSUME FollowersInv PROVE Final
  OBVIOUS
<1>1. Sync!TypeOK /\ Sync!SyncIsFresh /\ Sync!StopIsFinal
  BY DEF FollowersInv, SyncInv, SyncOrder, SyncCalls, Sync!SyncIsFresh, Sync!StopIsFinal, Sync!Resolved
<1>2. Watch!TypeOK /\ Watch!SilentWhenClosed
  BY DEF FollowersInv, WatchInv, WatchOrder, Watch!SilentWhenClosed
<1> QED BY <1>1, <1>2 DEF FollowersInv, FrontInv, TaskInv, Final

(* An answered sync() read the resource no earlier than it was called; no   *)
(* read begins after stop() of syncResourceToFile, and when the stop() that *)
(* ended the sync, or close() of watchMcpConfigs, has resolved nothing runs *)
(* that could write the file or call back; a bridge that is unsubscribed    *)
(* has nothing to send and a projected handler reaches what it was made     *)
(* from; a wait for a task that is aborted ends with the caller's reason.   *)
THEOREM StopAlwaysFinal == FollowersSpec => StopIsFinal
<1>1. FollowersInv /\ [FollowersNext]_<<part, followVars>> => FollowersInv' /\ Sync!NothingBegins
  <2> SUFFICES ASSUME FollowersInv, [FollowersNext]_<<part, followVars>>
               PROVE  FollowersInv' /\ Sync!NothingBegins
    OBVIOUS
  <2>1. FollowersInv' /\ [Sync!Stopped => Sync!Ending]_Sync!vars
    BY FollowersStep
  <2>2. UNCHANGED Sync!vars => Sync!Ending
    BY DEF Sync!vars, Sync!Ending
  <2> QED BY <2>1, <2>2 DEF Sync!NothingBegins
<1> QED BY <1>1, FollowersBegin, FollowersSay, PTL DEF FollowersSpec, StopIsFinal

(* onChange of watchMcpConfigs is called with a newer content every time,   *)
(* however edits, reads and watchers overtake each other.                   *)
THEOREM AlwaysNewer == FollowersSpec => NewerEveryTime
<1>1. FollowersInv /\ [FollowersNext]_<<part, followVars>> =>
        FollowersInv' /\ [delivered'.calls # delivered.calls => delivered'.version > delivered.version]_Watch!vars
  BY FollowersStep
<1> QED BY <1>1, FollowersBegin, PTL DEF FollowersSpec, NewerEveryTime, Watch!NewerEveryTime
=============================================================================
