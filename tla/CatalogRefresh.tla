---------------------------- MODULE CatalogRefresh ----------------------------
(***************************************************************************)
(* The catalog of one connection and its automatic refresh                 *)
(* (src/client/manager.ts).  A refresh lists every section at the server,  *)
(* each list in its own time, and commits them as one catalog, unless the  *)
(* connection has changed or another refresh has committed meanwhile.      *)
(* refreshCatalog is called by the host, and by the manager when the server*)
(* announces a change: one such refresh at a time, one more for whatever   *)
(* changed during it, and at most `maxRefreshesPerGeneration` of them.     *)
(*                                                                         *)
(* One action is the code between two awaits.  The connection itself is    *)
(* ConnectionLifecycle's subject: here it comes up and goes down, and it   *)
(* comes up again only when no operation is left.  The minimum interval    *)
(* between refreshes and the debounce of announcements have no length.     *)
(***************************************************************************)
EXTENDS Naturals, Functions

CONSTANTS
  Sections,      \* tools, resources, templates, prompts: the supported ones
  Calls,         \* concurrent refreshCatalog calls of the host
  Automatic,          \* the automatic refresh
  MaxRefreshes,  \* autoRefreshCatalog.maxRefreshesPerGeneration
  MaxChanges,    \* bound: changes of the lists at the server
  MaxSessions    \* bound: sessions after which no connect is made

ASSUME ConstantsAssumption ==
  /\ Automatic \notin Calls
  /\ MaxRefreshes \in Nat \ {0} /\ MaxChanges \in Nat /\ MaxSessions \in Nat

VARIABLES
  conn,      \* the entry: session, phase, catalog, AutoRefreshState
  flight,    \* the refreshes in flight
  upstream,  \* how often each section has changed at the server
  told       \* the sections whose change is announced and not yet delivered

vars == <<conn, flight, upstream, told>>

Refreshes == Calls \cup {Automatic}

(* A section of a catalog shows the list as of some number of changes; a   *)
(* list that never changed is empty.  "none": not listed (yet).            *)
View  == [status: {"none", "fresh", "stale", "failed"}, version: Nat]
Blank == [status |-> "none", version |-> 0]
Empty == [s \in Sections |-> Blank]

(* `spent` counts the automatic refreshes of the session that were not     *)
(* refused for want of authority; nothing in the code depends on it.       *)
Conn == [ session: Nat, phase: {"down", "online", "degraded"},
          catalog: [Sections -> View],
          count: 0..MaxRefreshes, timer: BOOLEAN, inFlight: BOOLEAN, pending: BOOLEAN,
          capped: BOOLEAN, spent: Nat ]

(* A refresh in flight remembers whether the catalog revision is still the *)
(* one it found: then the catalog is, too.                                 *)
Flight == [open: BOOLEAN, current: BOOLEAN, got: [Sections -> View]]
Landed == [open |-> FALSE, current |-> TRUE, got |-> Empty]

Usable(c) == c.phase \in {"online", "degraded"}

(* #cancelAutoRefresh                                                      *)
NoAuto(c) == [c EXCEPT !.count = 0, !.timer = FALSE, !.inFlight = FALSE,
                       !.pending = FALSE, !.capped = FALSE]

Init ==
  /\ conn = [ session |-> 0, phase |-> "down", catalog |-> Empty,
              count |-> 0, timer |-> FALSE, inFlight |-> FALSE, pending |-> FALSE,
              capped |-> FALSE, spent |-> 0 ]
  /\ flight = [f \in Refreshes |-> Landed]
  /\ upstream = [s \in Sections |-> 0]
  /\ told = {}

----------------------------------------------------------------------------
(* An operator with a suffix is a variant of the one it precedes, with one *)
(* mistake the code could have made: the properties below refute each.     *)

Scheduled_Overlapping(c) ==
  CASE ~Usable(c) \/ c.capped -> c
    [] Usable(c) /\ ~c.capped /\ c.count >= MaxRefreshes ->
         [c EXCEPT !.capped = TRUE, !.phase = "degraded"]
    [] OTHER -> [c EXCEPT !.timer = TRUE]

Scheduled_OneMore(c) ==
  CASE ~Usable(c) \/ c.capped -> c
    [] Usable(c) /\ ~c.capped /\ c.count > MaxRefreshes ->
         [c EXCEPT !.capped = TRUE, !.phase = "degraded"]
    [] OTHER -> IF c.inFlight THEN [c EXCEPT !.pending = TRUE] ELSE [c EXCEPT !.timer = TRUE]

(* #scheduleAutoRefresh, up to the timer.                                  *)
Scheduled(c) ==
  CASE ~Usable(c) \/ c.capped -> c
    [] Usable(c) /\ ~c.capped /\ c.count >= MaxRefreshes ->
         [c EXCEPT !.capped = TRUE, !.phase = "degraded"]
    [] OTHER -> IF c.inFlight THEN [c EXCEPT !.pending = TRUE] ELSE [c EXCEPT !.timer = TRUE]

Settled_Forgets(c, attempted) ==
  IF ~Usable(c) THEN c
  ELSE [c EXCEPT !.inFlight = FALSE, !.pending = FALSE,
                 !.count = IF attempted THEN @ ELSE @ - 1,
                 !.spent = IF attempted THEN @ + 1 ELSE @]

Settled_Refunds(c, attempted) ==
  LET d == [c EXCEPT !.inFlight = FALSE, !.pending = FALSE, !.count = @ - 1,
                     !.spent = IF attempted THEN @ + 1 ELSE @]
  IN  CASE ~Usable(c) -> c
        [] Usable(c) /\ c.pending -> Scheduled(d)
        [] OTHER -> d

(* The promise chain of an automatic refresh: .catch gives the attempt back*)
(* when nothing was tried, .finally sees to what changed meanwhile.  Its   *)
(* state is gone when the connection has been down since.                  *)
Settled(c, attempted) ==
  LET d == [c EXCEPT !.inFlight = FALSE, !.pending = FALSE,
                     !.count = IF attempted THEN @ ELSE @ - 1,
                     !.spent = IF attempted THEN @ + 1 ELSE @]
  IN  CASE ~Usable(c) -> c
        [] Usable(c) /\ c.pending -> Scheduled(d)
        [] OTHER -> d

Authority_AnyRevision(f) == Usable(conn)

(* #assertRefreshAuthority.  No refresh outlives its session by another.   *)
Authority(f) == Usable(conn) /\ flight[f].current

(* The refresh f is over and leaves c; a catalog it has committed is a new *)
(* revision for all others.                                                *)
Fenced(g) == [flight[g] EXCEPT !.current = @ /\ ~flight[g].open]

Land(f, c, commits, attempted) ==
  /\ flight' = [g \in Refreshes |-> IF g = f THEN Landed
                                    ELSE IF commits THEN Fenced(g) ELSE flight[g]]
  /\ conn' = IF f = Automatic THEN Settled(c, attempted) ELSE c
  /\ UNCHANGED <<upstream, told>>

----------------------------------------------------------------------------
(* What MaxChanges bounds.                                                 *)
Changes == FoldFunction(+, 0, upstream)

(* The server changes a section and tells its session; it may also announce*)
(* a change that makes no difference.                                      *)
Change(s) ==
  /\ \/ /\ Changes < MaxChanges
        /\ upstream' = [upstream EXCEPT ![s] = @ + 1]
     \/ UNCHANGED upstream
  /\ told' = IF Usable(conn) THEN told \cup {s} ELSE told
  /\ UNCHANGED <<conn, flight>>

(* The handler of the list-changed notification.                           *)
Notified(s) ==
  /\ s \in told
  /\ told' = told \ {s}
  /\ conn' = Scheduled(conn)
  /\ UNCHANGED <<flight, upstream>>

Takeoff == [Landed EXCEPT !.open = TRUE]

TimerFires ==
  /\ conn.timer
  /\ conn' = [conn EXCEPT !.timer = FALSE, !.count = @ + 1, !.inFlight = TRUE]
  /\ flight' = [flight EXCEPT ![Automatic] = Takeoff]
  /\ UNCHANGED <<upstream, told>>

RefreshCatalog(k) ==
  /\ Usable(conn) /\ ~flight[k].open
  /\ flight' = [flight EXCEPT ![k] = Takeoff]
  /\ UNCHANGED <<conn, upstream, told>>

(* What discoverSection makes of the answer to a list request: the list, or*)
(* what there was of it before, or nothing.                                *)
Listed(s) == [status |-> "fresh", version |-> upstream[s]]
Unlisted(view) ==
  IF view.version > 0 THEN [view EXCEPT !.status = "stale"]
  ELSE [status |-> "failed", version |-> 0]

Answer(f, s) ==
  /\ flight[f].open /\ flight[f].got[s] = Blank
  /\ \E view \in {Listed(s), Unlisted(conn.catalog[s])} :
       flight' = [flight EXCEPT ![f].got[s] = view]
  /\ UNCHANGED <<conn, upstream, told>>

Answered(f) == flight[f].open /\ \A s \in Sections : flight[f].got[s] # Blank

Whole(catalog) == \A s \in Sections : catalog[s].status = "fresh"

Commits(f) ==
  /\ Answered(f) /\ Authority(f)
  /\ Land(f, [conn EXCEPT !.catalog = flight[f].got,
                          !.phase = IF Whole(flight[f].got) THEN "online" ELSE "degraded"],
          TRUE, TRUE)

Refused(f) ==
  /\ Answered(f) /\ ~Authority(f)
  /\ Land(f, conn, FALSE, FALSE)

(* The catalog exceeds a bound.                                            *)
Exceeds(f) ==
  /\ Answered(f)
  /\ Land(f, IF Authority(f) THEN [conn EXCEPT !.phase = "degraded"] ELSE conn, FALSE, TRUE)

(* The host aborts its own call.                                           *)
Aborts(k) ==
  /\ flight[k].open
  /\ Land(k, conn, FALSE, FALSE)

----------------------------------------------------------------------------
(* #performConnect installs a session.                                     *)
Connect ==
  /\ conn.phase = "down" /\ conn.session < MaxSessions
  /\ \A f \in Refreshes : ~flight[f].open
  /\ conn' = [NoAuto(conn) EXCEPT !.session = @ + 1, !.phase = "online",
                                 !.catalog = Empty, !.spent = 0]
  /\ told' = {}
  /\ UNCHANGED <<flight, upstream>>

(* #transition of a connection that is lost or begins to drain.            *)
GoesDown(c) == [NoAuto(c) EXCEPT !.phase = "down", !.catalog = Empty]

Down ==
  /\ Usable(conn)
  /\ conn' = GoesDown(conn) /\ told' = {}
  /\ UNCHANGED <<flight, upstream>>

Advances(f) ==
  (\E s \in Sections : Answer(f, s)) \/ Commits(f) \/ Refused(f) \/ Exceeds(f)

Next ==
  \/ Connect \/ Down \/ TimerFires
  \/ \E s \in Sections : Change(s) \/ Notified(s)
  \/ \E k \in Calls : RefreshCatalog(k) \/ Aborts(k)
  \/ \E f \in Refreshes : Advances(f)

Spec == Init /\ [][Next]_vars

(* Announcements arrive, timers fire, every request has an answer or a     *)
(* deadline.  Nothing is assumed of the host or of the server.             *)
Fairness ==
  /\ WF_vars(TimerFires)
  /\ \A s \in Sections : WF_vars(Notified(s))
  /\ \A f \in Refreshes : WF_vars(Advances(f))

FairSpec == Spec /\ Fairness

----------------------------------------------------------------------------
TypeOK ==
  /\ conn \in Conn
  /\ flight \in [Refreshes -> Flight]
  /\ upstream \in [Sections -> Nat]
  /\ told \subseteq Sections

(* One automatic refresh at a time, and none for a connection that is down:*)
(* #scheduleAutoRefresh is single-flight and #transition cancels it.       *)
SingleFlight ==
  /\ conn.timer => Usable(conn) /\ ~flight[Automatic].open
  /\ conn.inFlight <=> Usable(conn) /\ flight[Automatic].open

(* However changes, timers and sessions fall together, the states have     *)
(* their types and one automatic refresh is in flight at a time.           *)
OneRefresh == TypeOK /\ SingleFlight

(* However many changes are announced, and although an attempt that was    *)
(* refused is given back, a generation pays for at most                    *)
(* `maxRefreshesPerGeneration` automatic refreshes.                        *)
BudgetHolds ==
  conn.spent + (IF conn.inFlight THEN 1 ELSE 0) <= MaxRefreshes

(* Within a session no section of the published catalog goes back to an    *)
(* older list, whatever refreshes overtake each other.                     *)
CatalogAdvances ==
  [][\A s \in Sections :
       LET v == conn.catalog[s]  w == conn'.catalog[s]
       IN  /\ conn'.session = conn.session
           /\ v.status # "none" /\ w.status \in {"fresh", "stale"}
           => w.version >= v.version]_vars

(* An announced change leads to a catalog that shows it, or to one that is *)
(* published as degraded, as long as the host makes no refresh of its own. *)
Alone == \A k \in Calls : ~flight[k].open

ChangesFollowed ==
  \A s \in Sections, v \in 1..MaxChanges :
    s \in told /\ upstream[s] = v /\ Alone
      ~> conn.catalog[s].version >= v \/ conn.phase # "online" \/ conn.capped \/ ~Alone

----------------------------------------------------------------------------
(* McpAutoRefreshOptions.maxRefreshesPerGeneration: once they are spent the*)
(* catalog "stops re-fetching and is published stale".  A catalog whose    *)
(* section has changed, and will not be listed again, is not online.       *)
CapPublishesStale ==
  \A s \in Sections :
    /\ conn.capped /\ conn.catalog[s].status # "none"
    /\ conn.catalog[s].version < upstream[s] /\ s \notin told
    /\ \A f \in Refreshes : ~flight[f].open
    => conn.phase = "degraded"
===============================================================================
