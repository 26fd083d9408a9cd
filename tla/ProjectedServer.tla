--------------------------- MODULE ProjectedServer ---------------------------
(***************************************************************************)
(* A server whose capabilities are those of a managed connection           *)
(* (src/providers/connection.ts), and the bridge that tells its clients    *)
(* when they change (src/providers/notify.ts).  Every materialization of   *)
(* the server reads the catalog of the moment; its handlers call upstream  *)
(* under the generation and the fingerprint of that catalog.  A client     *)
(* lists again when it is told to.                                         *)
(*                                                                         *)
(* A catalog is the set of its tools, which is also its fingerprint: two   *)
(* generations may well show the same one.  The debounce has no length.    *)
(***************************************************************************)
EXTENDS Naturals, FiniteSets

CONSTANTS
  Tools,           \* what an upstream may offer
  Projected,       \* of those: allowed by the options, and with a valid name
  None,            \* no catalog; not listed
  MaxGenerations   \* bound: sessions of the connection

VARIABLES
  upstream,  \* the connection: registered, session up, its catalog
  bridge,    \* notifyOnCatalogChange: timer set, its timeout due, unsubscribed;
             \* a notification under way
  client,    \* a downstream client: what it has listed, its list in flight
  invoked    \* a call of a projected handler, and what it was resolved from

vars == <<upstream, bridge, client, invoked>>

Catalogs == {None} \cup SUBSET Tools
Control == [generation: 0..MaxGenerations, catalog: Catalogs]

(* The provider: `[]` of a connection that has no catalog.                 *)
Provided(catalog) == IF catalog = None THEN {} ELSE catalog \cap Projected
Resolved == [generation |-> upstream.generation, catalog |-> upstream.catalog]

Init ==
  /\ upstream = [registered |-> TRUE, up |-> FALSE, generation |-> 0, catalog |-> None]
  /\ bridge = [timer |-> FALSE, due |-> FALSE, closed |-> FALSE, sent |-> FALSE]
  /\ client = [listed |-> None, listing |-> None, stale |-> FALSE]
  /\ invoked = None

-----------------------------------------------------------------------------
(* The listener: one timer, whatever comes while it runs.                  *)
Heard(b) ==
  IF b.closed \/ b.timer THEN b ELSE [b EXCEPT !.timer = TRUE, !.due = TRUE]

(* The manager, as its events are seen: `catalog.refreshed` and            *)
(* `connection.removed` are, `connection.state.changed` is not.            *)
Connect ==
  /\ upstream.registered /\ ~upstream.up /\ upstream.generation < MaxGenerations
  /\ upstream' = [upstream EXCEPT !.up = TRUE, !.generation = @ + 1, !.catalog = None]
  /\ UNCHANGED <<bridge, client, invoked>>
Refresh ==
  /\ upstream.up
  /\ \E catalog \in SUBSET Tools : upstream' = [upstream EXCEPT !.catalog = catalog]
  /\ bridge' = Heard(bridge)
  /\ UNCHANGED <<client, invoked>>
GoesDown ==
  /\ upstream.up
  /\ upstream' = [upstream EXCEPT !.up = FALSE, !.catalog = None]
  /\ UNCHANGED <<bridge, client, invoked>>
Remove ==
  /\ upstream.registered /\ ~upstream.up
  /\ upstream' = [upstream EXCEPT !.registered = FALSE]
  /\ bridge' = Heard(bridge)
  /\ UNCHANGED <<client, invoked>>

-----------------------------------------------------------------------------
Fired_KeepsTimer(b) == [b EXCEPT !.due = FALSE, !.sent = @ \/ ~b.closed]
Fired(b) == [b EXCEPT !.timer = FALSE, !.due = FALSE, !.sent = @ \/ ~b.closed]

Fire ==
  /\ bridge.due
  /\ bridge' = Fired(bridge)
  /\ UNCHANGED <<upstream, client, invoked>>

Unsubscribed_KeepsTimer(b) == [b EXCEPT !.closed = TRUE]
Unsubscribed(b) == [b EXCEPT !.closed = TRUE, !.timer = FALSE, !.due = FALSE]

Unsubscribe ==
  /\ ~bridge.closed
  /\ bridge' = Unsubscribed(bridge)
  /\ UNCHANGED <<upstream, client, invoked>>

(* The notification reaches the client, also while it waits for a list.    *)
Told ==
  /\ bridge.sent
  /\ bridge' = [bridge EXCEPT !.sent = FALSE]
  /\ client' = [client EXCEPT !.stale = TRUE]
  /\ UNCHANGED <<upstream, invoked>>

-----------------------------------------------------------------------------
(* A list: a server is materialized, and answers some time later.  Of a    *)
(* connection that is gone none is (PROVIDER_FAILED).                      *)
Lists ==
  /\ client.listing = None /\ (client.stale \/ client.listed = None)
  /\ client' = [client EXCEPT !.stale = FALSE,
                  !.listing = IF upstream.registered THEN Provided(upstream.catalog) ELSE None]
  /\ UNCHANGED <<upstream, bridge, invoked>>
Listed ==
  /\ client.listing # None
  /\ client' = [client EXCEPT !.listed = client.listing, !.listing = None]
  /\ UNCHANGED <<upstream, bridge, invoked>>

(* A call: of a server materialized for it, or of the one a client of the  *)
(* legacy era was given when it connected, which may be any time ago.      *)
Materialize ==
  /\ invoked = None /\ upstream.registered
  /\ Provided(upstream.catalog) # {}
  /\ invoked' = [control |-> Resolved, to |-> None]
  /\ UNCHANGED <<upstream, bridge, client>>

(* #assertOperationControl                                                 *)
Admits_ByCatalog(control) == upstream.catalog = control.catalog
Admits(control) ==
  /\ upstream.generation = control.generation
  /\ upstream.catalog = control.catalog

Calls ==
  /\ invoked # None /\ invoked.to = None /\ upstream.up /\ Admits(invoked.control)
  /\ invoked' = [invoked EXCEPT !.to = Resolved]
  /\ UNCHANGED <<upstream, bridge, client>>
Ends ==
  /\ invoked # None /\ invoked' = None
  /\ UNCHANGED <<upstream, bridge, client>>

Next ==
  \/ Connect \/ Refresh \/ GoesDown \/ Remove
  \/ Fire \/ Unsubscribe \/ Told
  \/ Lists \/ Listed \/ Materialize \/ Calls \/ Ends

Spec == Init /\ [][Next]_vars

(* Timers fire, notifications and lists arrive; nothing is assumed of the  *)
(* host or of the upstream.                                                *)
Progress == Fire \/ Told \/ Lists \/ Listed

-----------------------------------------------------------------------------
TypeOK ==
  /\ upstream \in [registered: BOOLEAN, up: BOOLEAN, generation: 0..MaxGenerations,
                   catalog: Catalogs]
  /\ bridge \in [timer: BOOLEAN, due: BOOLEAN, closed: BOOLEAN, sent: BOOLEAN]
  /\ client \in [listed: Catalogs, listing: Catalogs, stale: BOOLEAN]
  /\ invoked \in {None} \cup [control: Control, to: {None} \cup Control]

(* "never a call against the wrong upstream": what a handler reaches is    *)
(* what it was projected from, whatever reconnects and refreshes lie       *)
(* between.                                                                *)
HandlersFenced == invoked # None /\ invoked.to # None => invoked.to = invoked.control

(* An unsubscribe "also cancels a pending notification".                   *)
SilentWhenClosed == bridge.closed => ~bridge.due

(* "downstream clients re-list when the projected upstream changes": while *)
(* the bridge stands, the client's list ends at what the connection offers.*)
ListFollows ==
  /\ <>[][UNCHANGED upstream]_vars
  /\ <>[](~bridge.closed /\ upstream.catalog # None)
  => <>[](client.listed = Provided(upstream.catalog))

(* The same of a connection that went down: violated, no event that the    *)
(* bridge listens to says so.                                              *)
ListEmpties ==
  <>[](~bridge.closed /\ upstream.registered /\ ~upstream.up)
    => <>[](client.listed = {})
=============================================================================
