------------------------------- MODULE Hub -------------------------------
(* The hub manager of src/hub/hub.ts: hubs that group connections under     *)
(* namespaces, the walk over the hubs a connection event starts, and the    *)
(* refresh of a whole hub with its fences.                                  *)
(*                                                                          *)
(* A connection is what the hub reads of it: whether it is registered, its  *)
(* generation, whether it is usable, and the catalog it publishes (an       *)
(* element of Lists, equal lists having equal fingerprints).  A hub         *)
(* definition is an object: [by, exposes], where exposes[c] is the tool of  *)
(* member c that the member's filter and rename let through under its route *)
(* name, or Out when c is not a member.  An object made by withMembers is   *)
(* never one the host holds, hence "by".  Namespaces, tags and labels are   *)
(* left out; HubRoutes has the names.                                       *)
(*                                                                          *)
(* Every step publishes at most one event; `heard` is the event of the step *)
(* just taken.  A walk is synchronous in the code: only a listener acts     *)
(* inside it, through register, update and remove.                          *)
EXTENDS Naturals, FiniteSets

CONSTANTS
    Conns, Hubs,     \* connection ids, hub ids
    Sources,         \* upstream tools
    Lists,           \* contents of a catalog
    Offers(_),       \* the tools a content offers; {} when its section is not fresh
    MaxGenerations,  \* bound: sessions of one connection
    MaxUpdates,      \* bound: definitions the host gives to the manager
    MaxRefreshes,    \* bound: hub refreshes in flight at a time
    Out,             \* not a member
    None

VARIABLES
    conn,       \* what McpConnectionManager.state answers for a connection
    hub,        \* #hubs
    walk,       \* the loop of #onConnectionEvent, or None
    refresh,    \* the refreshCatalog call in flight of a hub, or None
    heard,      \* the hub event of the step just taken, or None
    updates,
    reopened    \* ghost: members whose session was replaced during a hub's refresh

hubVars == <<conn, hub, walk, refresh, heard, updates, reopened>>

Definitions == [by : {"host", "hub"}, exposes : [Conns -> Sources \cup {Out}]]
Members(d) == {c \in Conns : d.exposes[c] # Out}
Registered(h) == hub[h] # None
EventTypes == {"hub.registered", "hub.updated", "hub.removed", "hub.connection.changed",
               "hub.catalog.refreshed", "conflict"}
Connections ==
    [known : BOOLEAN, generation : 0 .. MaxGenerations, usable : BOOLEAN,
     catalog : Lists \cup {None}]
Refreshes ==
    [definition : Definitions, generation : [Conns -> 0 .. MaxGenerations],
     settled : [Conns -> Lists \cup {"pending", "rejected"}]]

Walks == [conn : Conns, removed : BOOLEAN, todo : SUBSET Hubs]
Events == [type : EventTypes, hub : Hubs]

(* None is none of the things it may stand in for.                         *)
ASSUME HubAssumption ==
    /\ \A l \in Lists : Offers(l) \subseteq Sources
    /\ {MaxGenerations, MaxUpdates, MaxRefreshes} \subseteq Nat
    /\ Out \notin Sources
    /\ None \notin Lists /\ None \notin Definitions /\ None \notin Walks
    /\ None \notin Refreshes /\ None \notin Events

HubTypeOK ==
    /\ conn \in [Conns -> Connections]
    /\ hub \in [Hubs -> Definitions \cup {None}]
    /\ walk \in Walks \cup {None}
    /\ refresh \in [Hubs -> Refreshes \cup {None}]
    /\ heard \in Events \cup {None}
    /\ updates \in 0 .. MaxUpdates
    /\ reopened \in [Hubs -> SUBSET Conns]

HubInit ==
    /\ conn = [c \in Conns |-> [known |-> TRUE, generation |-> 0, usable |-> FALSE,
                                catalog |-> None]]
    /\ hub = [h \in Hubs |-> None]
    /\ walk = None /\ heard = None /\ updates = 0
    /\ refresh = [h \in Hubs |-> None]
    /\ reopened = [h \in Hubs |-> {}]

Event(type, h) == [type |-> type, hub |-> h]

-----------------------------------------------------------------------------
(* The routes of a definition (#catalog): only a usable member with a fresh *)
(* catalog of its own generation has any.                                   *)
NoRoute == [generation |-> 0, list |-> None, source |-> None]
Route(d, c) ==
    IF /\ d.exposes[c] # Out /\ conn[c].usable
       /\ conn[c].catalog # None /\ d.exposes[c] \in Offers(conn[c].catalog)
    THEN [generation |-> conn[c].generation, list |-> conn[c].catalog, source |-> d.exposes[c]]
    ELSE NoRoute

(* #resolveToolCall with a descriptor: what it routes to now must be the    *)
(* very route it was handed.                                                *)
Resolves_ByName(h, c, route) == Registered(h) /\ Route(hub[h], c) # NoRoute
Resolves(h, c, route) ==
    /\ Registered(h) /\ Route(hub[h], c) # NoRoute
    /\ route = Route(hub[h], c)

(* readResource with a namespace and a URI: a resource or an expansion of a *)
(* template that the member exposes now.                                    *)
Reads(h, c) == Registered(h) /\ Route(hub[h], c) # NoRoute

-----------------------------------------------------------------------------
(* The connections.  Each event starts a walk over the hubs; connection     *)
(* steps wait for the walk before them, which runs in the same call.        *)
Walk(c, removed) == [conn |-> c, removed |-> removed, todo |-> {h \in Hubs : Registered(h)}]
Start(w) == IF w.todo = {} THEN None ELSE w
Changed(c, state, removed) ==
    /\ walk = None
    /\ conn' = [conn EXCEPT ![c] = state]
    /\ walk' = Start(Walk(c, removed))
    /\ heard' = None
    /\ UNCHANGED <<hub, updates>>

Opens(c) ==
    /\ conn[c].known /\ ~conn[c].usable /\ conn[c].generation < MaxGenerations
    /\ Changed(c, [conn[c] EXCEPT !.usable = TRUE, !.generation = @ + 1], FALSE)
    /\ reopened' = [h \in Hubs |-> reopened[h] \cup (IF refresh[h] = None THEN {} ELSE {c})]
    /\ UNCHANGED refresh

Lost(c) ==
    /\ conn[c].usable
    /\ Changed(c, [conn[c] EXCEPT !.usable = FALSE, !.catalog = None], FALSE)
    /\ UNCHANGED <<refresh, reopened>>

Committed(c, l) ==
    /\ conn[c].usable /\ conn[c].catalog # l
    /\ Changed(c, [conn[c] EXCEPT !.catalog = l], FALSE)
    /\ UNCHANGED <<refresh, reopened>>

Gone(c) ==
    /\ conn[c].known /\ ~conn[c].usable
    /\ Changed(c, [conn[c] EXCEPT !.known = FALSE], TRUE)
    /\ UNCHANGED <<refresh, reopened>>

(* One turn of #onConnectionEvent: the hub's definition is read when the    *)
(* loop reaches it, whatever the listeners of the turns before have made of *)
(* it.                                                                      *)
Without(d, c) == [by |-> "hub", exposes |-> [d.exposes EXCEPT ![c] = Out]]
Affected(h) == walk.conn \in Members(hub[h])
Visited(h) == Start([walk EXCEPT !.todo = @ \ {h}])
Visit(h) ==
    /\ walk # None /\ h \in walk.todo
    /\ walk' = Visited(h)
    /\ hub' = IF Affected(h) /\ walk.removed
              THEN [hub EXCEPT ![h] = Without(@, walk.conn)] ELSE hub
    /\ heard' = IF ~Affected(h) THEN None
                ELSE IF walk.removed THEN Event("hub.updated", h)
                     ELSE Event("hub.connection.changed", h)
    /\ UNCHANGED <<conn, refresh, updates, reopened>>

-----------------------------------------------------------------------------
(* The host, also as a listener inside a walk.                              *)
Validated_Never(d) == TRUE
Validated(d) == \A c \in Members(d) : conn[c].known
HostGives(h, d) ==
    /\ updates < MaxUpdates /\ d.by = "host" /\ Validated(d)
    /\ updates' = updates + 1
    /\ hub' = [hub EXCEPT ![h] = d]

Register(h, d) ==
    /\ ~Registered(h) /\ HostGives(h, d)
    /\ walk' = IF walk = None THEN None ELSE [walk EXCEPT !.todo = @ \cup {h}]
    /\ heard' = Event("hub.registered", h)
    /\ UNCHANGED <<conn, refresh, reopened>>

Update(h, d) ==
    /\ Registered(h) /\ HostGives(h, d)
    /\ heard' = Event("hub.updated", h)
    /\ UNCHANGED <<conn, walk, refresh, reopened>>

Remove(h) ==
    /\ Registered(h)
    /\ hub' = [hub EXCEPT ![h] = None]
    /\ walk' = IF walk = None THEN None ELSE Visited(h)
    /\ heard' = Event("hub.removed", h)
    /\ UNCHANGED <<conn, refresh, updates, reopened>>

-----------------------------------------------------------------------------
(* refreshCatalog: the refreshes of the members run side by side, each for  *)
(* the generation its member had at the start.                              *)
RefreshCatalog(h) ==
    /\ walk = None /\ Registered(h) /\ refresh[h] = None
    /\ Cardinality({g \in Hubs : refresh[g] # None}) < MaxRefreshes
    /\ refresh' = [refresh EXCEPT ![h] =
         [definition |-> hub[h],
          generation |-> [c \in Conns |-> conn[c].generation],
          settled |-> [c \in Conns |-> IF c \in Members(hub[h]) THEN "pending" ELSE "rejected"]]]
    /\ reopened' = [reopened EXCEPT ![h] = {}]
    /\ heard' = None
    /\ UNCHANGED <<conn, hub, walk, updates>>

Settles(h, c, outcome) ==
    /\ refresh[h] # None /\ refresh[h].settled[c] = "pending"
    /\ refresh' = [refresh EXCEPT ![h].settled[c] = outcome]

MemberRefreshed(h, c, l) ==
    /\ Settles(h, c, l)
    /\ conn[c].usable /\ conn[c].generation = refresh[h].generation[c]
    /\ Changed(c, [conn[c] EXCEPT !.catalog = l], FALSE)
    /\ UNCHANGED reopened

MemberRejects(h, c) ==
    /\ walk = None
    /\ Settles(h, c, "rejected")
    /\ heard' = None
    /\ UNCHANGED <<conn, hub, walk, updates, reopened>>

(* The identity of the definition, of every member's session, and of the    *)
(* catalog each successful refresh has committed (#assertRefreshIdentity).  *)
RefreshHolds_OfTheRefreshed(h, r) ==
    /\ hub[h] = r.definition
    /\ \A c \in Members(r.definition) :
          r.settled[c] \in Lists => conn[c].catalog = r.settled[c]
RefreshHolds(h, r) ==
    /\ hub[h] = r.definition
    /\ \A c \in Members(r.definition) :
          /\ conn[c].generation = r.generation[c]
          /\ r.settled[c] \in Lists => conn[c].catalog = r.settled[c]

RefreshEnds(h) ==
    /\ walk = None /\ refresh[h] # None
    /\ \A c \in Conns : refresh[h].settled[c] # "pending"
    /\ heard' = IF RefreshHolds(h, refresh[h]) THEN Event("hub.catalog.refreshed", h)
                ELSE Event("conflict", h)
    /\ refresh' = [refresh EXCEPT ![h] = None]
    /\ reopened' = [reopened EXCEPT ![h] = {}]
    /\ UNCHANGED <<conn, hub, walk, updates>>

ConnectionStep ==
    \E c \in Conns : Opens(c) \/ Lost(c) \/ Gone(c) \/ \E l \in Lists : Committed(c, l)
HostStep ==
    \E h \in Hubs : Remove(h) \/ \E d \in Definitions : Register(h, d) \/ Update(h, d)
RefreshStep ==
    \E h \in Hubs :
       \/ RefreshCatalog(h) \/ RefreshEnds(h)
       \/ \E c \in Conns : MemberRejects(h, c) \/ \E l \in Lists : MemberRefreshed(h, c, l)

HubNext == ConnectionStep \/ HostStep \/ RefreshStep \/ \E h \in Hubs : Visit(h)
HubSpec == HubInit /\ [][HubNext]_hubVars

-----------------------------------------------------------------------------
(* When no walk is under way, every member of every hub is a registered     *)
(* connection, whatever the listeners of the walk did to the hubs meanwhile *)
(* (a hub with an unknown member makes every later snapshot, catalog and    *)
(* event of it throw).                                                      *)
MembersKnown ==
    walk = None => \A h \in Hubs : Registered(h) => \A c \in Members(hub[h]) : conn[c].known

(* A hub refresh that answers, rather than reporting HUB_REVISION_CONFLICT, *)
(* answers for the membership it started from, and no member's session was  *)
(* replaced on the way, not even one whose own refresh failed: its routes   *)
(* belong to the sessions that were refreshed.                              *)
AnswerIsOneTopology ==
    [][\A h \in Hubs :
          heard' = Event("hub.catalog.refreshed", h) =>
             /\ hub[h].exposes = refresh[h].definition.exposes
             /\ reopened[h] \cap Members(hub[h]) = {}]_hubVars

=============================================================================
