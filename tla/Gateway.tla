------------------------------ MODULE Gateway ------------------------------
(* The gateway of src/gateway/gateway.ts, which serves one hub downstream,  *)
(* composed with the hub manager of Hub.tla: a projection per topology, the *)
(* index of routes its handlers forward by, and the instances it keeps in   *)
(* line while the hub changes.                                              *)
(*                                                                          *)
(* A topology is what topologyKey tells apart: the definition's contents    *)
(* and each member's generation and catalog.  One tool per member stands    *)
(* for its capabilities; the name it is projected under is the member's.    *)
(* Names, URIs and collisions are in HubRoutes.  A run is a call of         *)
(* #notifyDownstream: it visits the tracked instances, awaits admit() for   *)
(* each and then installs and removes.  The notifications to HTTP handlers, *)
(* which come before and whose failures are ignored, only delay a run.      *)
(*                                                                          *)
(* A topology in which two capabilities come out under one name makes no    *)
(* definition: #build throws before it replaces anything.  Where that ends  *)
(* start() or instantiate(), nothing has happened, and there is no step.    *)
EXTENDS Hub

CONSTANTS
    HubId,       \* the hub that is served
    Instances,   \* downstream instances, each used once
    Builds(_),   \* whether a topology makes a definition
    MaxRuns      \* bound: calls of #notifyDownstream in flight

ASSUME GatewayAssumption == HubId \in Hubs /\ MaxRuns \in Nat

VARIABLES
    gateway,     \* "absent", "built", or "started" while start() watches the hub
    previous,    \* the topology start() has announced last
    cached,      \* the topology of #projection
    routes,      \* the topology #routes was built from
    inst,        \* the downstream instances
    runs,        \* the calls of #notifyDownstream in flight
    call,        \* the downstream call of the step just taken, or None
    astray,      \* ghost: the hub was removed while the gateway existed, or a legacy
                 \* instance was projected while nothing watched the hub
    inLine       \* ghost: instances last reconciled for the present topology, by a run alone

gatewayOwn == <<gateway, previous, cached, routes, inst, runs, call, astray, inLine>>
gatewayVars == <<hubVars, gatewayOwn>>

Runs == 1 .. MaxRuns
NoIdentity == [generation |-> 0, list |-> None]
Topology ==
    [exposes |-> hub[HubId].exposes,
     identity |-> [c \in Conns |->
        IF c \in Members(hub[HubId]) /\ conn[c].catalog # None
        THEN [generation |-> conn[c].generation, list |-> conn[c].catalog] ELSE NoIdentity]]
RouteIn(t, c) ==
    IF t = None \/ t.identity[c] = NoIdentity THEN NoRoute
    ELSE IF t.exposes[c] \in Offers(t.identity[c].list)
         THEN [generation |-> t.identity[c].generation, list |-> t.identity[c].list,
               source |-> t.exposes[c]]
         ELSE NoRoute
RoutesIn(t) == [c \in Conns |-> RouteIn(t, c)]
Version(route) == [generation |-> route.generation, list |-> route.list]

Identities == [generation : 0 .. MaxGenerations, list : Lists \cup {None}]
Topologies == [exposes : [Conns -> Sources \cup {Out}], identity : [Conns -> Identities]]
AnyRoute ==
    [generation : 0 .. MaxGenerations, list : Lists \cup {None}, source : Sources \cup {Out, None}]
NewInstance ==
    [phase |-> "new", era |-> "modern", tracked |-> FALSE, building |-> None,
     installed |-> [c \in Conns |-> NoRoute]]
InstanceStates ==
    [phase : {"new", "building", "ready", "connected", "closed"}, era : {"modern", "legacy"},
     tracked : BOOLEAN, building : Topologies \cup {None}, installed : [Conns -> AnyRoute]]
RunStates ==
    [topology : Topologies, seen : SUBSET Instances, at : Instances \cup {None},
     target : Topologies \cup {None}]

Forwards == [conn : Conns, route : AnyRoute, fenced : BOOLEAN, delivered : BOOLEAN]

GatewayTypeOK ==
    /\ HubTypeOK
    /\ gateway \in {"absent", "built", "started"}
    /\ {previous, cached, routes} \subseteq Topologies \cup {None}
    /\ inst \in [Instances -> InstanceStates]
    /\ runs \in [Runs -> RunStates \cup {None}]
    /\ call \in {None} \cup Forwards
    /\ astray \in BOOLEAN /\ inLine \subseteq Instances

GatewayInit ==
    /\ HubInit
    /\ gateway = "absent"
    /\ previous = None /\ cached = None /\ routes = None
    /\ inst = [i \in Instances |-> NewInstance]
    /\ runs = [r \in Runs |-> None]
    /\ call = None /\ astray = FALSE /\ inLine = {}

-----------------------------------------------------------------------------
(* #project: the projection in hand while the key has not changed; building *)
(* one replaces the index of routes.                                        *)
Current_ByDefinition(t) == cached # None /\ cached.exposes = t.exposes
Current(t) == cached = t
Projects(t) == Current(t) \/ Builds(t)
Project(t) ==
    /\ cached' = IF Current(t) THEN cached ELSE t
    /\ routes' = IF Current(t) THEN routes ELSE t
(* #projectFor, for one legacy instance: nothing is kept but the routes.    *)
ProjectFor(t) == routes' = t /\ UNCHANGED cached

(* The listener of start().  #publish of the hub swallows what it throws:   *)
(* the projection, the routes and the instances stay as they were.          *)
Watched == {"hub.catalog.refreshed", "hub.connection.changed", "hub.updated"}
Unbuilt_Routed(t) == routes' = t /\ UNCHANGED <<previous, cached, runs>>
Unbuilt(t) == UNCHANGED <<previous, cached, routes, runs>>
Announced(t) ==
    /\ Project(t)
    /\ previous' = t
    /\ IF t = previous THEN UNCHANGED runs
       ELSE \E r \in Runs : /\ runs[r] = None
                            /\ runs' = [runs EXCEPT ![r] =
                                 [topology |-> t, seen |-> {}, at |-> None, target |-> None]]
Announce(t) == IF Projects(t) THEN Announced(t) ELSE Unbuilt(t)
Hears == gateway = "started" /\ heard' # None /\ heard'.hub = HubId /\ heard'.type \in Watched

(* A step of the hub manager or of a connection, with what the gateway does *)
(* in the same call.                                                        *)
HubMoves ==
    /\ HubNext
    /\ IF Hears THEN Announce(Topology') ELSE UNCHANGED <<previous, cached, routes, runs>>
    /\ call' = None
    /\ astray' = (astray \/ (gateway # "absent" /\ hub'[HubId] = None))
    /\ inLine' = IF hub'[HubId] # None /\ hub[HubId] # None /\ Topology' = Topology
                 THEN inLine ELSE {}
    /\ UNCHANGED <<gateway, inst>>

-----------------------------------------------------------------------------
(* A step of the gateway itself.                                            *)
Idle == walk = None /\ heard' = None /\ UNCHANGED <<conn, hub, walk, refresh, updates, reopened>>
Served == gateway # "absent" /\ Registered(HubId)

Construct ==
    /\ Idle /\ gateway = "absent" /\ Registered(HubId)
    /\ gateway' = "built" /\ call' = None
    /\ UNCHANGED <<previous, cached, routes, inst, runs, astray, inLine>>

StartWatching ==
    /\ Idle /\ gateway = "built" /\ Served
    /\ gateway' = "started" /\ call' = None
    /\ Projects(Topology) /\ Project(Topology) /\ previous' = Topology
    /\ UNCHANGED <<inst, runs, astray, inLine>>

StopWatching ==
    /\ Idle /\ gateway = "started"
    /\ gateway' = "built" /\ call' = None
    /\ UNCHANGED <<previous, cached, routes, inst, runs, astray, inLine>>

(* instantiate, up to the wait for admission and setup.                     *)
Instantiate(i, era) ==
    /\ Idle /\ Served /\ inst[i].phase = "new"
    /\ inst' = [inst EXCEPT ![i].phase = "building", ![i].era = era, ![i].building = Topology]
    /\ IF era = "legacy" THEN Builds(Topology) /\ ProjectFor(Topology)
       ELSE Projects(Topology) /\ Project(Topology)
    /\ astray' = (astray \/ (era = "legacy" /\ gateway # "started"))
    /\ call' = None
    /\ UNCHANGED <<gateway, previous, runs, inLine>>

(* instantiate, after it: instances that are not connected are forgotten,   *)
(* and the new one is tracked.                                              *)
Materialized(i) ==
    /\ Idle /\ inst[i].phase = "building"
    /\ inst' = [j \in Instances |->
         IF j = i
         THEN [inst[i] EXCEPT !.phase = "ready", !.tracked = TRUE, !.building = None,
                              !.installed = RoutesIn(inst[i].building)]
         ELSE [inst[j] EXCEPT !.tracked = @ /\ inst[j].phase = "connected"]]
    /\ call' = None
    /\ UNCHANGED <<gateway, previous, cached, routes, runs, astray, inLine>>

Connected(i) ==
    /\ Idle /\ inst[i].phase = "ready"
    /\ inst' = [inst EXCEPT ![i].phase = "connected"]
    /\ call' = None
    /\ UNCHANGED <<gateway, previous, cached, routes, runs, astray, inLine>>

Closed(i) ==
    /\ Idle /\ inst[i].phase = "connected"
    /\ inst' = [inst EXCEPT ![i].phase = "closed"]
    /\ inLine' = inLine \ {i}
    /\ call' = None
    /\ UNCHANGED <<gateway, previous, cached, routes, runs, astray>>

-----------------------------------------------------------------------------
(* #notifyDownstream and #reconcile.  An instance is visited once, also one *)
(* that joins the set during the loop; a legacy one is visited with a       *)
(* projection built for it at that moment.                                  *)
Unvisited(r) == {i \in Instances : inst[i].tracked} \ runs[r].seen
ReconcileStarts(r, i) ==
    LET target == IF inst[i].era = "legacy" THEN Topology ELSE runs[r].topology IN
    /\ Idle /\ gateway # "absent"
    /\ runs[r] # None /\ runs[r].at = None /\ i \in Unvisited(r)
    /\ IF inst[i].era = "legacy" THEN Registered(HubId) /\ Builds(Topology) /\ ProjectFor(Topology)
       ELSE UNCHANGED <<cached, routes>>
    /\ IF inst[i].phase = "connected"
       THEN /\ runs' = [runs EXCEPT ![r].at = i, ![r].seen = @ \cup {i}, ![r].target = target]
            /\ UNCHANGED inst
       ELSE /\ runs' = [runs EXCEPT ![r].seen = @ \cup {i}]
            /\ inst' = [inst EXCEPT ![i].tracked = FALSE]
    /\ astray' = (astray \/ (inst[i].era = "legacy" /\ gateway # "started"))
    /\ call' = None
    /\ UNCHANGED <<gateway, previous, inLine>>

(* The projection for a legacy instance fails: the instances after it are   *)
(* not visited.                                                             *)
RunThrows(r, i) ==
    /\ Idle /\ runs[r] # None /\ runs[r].at = None /\ i \in Unvisited(r)
    /\ inst[i].era = "legacy" /\ ~(Registered(HubId) /\ Builds(Topology))
    /\ runs' = [runs EXCEPT ![r] = None]
    /\ call' = None
    /\ UNCHANGED <<gateway, previous, cached, routes, inst, astray, inLine>>

(* An entry stays when the capability wanted under its name has the same    *)
(* version; otherwise it is removed, and the wanted one installed.          *)
Kept_ByName(entry, wanted) == entry # NoRoute /\ wanted # NoRoute
Kept(entry, wanted) ==
    entry # NoRoute /\ wanted # NoRoute /\ Version(entry) = Version(wanted)
Merged(installed, wanted) ==
    [c \in Conns |-> IF Kept(installed[c], wanted[c]) THEN installed[c] ELSE wanted[c]]
Removed(installed, wanted) ==
    [c \in Conns |-> IF Kept(installed[c], wanted[c]) THEN installed[c] ELSE NoRoute]
Alone(r) == \A s \in Runs \ {r} : runs[s] = None

Reconciles(r) ==
    LET i == runs[r].at IN
    /\ Idle /\ runs[r] # None /\ i # None
    /\ runs' = [runs EXCEPT ![r].at = None, ![r].target = None]
    /\ inst' = [inst EXCEPT ![i].installed = Merged(@, RoutesIn(runs[r].target))]
    /\ inLine' = IF /\ Alone(r) /\ Registered(HubId) /\ gateway = "started"
                    /\ runs[r].target = Topology /\ inst[i].phase = "connected"
                 THEN inLine \cup {i} ELSE inLine \ {i}
    /\ call' = None
    /\ UNCHANGED <<gateway, previous, cached, routes, astray>>

(* The SDK refuses a removal or an installation: the instance is forgotten. *)
ReconcileFails(r) ==
    LET i == runs[r].at IN
    /\ Idle /\ runs[r] # None /\ i # None
    /\ runs' = [runs EXCEPT ![r].at = None, ![r].target = None]
    /\ inst' = [inst EXCEPT ![i].installed = Removed(@, RoutesIn(runs[r].target)),
                            ![i].tracked = FALSE]
    /\ inLine' = inLine \ {i}
    /\ call' = None
    /\ UNCHANGED <<gateway, previous, cached, routes, astray>>

RunEnds(r) ==
    /\ Idle /\ runs[r] # None /\ runs[r].at = None /\ Unvisited(r) = {}
    /\ runs' = [runs EXCEPT ![r] = None]
    /\ call' = None
    /\ UNCHANGED <<gateway, previous, cached, routes, inst, astray, inLine>>

-----------------------------------------------------------------------------
(* A downstream call of a listed capability: the handler looks up the route *)
(* the index holds under the name now.  It forwards by that route, through  *)
(* the hub's fences; a resource template asks for a URI of the route's      *)
(* namespace instead, and the hub answers by what it exposes now.           *)
Call(i, c) ==
    LET route == RouteIn(routes, c) IN
    /\ Idle /\ inst[i].phase = "connected" /\ inst[i].installed[c] # NoRoute
    /\ \E fenced \in BOOLEAN :
         call' = [conn |-> c, route |-> route, fenced |-> fenced,
                  delivered |-> route # NoRoute /\ IF fenced THEN Resolves(HubId, c, route)
                                                   ELSE Reads(HubId, c)]
    /\ UNCHANGED <<gateway, previous, cached, routes, inst, runs, astray, inLine>>

GatewayStep ==
    \/ Construct \/ StartWatching \/ StopWatching
    \/ \E i \in Instances :
          \/ \E era \in {"modern", "legacy"} : Instantiate(i, era)
          \/ Materialized(i) \/ Connected(i) \/ Closed(i)
          \/ \E c \in Conns : Call(i, c)
    \/ \E r \in Runs :
          \/ Reconciles(r) \/ ReconcileFails(r) \/ RunEnds(r)
          \/ \E i \in Instances : ReconcileStarts(r, i) \/ RunThrows(r, i)

GatewayNext == HubMoves \/ GatewayStep
GatewaySpec == GatewayInit /\ [][GatewayNext]_gatewayVars

-----------------------------------------------------------------------------
(* While start() watches the hub, the routes the handlers forward by are    *)
(* those of the projection in hand, and that is the one of the present      *)
(* topology if a definition can be made of it, whichever projections were   *)
(* built, cached, refused or thrown away for single instances: a tool that  *)
(* is listed and current is not refused as stale.  (Before start() a legacy *)
(* instance may leave its routes behind, and the projection in hand is then *)
(* reused without them; and the removal of the hub is not announced.)       *)
RoutesCurrent ==
    (gateway = "started" /\ ~astray /\ walk = None) =>
       routes = cached /\ (Builds(Topology) => routes = Topology)

(* "Whenever a member's catalog is refreshed (or a member goes away), the   *)
(* projection is rebuilt" (gateway.ts:407-408).  False where the present    *)
(* topology makes no definition: the routes before it stay.                 *)
AlwaysRebuilt ==
    (gateway = "started" /\ ~astray /\ walk = None) => routes = Topology

(* A downstream call is delivered only to a session that is usable and a    *)
(* tool the hub exposes there now; by a fenced route, only to the session,  *)
(* the catalog and the tool that route was projected from, however old the  *)
(* route or the instance is.                                                *)
DeliveredIsFenced ==
    (call # None /\ call.delivered) =>
       LET to == conn[call.conn]
       IN  /\ to.usable /\ to.catalog # None
           /\ hub[HubId].exposes[call.conn] \in Offers(to.catalog)
           /\ call.fenced =>
                /\ to.generation = call.route.generation /\ to.catalog = call.route.list
                /\ hub[HubId].exposes[call.conn] = call.route.source

(* A gateway "forwards through generation- and fingerprint-fenced hub       *)
(* routes (fail-closed execution)" (gateway.ts:206-207).  False of a        *)
(* resource template.                                                       *)
AlwaysFenced ==
    (call # None /\ call.delivered) =>
       /\ conn[call.conn].generation = call.route.generation
       /\ conn[call.conn].catalog = call.route.list

(* An instance that a run has reconciled for the present topology, with no  *)
(* other run under way, lists exactly the names the present projection      *)
(* holds, each of its present generation and catalog ("brings a connected   *)
(* instance in line with the current projection").                          *)
InLine ==
    \A i \in inLine, c \in Conns :
        Version(inst[i].installed[c]) = Version(RouteIn(Topology, c))

(* And what it lists under a name is the tool the projection has there:     *)
(* false, for a rename within one catalog leaves the version as it was.     *)
ListsProjection == \A i \in inLine : inst[i].installed = RoutesIn(Topology)

-----------------------------------------------------------------------------
(* The hubs, typed: between two walks every member of every hub is a        *)
(* registered connection, whatever listeners did to the hubs while one ran. *)
HubMembersKnown == GatewayTypeOK /\ MembersKnown

(* Whatever projections are built, cached, refused or thrown away, routes   *)
(* are those of the present topology while the gateway watches and the      *)
(* topology makes a definition, an instance that a run has reconciled alone *)
(* lists that projection, and a downstream call is delivered only to what   *)
(* its route was projected from or, where it has no fence, to what the hub  *)
(* exposes now.                                                             *)
DownstreamCurrent == RoutesCurrent /\ InLine /\ DeliveredIsFenced
=============================================================================
