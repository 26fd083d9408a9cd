--------------------------- MODULE ServingProofs ---------------------------
(* Proofs about what is served: Hub and Gateway, RequestPipeline,           *)
(* ServerRuntime and Admission, for any number of connections, hubs, tools, *)
(* instances, runs, requests, tokens, materializations, callers, servers    *)
(* and calls.                                                               *)
EXTENDS Gateway, RequestPipeline, ServerRuntime, Admission, SequenceTheorems, FiniteSetTheorems,
        TLAPS

-----------------------------------------------------------------------------
(* The hub manager.  A walk visits registered hubs only; a member that is   *)
(* not registered any more belongs to a hub which the walk of its removal   *)
(* has still to visit.                                                      *)
WalkOrder ==
    /\ walk # None => \A h \in walk.todo : Registered(h)
    /\ \A h \in Hubs : Registered(h) => \A c \in Members(hub[h]) :
          \/ conn[c].known
          \/ walk # None /\ walk.removed /\ c = walk.conn /\ h \in walk.todo

(* A member whose session was replaced during the refresh of a hub is of a  *)
(* later generation than the refresh has recorded.                          *)
RefreshOrder ==
    \A h \in Hubs : refresh[h] # None =>
       /\ \A c \in Conns : refresh[h].generation[c] <= conn[c].generation
       /\ \A c \in reopened[h] : refresh[h].generation[c] < conn[c].generation

(* The hub manager, typed: its walk and its refreshes.                      *)
HubInv == HubTypeOK /\ WalkOrder /\ RefreshOrder

(* What a step of the gateway leaves of the hub manager.                    *)
HubRests == heard' = None /\ UNCHANGED <<conn, hub, walk, refresh, updates, reopened>>

(* No hub, no walk, no refresh.                                             *)
LEMMA HubInitInv == HubInit => HubInv
<1>. SUFFICES ASSUME HubInit PROVE HubInv
  OBVIOUS
<1>. USE HubAssumption DEF HubInit
<1>1. HubTypeOK
  BY DEF HubTypeOK, Connections
<1>2. WalkOrder
  BY DEF WalkOrder, Registered
<1>3. RefreshOrder
  BY DEF RefreshOrder
<1>. QED BY <1>1, <1>2, <1>3 DEF HubInv

(* A step of the gateway itself.                                            *)
LEMMA HubRestsInv == HubInv /\ HubRests => HubInv'
BY DEF HubInv, HubRests, HubTypeOK, WalkOrder, RefreshOrder, Registered

(* A member of a definition is a connection.                                *)
LEMMA MembersAreConns == \A d : Members(d) \subseteq Conns
BY DEF Members

(* What publishes a change of a connection: the walk it starts visits every *)
(* hub that is registered.                                                  *)
LEMMA ChangedInv ==
  ASSUME HubTypeOK, WalkOrder, NEW c \in Conns, NEW state \in Connections,
         NEW removed \in BOOLEAN, Changed(c, state, removed),
         removed \/ state.known = conn[c].known
  PROVE  /\ conn' \in [Conns -> Connections] /\ conn'[c] = state
         /\ \A d \in Conns \ {c} : conn'[d] = conn[d]
         /\ walk' \in Walks \cup {None} /\ heard' = None /\ hub' = hub
         /\ updates' \in 0 .. MaxUpdates
         /\ walk' = None => \A h \in Hubs : ~Registered(h)
         /\ walk' # None => walk' = Walk(c, removed)
         /\ walk = None
         /\ WalkOrder'
<1>1. walk = None /\ conn' = [conn EXCEPT ![c] = state] /\ heard' = None /\ hub' = hub /\ updates' = updates
  BY DEF Changed
<1>2. conn \in [Conns -> Connections] /\ updates \in 0 .. MaxUpdates /\ hub \in [Hubs -> Definitions \cup {None}]
  BY DEF HubTypeOK
<1>3. conn' \in [Conns -> Connections] /\ conn'[c] = state /\ \A d \in Conns \ {c} : conn'[d] = conn[d]
  BY <1>1, <1>2
<1>4. Walk(c, removed) \in Walks /\ Walk(c, removed).todo = {h \in Hubs : Registered(h)}
      /\ Walk(c, removed).conn = c /\ Walk(c, removed).removed = removed
  BY DEF Walk, Walks
<1>5. walk' = Start(Walk(c, removed))
  BY DEF Changed
<1>6. CASE Walk(c, removed).todo = {}
  <2>1. walk' = None
    BY <1>5, <1>6 DEF Start
  <2>2. \A h \in Hubs : ~Registered(h)
    BY <1>4, <1>6
  <2>3. WalkOrder'
    BY <1>1, <2>1, <2>2 DEF WalkOrder, Registered
  <2>. QED BY <1>1, <1>2, <1>3, <2>1, <2>2, <2>3
<1>7. CASE Walk(c, removed).todo # {}
  <2>1. walk' = Walk(c, removed) /\ walk' # None
    BY <1>4, <1>5, <1>7, HubAssumption DEF Start
  <2>2. \A h \in walk'.todo : Registered(h)'
    BY <1>1, <1>4, <2>1 DEF Registered
  <2>3. \A h \in Hubs : Registered(h)' => \A d \in Members(hub[h]) :
           conn'[d].known \/ (walk'.removed /\ d = walk'.conn /\ h \in walk'.todo)
    <3>. SUFFICES ASSUME NEW h \in Hubs, Registered(h)', NEW d \in Members(hub[h])
                  PROVE  conn'[d].known \/ (walk'.removed /\ d = walk'.conn /\ h \in walk'.todo)
      OBVIOUS
    <3>1. d \in Conns /\ Registered(h) /\ h \in walk'.todo
      BY <1>1, <1>4, <2>1 DEF Members, Registered
    <3>2. conn[d].known
      BY <1>1, <3>1 DEF WalkOrder
    <3>. QED BY <1>3, <1>4, <2>1, <3>1, <3>2
  <2>4. WalkOrder'
    BY <1>1, <2>1, <2>2, <2>3 DEF WalkOrder
  <2>. QED BY <1>1, <1>2, <1>3, <1>4, <2>1, <2>4
<1>. QED BY <1>6, <1>7

(* A refresh in flight is not disturbed by a connection whose generation    *)
(* does not go back.                                                        *)
LEMMA RefreshKept ==
  ASSUME HubTypeOK, RefreshOrder, UNCHANGED <<refresh, reopened>>,
         conn' \in [Conns -> Connections],
         \A c \in Conns : conn'[c].generation >= conn[c].generation
  PROVE  RefreshOrder'
<1>. SUFFICES ASSUME NEW h \in Hubs, refresh[h] # None
              PROVE  /\ \A c \in Conns : refresh[h].generation[c] <= conn'[c].generation
                     /\ \A c \in reopened[h] : refresh[h].generation[c] < conn'[c].generation
  BY DEF RefreshOrder
<1>1. refresh[h] \in Refreshes /\ reopened[h] \subseteq Conns
  BY DEF HubTypeOK
<1>2. \A c \in Conns : refresh[h].generation[c] \in Nat /\ conn[c].generation \in Nat /\ conn'[c].generation \in Nat
  BY <1>1, HubAssumption DEF HubTypeOK, Refreshes, Connections
<1>. QED BY <1>1, <1>2 DEF RefreshOrder

(* A connection opens, is lost, is removed, or publishes a catalog.         *)
LEMMA ConnectionStepInv ==
  ASSUME HubInv, NEW c \in Conns,
         Opens(c) \/ Lost(c) \/ Gone(c) \/ \E l \in Lists : Committed(c, l)
  PROVE  HubInv'
<1>. USE DEF HubInv
<1>1. conn[c] \in Connections /\ refresh \in [Hubs -> Refreshes \cup {None}] /\ reopened \in [Hubs -> SUBSET Conns]
  BY DEF HubTypeOK
<1>2. ASSUME NEW state \in Connections, NEW removed \in BOOLEAN, Changed(c, state, removed),
             removed \/ state.known = conn[c].known, state.generation = conn[c].generation,
             UNCHANGED <<refresh, reopened>>
      PROVE  HubInv'
  <2>1. /\ conn' \in [Conns -> Connections] /\ conn'[c] = state
        /\ \A d \in Conns \ {c} : conn'[d] = conn[d]
        /\ walk' \in Walks \cup {None} /\ heard' = None /\ hub' = hub
        /\ updates' \in 0 .. MaxUpdates /\ WalkOrder'
    BY <1>2, ChangedInv
  <2>2. HubTypeOK'
    BY <1>2, <2>1 DEF HubTypeOK
  <2>3. \A d \in Conns : conn'[d].generation >= conn[d].generation
    <3>1. \A d \in Conns : conn[d].generation \in Nat
      BY HubAssumption DEF HubTypeOK, Connections
    <3>. QED BY <1>2, <2>1, <3>1
  <2>. QED BY <1>2, <2>1, <2>2, <2>3, RefreshKept
<1>3. CASE Opens(c)
  <2>. DEFINE n == [conn[c] EXCEPT !.usable = TRUE, !.generation = @ + 1]
  <2>1. n \in Connections /\ n.known = conn[c].known /\ n.generation = conn[c].generation + 1
    <3>1. conn[c].generation + 1 \in 0 .. MaxGenerations
      BY <1>1, <1>3, HubAssumption DEF Opens, Connections
    <3>. QED BY <1>1, <3>1 DEF Connections
  <2>2. Changed(c, n, FALSE)
    BY <1>3 DEF Opens
  <2>. HIDE DEF n
  <2>3. /\ conn' \in [Conns -> Connections] /\ conn'[c] = n
        /\ \A d \in Conns \ {c} : conn'[d] = conn[d]
        /\ walk' \in Walks \cup {None} /\ heard' = None /\ hub' = hub
        /\ updates' \in 0 .. MaxUpdates /\ WalkOrder'
    BY <2>1, <2>2, ChangedInv
  <2>4. refresh' = refresh /\ reopened' \in [Hubs -> SUBSET Conns]
        /\ \A h \in Hubs : refresh[h] # None => reopened'[h] = reopened[h] \cup {c}
    BY <1>1, <1>3 DEF Opens
  <2>5. HubTypeOK'
    BY <2>3, <2>4 DEF HubTypeOK
  <2>6. RefreshOrder'
    <3>. SUFFICES ASSUME NEW h \in Hubs, refresh[h] # None
                  PROVE  /\ \A d \in Conns : refresh[h].generation[d] <= conn'[d].generation
                         /\ \A d \in reopened'[h] : refresh[h].generation[d] < conn'[d].generation
      BY <2>4 DEF RefreshOrder
    <3>1. \A d \in Conns : refresh[h].generation[d] \in Nat /\ conn[d].generation \in Nat
      BY <1>1, HubAssumption DEF HubTypeOK, Refreshes, Connections
    <3>2. \A d \in reopened[h] : d \in Conns
      BY <1>1
    <3>3. reopened'[h] = reopened[h] \cup {c}
      BY <2>4
    <3>4. /\ \A d \in Conns : refresh[h].generation[d] <= conn[d].generation
          /\ \A d \in reopened[h] : refresh[h].generation[d] < conn[d].generation
      BY DEF RefreshOrder
    <3>5. conn'[c].generation = conn[c].generation + 1
      BY <2>1, <2>3
    <3>. QED BY <2>3, <3>1, <3>2, <3>3, <3>4, <3>5
  <2>. QED BY <2>3, <2>5, <2>6
<1>4. CASE Lost(c)
  <2>. DEFINE n == [conn[c] EXCEPT !.usable = FALSE, !.catalog = None]
  <2>1. n \in Connections /\ n.known = conn[c].known /\ n.generation = conn[c].generation
    BY <1>1 DEF Connections
  <2>2. Changed(c, n, FALSE) /\ UNCHANGED <<refresh, reopened>>
    BY <1>4 DEF Lost
  <2>. HIDE DEF n
  <2>. QED BY <1>2, <2>1, <2>2
<1>5. CASE Gone(c)
  <2>. DEFINE n == [conn[c] EXCEPT !.known = FALSE]
  <2>1. n \in Connections /\ n.generation = conn[c].generation
    BY <1>1 DEF Connections
  <2>2. Changed(c, n, TRUE) /\ UNCHANGED <<refresh, reopened>>
    BY <1>5 DEF Gone
  <2>. HIDE DEF n
  <2>. QED BY <1>2, <2>1, <2>2
<1>6. ASSUME NEW l \in Lists, Committed(c, l) PROVE HubInv'
  <2>. DEFINE n == [conn[c] EXCEPT !.catalog = l]
  <2>1. n \in Connections /\ n.known = conn[c].known /\ n.generation = conn[c].generation
    BY <1>1 DEF Connections
  <2>2. Changed(c, n, FALSE) /\ UNCHANGED <<refresh, reopened>>
    BY <1>6 DEF Committed
  <2>. HIDE DEF n
  <2>. QED BY <1>2, <2>1, <2>2
<1>. QED BY <1>3, <1>4, <1>5, <1>6

(* The walk without a hub it has visited, or that was removed.              *)
LEMMA VisitedWalk ==
  ASSUME HubTypeOK, walk # None, NEW h
  PROVE  /\ Visited(h) \in Walks \cup {None}
         /\ Visited(h) = None => walk.todo \ {h} = {}
         /\ Visited(h) # None => /\ Visited(h).todo = walk.todo \ {h}
                                 /\ Visited(h).conn = walk.conn
                                 /\ Visited(h).removed = walk.removed
<1>. DEFINE w == [walk EXCEPT !.todo = @ \ {h}]
<1>1. walk \in Walks
  BY DEF HubTypeOK
<1>2. w \in Walks /\ w.todo = walk.todo \ {h} /\ w.conn = walk.conn /\ w.removed = walk.removed
  BY <1>1 DEF Walks
<1>3. Visited(h) = Start(w)
  BY DEF Visited
<1>. HIDE DEF w
<1>4. CASE w.todo = {}
  BY <1>2, <1>3, <1>4 DEF Start
<1>5. CASE w.todo # {}
  BY <1>2, <1>3, <1>5, HubAssumption DEF Start
<1>. QED BY <1>4, <1>5

(* The definition of a hub without a member.                                *)
LEMMA WithoutMember ==
  ASSUME NEW d \in Definitions, NEW c \in Conns
  PROVE  Without(d, c) \in Definitions /\ Members(Without(d, c)) = Members(d) \ {c}
BY DEF Definitions, Without, Members

(* A turn of the walk.                                                      *)
LEMMA VisitInv ==
  ASSUME HubInv, NEW h \in Hubs, Visit(h)
  PROVE  HubInv'
<1>. USE DEF HubInv
<1>1. /\ walk # None /\ h \in walk.todo /\ walk' = Visited(h) /\ heard' \in Events \cup {None}
      /\ hub' = IF Affected(h) /\ walk.removed
                THEN [hub EXCEPT ![h] = Without(@, walk.conn)] ELSE hub
      /\ UNCHANGED <<conn, refresh, updates, reopened>>
  BY DEF Visit, Events, Event, EventTypes
<1>2. walk \in Walks /\ hub \in [Hubs -> Definitions \cup {None}] /\ Registered(h)
  BY <1>1 DEF HubTypeOK, WalkOrder
<1>3. hub[h] \in Definitions /\ walk.conn \in Conns /\ walk.todo \subseteq Hubs
  BY <1>2 DEF Registered, Walks
<1>4. /\ hub' \in [Hubs -> Definitions \cup {None}]
      /\ \A g \in Hubs \ {h} : hub'[g] = hub[g]
      /\ hub'[h] \in Definitions
      /\ Members(hub'[h]) = IF walk.removed THEN Members(hub[h]) \ {walk.conn} ELSE Members(hub[h])
  <2>1. CASE Affected(h) /\ walk.removed
    <3>1. hub' = [hub EXCEPT ![h] = Without(hub[h], walk.conn)]
      BY <1>1, <2>1
    <3>. QED BY <1>2, <1>3, <2>1, <3>1, WithoutMember
  <2>2. CASE ~(Affected(h) /\ walk.removed)
    BY <1>1, <1>2, <1>3, <2>2 DEF Affected
  <2>. QED BY <2>1, <2>2
<1>5. HubTypeOK'
  BY <1>1, <1>4, VisitedWalk DEF HubTypeOK
<1>6. WalkOrder'
  <2>1. ASSUME walk' # None, NEW g \in walk'.todo PROVE Registered(g)'
    <3>1. g \in walk.todo /\ g # h
      BY <1>1, <2>1, VisitedWalk
    <3>. QED BY <1>1, <1>3, <1>4, <3>1 DEF WalkOrder, Registered
  <2>2. ASSUME NEW g \in Hubs, Registered(g)', NEW c \in Members(hub'[g])
        PROVE  conn'[c].known \/ (walk' # None /\ walk'.removed /\ c = walk'.conn /\ g \in walk'.todo)
    <3>1. CASE g = h
      <4>1. c \in Members(hub[h]) /\ (walk.removed => c # walk.conn)
        BY <1>4, <2>2, <3>1
      <4>. QED BY <1>1, <1>2, <4>1 DEF WalkOrder
    <3>2. CASE g # h
      <4>1. Registered(g) /\ c \in Members(hub[g])
        BY <1>4, <2>2, <3>2 DEF Registered
      <4>2. CASE conn[c].known
        BY <1>1, <4>2
      <4>3. CASE walk.removed /\ c = walk.conn /\ g \in walk.todo
        BY <1>1, <3>2, <4>3, VisitedWalk
      <4>. QED BY <1>1, <4>1, <4>2, <4>3 DEF WalkOrder
    <3>. QED BY <3>1, <3>2
  <2>. QED BY <2>1, <2>2 DEF WalkOrder
<1>7. RefreshOrder'
  BY <1>1 DEF RefreshOrder
<1>. QED BY <1>5, <1>6, <1>7

(* A definition the host gives has registered members only.                 *)
LEMMA HostGivesInv ==
  ASSUME HubTypeOK, NEW h \in Hubs, NEW d \in Definitions, HostGives(h, d)
  PROVE  /\ hub' = [hub EXCEPT ![h] = d] /\ hub' \in [Hubs -> Definitions \cup {None}]
         /\ hub'[h] = d /\ d # None
         /\ \A g \in Hubs \ {h} : hub'[g] = hub[g]
         /\ updates' \in 0 .. MaxUpdates
         /\ \A c \in Members(d) : conn[c].known
BY HubAssumption DEF HubTypeOK, HostGives, Validated

(* register, update and remove, inside a walk or outside.                   *)
LEMMA HostStepInv ==
  ASSUME HubInv, NEW h \in Hubs, Remove(h) \/ \E d \in Definitions : Register(h, d) \/ Update(h, d)
  PROVE  HubInv'
<1>. USE DEF HubInv
<1>1. hub \in [Hubs -> Definitions \cup {None}] /\ walk \in Walks \cup {None}
  BY DEF HubTypeOK
<1>2. ASSUME NEW d \in Definitions, Register(h, d) PROVE HubInv'
  <2>1. /\ ~Registered(h) /\ HostGives(h, d) /\ heard' = Event("hub.registered", h)
        /\ walk' = IF walk = None THEN None ELSE [walk EXCEPT !.todo = @ \cup {h}]
        /\ UNCHANGED <<conn, refresh, reopened>>
    BY <1>2 DEF Register
  <2>2. /\ hub' \in [Hubs -> Definitions \cup {None}] /\ hub'[h] = d /\ d # None
        /\ \A g \in Hubs \ {h} : hub'[g] = hub[g]
        /\ updates' \in 0 .. MaxUpdates /\ \A c \in Members(d) : conn[c].known
    BY <2>1, HostGivesInv
  <2>3. /\ walk' \in Walks \cup {None} /\ (walk = None => walk' = None)
        /\ walk # None => /\ walk' # None /\ walk'.todo = walk.todo \cup {h}
                          /\ walk'.conn = walk.conn /\ walk'.removed = walk.removed
    <3>. DEFINE w == [walk EXCEPT !.todo = @ \cup {h}]
    <3>1. walk # None => w \in Walks /\ w.todo = walk.todo \cup {h} /\ w.conn = walk.conn /\ w.removed = walk.removed
      BY <1>1 DEF Walks
    <3>2. walk' = IF walk = None THEN None ELSE w
      BY <2>1
    <3>. HIDE DEF w
    <3>. QED BY <3>1, <3>2, HubAssumption
  <2>4. HubTypeOK'
    BY <2>1, <2>2, <2>3 DEF HubTypeOK, Event, Events, EventTypes
  <2>5. WalkOrder'
    <3>1. ASSUME walk' # None, NEW g \in walk'.todo PROVE Registered(g)'
      <4>1. walk # None /\ g \in walk.todo \cup {h}
        BY <2>3, <3>1
      <4>2. g \in Hubs
        BY <1>1, <4>1 DEF Walks
      <4>. QED BY <2>2, <4>1, <4>2 DEF WalkOrder, Registered
    <3>2. ASSUME NEW g \in Hubs, Registered(g)', NEW c \in Members(hub'[g])
          PROVE  conn'[c].known \/ (walk' # None /\ walk'.removed /\ c = walk'.conn /\ g \in walk'.todo)
      <4>1. CASE g = h
        BY <2>1, <2>2, <3>2, <4>1
      <4>2. CASE g # h
        <5>1. Registered(g) /\ c \in Members(hub[g])
          BY <2>2, <3>2, <4>2 DEF Registered
        <5>2. CASE conn[c].known
          BY <2>1, <5>2
        <5>3. CASE walk # None /\ walk.removed /\ c = walk.conn /\ g \in walk.todo
          BY <2>3, <5>3
        <5>. QED BY <5>1, <5>2, <5>3 DEF WalkOrder
      <4>. QED BY <4>1, <4>2
    <3>. QED BY <3>1, <3>2 DEF WalkOrder
  <2>6. RefreshOrder'
    BY <2>1 DEF RefreshOrder
  <2>. QED BY <2>4, <2>5, <2>6
<1>3. ASSUME NEW d \in Definitions, Update(h, d) PROVE HubInv'
  <2>1. /\ Registered(h) /\ HostGives(h, d) /\ heard' = Event("hub.updated", h)
        /\ UNCHANGED <<conn, walk, refresh, reopened>>
    BY <1>3 DEF Update
  <2>2. /\ hub' \in [Hubs -> Definitions \cup {None}] /\ hub'[h] = d /\ d # None
        /\ \A g \in Hubs \ {h} : hub'[g] = hub[g]
        /\ updates' \in 0 .. MaxUpdates /\ \A c \in Members(d) : conn[c].known
    BY <2>1, HostGivesInv
  <2>4. HubTypeOK'
    BY <2>1, <2>2 DEF HubTypeOK, Event, Events, EventTypes
  <2>5. WalkOrder'
    <3>1. ASSUME walk' # None, NEW g \in walk'.todo PROVE Registered(g)'
      <4>1. walk # None /\ g \in walk.todo \cup {h}
        BY <2>1, <3>1
      <4>2. g \in Hubs
        BY <1>1, <4>1 DEF Walks
      <4>. QED BY <2>2, <4>1, <4>2 DEF WalkOrder, Registered
    <3>2. ASSUME NEW g \in Hubs, Registered(g)', NEW c \in Members(hub'[g])
          PROVE  conn'[c].known \/ (walk' # None /\ walk'.removed /\ c = walk'.conn /\ g \in walk'.todo)
      <4>1. CASE g = h
        BY <2>1, <2>2, <3>2, <4>1
      <4>2. CASE g # h
        <5>1. Registered(g) /\ c \in Members(hub[g])
          BY <2>2, <3>2, <4>2 DEF Registered
        <5>2. CASE conn[c].known
          BY <2>1, <5>2
        <5>3. CASE walk # None /\ walk.removed /\ c = walk.conn /\ g \in walk.todo
          BY <2>1, <5>3
        <5>. QED BY <5>1, <5>2, <5>3 DEF WalkOrder
      <4>. QED BY <4>1, <4>2
    <3>. QED BY <3>1, <3>2 DEF WalkOrder
  <2>6. RefreshOrder'
    BY <2>1 DEF RefreshOrder
  <2>. QED BY <2>4, <2>5, <2>6
<1>4. CASE Remove(h)
  <2>1. /\ hub' = [hub EXCEPT ![h] = None] /\ heard' = Event("hub.removed", h)
        /\ walk' = IF walk = None THEN None ELSE Visited(h)
        /\ UNCHANGED <<conn, refresh, updates, reopened>>
    BY <1>4 DEF Remove
  <2>2. hub' \in [Hubs -> Definitions \cup {None}] /\ hub'[h] = None /\ \A g \in Hubs \ {h} : hub'[g] = hub[g]
    BY <1>1, <2>1
  <2>3. walk' \in Walks \cup {None} /\ (walk = None => walk' = None)
    BY <2>1, VisitedWalk
  <2>4. HubTypeOK'
    BY <2>1, <2>2, <2>3 DEF HubTypeOK, Event, Events, EventTypes
  <2>5. WalkOrder'
    <3>1. ASSUME walk' # None, NEW g \in walk'.todo PROVE Registered(g)'
      <4>1. walk # None /\ g \in walk.todo /\ g # h
        BY <2>1, <3>1, VisitedWalk
      <4>2. g \in Hubs
        BY <1>1, <4>1 DEF Walks
      <4>. QED BY <2>2, <4>1, <4>2 DEF WalkOrder, Registered
    <3>2. ASSUME NEW g \in Hubs, Registered(g)', NEW c \in Members(hub'[g])
          PROVE  conn'[c].known \/ (walk' # None /\ walk'.removed /\ c = walk'.conn /\ g \in walk'.todo)
      <4>1. g # h /\ Registered(g) /\ c \in Members(hub[g])
        BY <2>2, <3>2 DEF Registered
      <4>2. CASE conn[c].known
        BY <2>1, <4>2
      <4>3. CASE walk # None /\ walk.removed /\ c = walk.conn /\ g \in walk.todo
        BY <2>1, <4>1, <4>3, VisitedWalk
      <4>. QED BY <4>1, <4>2, <4>3 DEF WalkOrder
    <3>. QED BY <3>1, <3>2 DEF WalkOrder
  <2>6. RefreshOrder'
    BY <2>1 DEF RefreshOrder
  <2>. QED BY <2>4, <2>5, <2>6
<1>. QED BY <1>2, <1>3, <1>4

(* A refresh whose outcome for a member is recorded keeps its generations.  *)
LEMMA SettlesInv ==
  ASSUME HubTypeOK, NEW h \in Hubs, NEW c \in Conns, NEW o \in Lists \cup {"pending", "rejected"},
         Settles(h, c, o)
  PROVE  /\ refresh' \in [Hubs -> Refreshes \cup {None}]
         /\ \A g \in Hubs : (refresh'[g] # None) => refresh[g] # None
         /\ \A g \in Hubs : refresh[g] # None => refresh'[g].generation = refresh[g].generation
<1>. DEFINE s == [refresh[h].settled EXCEPT ![c] = o]
            n == [refresh[h] EXCEPT !.settled = s]
<1>1. refresh \in [Hubs -> Refreshes \cup {None}] /\ refresh[h] \in Refreshes /\ refresh[h] # None
  BY DEF HubTypeOK, Settles
<1>2. s \in [Conns -> Lists \cup {"pending", "rejected"}]
  BY <1>1 DEF Refreshes
<1>. HIDE DEF s
<1>3. n \in Refreshes /\ n.generation = refresh[h].generation
  BY <1>1, <1>2 DEF Refreshes
<1>4. refresh' = [refresh EXCEPT ![h] = n]
  BY DEF Settles, s
<1>. HIDE DEF n
<1>. QED BY <1>1, <1>3, <1>4

(* refreshCatalog, the outcomes of its members, and its end.                *)
LEMMA RefreshStepInv ==
  ASSUME HubInv, NEW h \in Hubs,
         \/ RefreshCatalog(h) \/ RefreshEnds(h)
         \/ \E c \in Conns : MemberRejects(h, c) \/ \E l \in Lists : MemberRefreshed(h, c, l)
  PROVE  HubInv'
<1>. USE DEF HubInv
<1>1. /\ conn \in [Conns -> Connections] /\ refresh \in [Hubs -> Refreshes \cup {None}]
      /\ reopened \in [Hubs -> SUBSET Conns] /\ hub \in [Hubs -> Definitions \cup {None}]
  BY DEF HubTypeOK
<1>2. \A c \in Conns : conn[c].generation \in 0 .. MaxGenerations /\ conn[c].generation \in Nat
  BY <1>1, HubAssumption DEF Connections
<1>3. CASE RefreshCatalog(h)
  <2>. DEFINE g0 == [c \in Conns |-> conn[c].generation]
              s0 == [c \in Conns |-> IF c \in Members(hub[h]) THEN "pending" ELSE "rejected"]
              n == [definition |-> hub[h], generation |-> g0, settled |-> s0]
  <2>1. g0 \in [Conns -> 0 .. MaxGenerations] /\ \A c \in Conns : g0[c] = conn[c].generation
    BY <1>2
  <2>2. s0 \in [Conns -> Lists \cup {"pending", "rejected"}]
    OBVIOUS
  <2>3. hub[h] \in Definitions
    BY <1>1, <1>3 DEF RefreshCatalog, Registered
  <2>. HIDE DEF g0, s0
  <2>4. n \in Refreshes /\ n.generation = g0
    BY <2>1, <2>2, <2>3 DEF Refreshes
  <2>5. /\ refresh' = [refresh EXCEPT ![h] = n] /\ reopened' = [reopened EXCEPT ![h] = {}]
        /\ heard' = None /\ UNCHANGED <<conn, hub, walk, updates>>
    BY <1>3 DEF RefreshCatalog, g0, s0
  <2>. HIDE DEF n
  <2>6. /\ refresh' \in [Hubs -> Refreshes \cup {None}] /\ refresh'[h] = n
        /\ reopened' \in [Hubs -> SUBSET Conns] /\ reopened'[h] = {}
        /\ \A g \in Hubs \ {h} : refresh'[g] = refresh[g] /\ reopened'[g] = reopened[g]
    BY <1>1, <2>4, <2>5
  <2>7. HubTypeOK'
    BY <2>5, <2>6 DEF HubTypeOK
  <2>8. WalkOrder'
    BY <2>5 DEF WalkOrder, Registered
  <2>9. RefreshOrder'
    <3>. SUFFICES ASSUME NEW g \in Hubs, refresh'[g] # None
                  PROVE  /\ \A c \in Conns : refresh'[g].generation[c] <= conn[c].generation
                         /\ \A c \in reopened'[g] : refresh'[g].generation[c] < conn[c].generation
      BY <2>5 DEF RefreshOrder
    <3>1. CASE g = h
      BY <1>2, <2>1, <2>4, <2>6, <3>1
    <3>2. CASE g # h
      BY <2>6, <3>2 DEF RefreshOrder
    <3>. QED BY <3>1, <3>2
  <2>. QED BY <2>7, <2>8, <2>9
<1>4. CASE RefreshEnds(h)
  <2>1. /\ refresh' = [refresh EXCEPT ![h] = None] /\ reopened' = [reopened EXCEPT ![h] = {}]
        /\ heard' \in Events \cup {None} /\ UNCHANGED <<conn, hub, walk, updates>>
    BY <1>4 DEF RefreshEnds, Event, Events, EventTypes
  <2>2. /\ refresh' \in [Hubs -> Refreshes \cup {None}] /\ refresh'[h] = None
        /\ reopened' \in [Hubs -> SUBSET Conns]
        /\ \A g \in Hubs \ {h} : refresh'[g] = refresh[g] /\ reopened'[g] = reopened[g]
    BY <1>1, <2>1
  <2>3. HubTypeOK'
    BY <2>1, <2>2 DEF HubTypeOK
  <2>4. WalkOrder'
    BY <2>1 DEF WalkOrder, Registered
  <2>5. RefreshOrder'
    BY <2>1, <2>2 DEF RefreshOrder
  <2>. QED BY <2>3, <2>4, <2>5
<1>5. ASSUME NEW c \in Conns, MemberRejects(h, c) PROVE HubInv'
  <2>1. Settles(h, c, "rejected") /\ heard' = None /\ UNCHANGED <<conn, hub, walk, updates, reopened>>
    BY <1>5 DEF MemberRejects
  <2>2. /\ refresh' \in [Hubs -> Refreshes \cup {None}]
        /\ \A g \in Hubs : (refresh'[g] # None) => refresh[g] # None
        /\ \A g \in Hubs : refresh[g] # None => refresh'[g].generation = refresh[g].generation
    BY <2>1, SettlesInv
  <2>3. HubTypeOK'
    BY <2>1, <2>2 DEF HubTypeOK
  <2>4. WalkOrder'
    BY <2>1 DEF WalkOrder, Registered
  <2>5. RefreshOrder'
    BY <2>1, <2>2 DEF RefreshOrder
  <2>. QED BY <2>3, <2>4, <2>5
<1>6. ASSUME NEW c \in Conns, NEW l \in Lists, MemberRefreshed(h, c, l) PROVE HubInv'
  <2>. DEFINE n == [conn[c] EXCEPT !.catalog = l]
  <2>1. n \in Connections /\ n.known = conn[c].known /\ n.generation = conn[c].generation
    BY <1>1 DEF Connections
  <2>2. Settles(h, c, l) /\ Changed(c, n, FALSE) /\ reopened' = reopened
    BY <1>6 DEF MemberRefreshed
  <2>. HIDE DEF n
  <2>3. /\ refresh' \in [Hubs -> Refreshes \cup {None}]
        /\ \A g \in Hubs : (refresh'[g] # None) => refresh[g] # None
        /\ \A g \in Hubs : refresh[g] # None => refresh'[g].generation = refresh[g].generation
    BY <2>2, SettlesInv
  <2>4. /\ conn' \in [Conns -> Connections] /\ conn'[c] = n
        /\ \A d \in Conns \ {c} : conn'[d] = conn[d]
        /\ walk' \in Walks \cup {None} /\ heard' = None /\ hub' = hub
        /\ updates' \in 0 .. MaxUpdates /\ WalkOrder'
    BY <2>1, <2>2, ChangedInv
  <2>5. HubTypeOK'
    BY <1>1, <2>2, <2>3, <2>4 DEF HubTypeOK
  <2>6. \A d \in Conns : conn'[d].generation = conn[d].generation
    BY <2>1, <2>4
  <2>7. RefreshOrder'
    <3>. SUFFICES ASSUME NEW g \in Hubs, refresh'[g] # None
                  PROVE  /\ \A d \in Conns : refresh'[g].generation[d] <= conn'[d].generation
                         /\ \A d \in reopened[g] : refresh'[g].generation[d] < conn'[d].generation
      BY <2>2 DEF RefreshOrder
    <3>1. refresh[g] # None /\ refresh'[g].generation = refresh[g].generation /\ reopened[g] \subseteq Conns
      BY <1>1, <2>3
    <3>. QED BY <2>6, <3>1 DEF RefreshOrder
  <2>. QED BY <2>4, <2>5, <2>7
<1>. QED BY <1>3, <1>4, <1>5, <1>6

(* Every step of the hub manager.                                           *)
LEMMA HubStepInv == HubInv /\ HubNext => HubInv'
BY ConnectionStepInv, HostStepInv, RefreshStepInv, VisitInv
   DEF HubNext, ConnectionStep, HostStep, RefreshStep

(* A refresh that answers has the definition the hub has, and every member  *)
(* is of the generation it had when the refresh began, so none was replaced.*)
LEMMA AnswerStep ==
  ASSUME HubInv, HubNext, NEW h \in Hubs, heard' = Event("hub.catalog.refreshed", h)
  PROVE  /\ hub[h].exposes = refresh[h].definition.exposes
         /\ reopened[h] \cap Members(hub[h]) = {}
<1>1. heard'.type = "hub.catalog.refreshed" /\ heard'.hub = h /\ heard' # None
  <2>1. heard' \in Events
    BY DEF Event, Events, EventTypes
  <2>. QED BY <2>1, HubAssumption DEF Event
<1>2. PICK g \in Hubs : RefreshEnds(g)
  <2>1. ~ConnectionStep
    BY <1>1 DEF ConnectionStep, Opens, Lost, Gone, Committed, Changed
  <2>2. ~HostStep
    BY <1>1 DEF HostStep, Remove, Register, Update, Event
  <2>3. \A g \in Hubs : ~Visit(g)
    BY <1>1 DEF Visit, Event
  <2>4. \A g \in Hubs : ~RefreshCatalog(g) /\ \A c \in Conns : ~MemberRejects(g, c) /\ \A l \in Lists : ~MemberRefreshed(g, c, l)
    BY <1>1 DEF RefreshCatalog, MemberRejects, MemberRefreshed, Changed
  <2>. QED BY <2>1, <2>2, <2>3, <2>4 DEF HubNext, RefreshStep
<1>3. g = h /\ RefreshHolds(h, refresh[h]) /\ refresh[h] # None
  BY <1>1, <1>2 DEF RefreshEnds, Event
<1>4. hub[h] = refresh[h].definition
      /\ \A c \in Members(refresh[h].definition) : conn[c].generation = refresh[h].generation[c]
  BY <1>3 DEF RefreshHolds
<1>5. \A c \in reopened[h] : refresh[h].generation[c] < conn[c].generation
  BY <1>3 DEF HubInv, RefreshOrder
<1>6. \A c \in Conns : conn[c].generation \in Nat
  BY HubAssumption DEF HubInv, HubTypeOK, Connections
<1>. QED BY <1>4, <1>5, <1>6 DEF Members

-----------------------------------------------------------------------------
(* The gateway.  A walk has still to announce the change of a member to it. *)
Pending == walk # None /\ HubId \in walk.todo /\ walk.conn \in Members(hub[HubId])

(* The projection in hand and the index of routes are of one topology, the  *)
(* present one while the hub is watched, unless its change is pending or    *)
(* makes no definition.                                                     *)
RoutesOrder ==
    ~astray =>
       /\ gateway # "absent" => Registered(HubId)
       /\ cached = routes
       /\ gateway = "started" => cached = Topology \/ Pending \/ ~Builds(Topology)

(* An instance in line is connected.                                        *)
LineOrder == \A i \in inLine : inst[i].phase = "connected"

(* The gateway over its hub.                                                *)
GatewayInv ==
    /\ HubInv /\ GatewayTypeOK
    /\ RoutesOrder /\ LineOrder /\ InLine /\ DeliveredIsFenced

(* What a gateway that is started listens to, in the step just taken.       *)
Heard == heard' # None /\ heard'.hub = HubId /\ heard'.type \in Watched

(* A definition and the connections of its members make a topology.         *)
LEMMA TopologyOf ==
  ASSUME NEW d \in Definitions, NEW k \in [Conns -> Connections]
  PROVE  [exposes |-> d.exposes,
          identity |-> [c \in Conns |->
             IF c \in Members(d) /\ k[c].catalog # None
             THEN [generation |-> k[c].generation, list |-> k[c].catalog] ELSE NoIdentity]]
         \in Topologies
<1>. DEFINE m == [c \in Conns |->
                   IF c \in Members(d) /\ k[c].catalog # None
                   THEN [generation |-> k[c].generation, list |-> k[c].catalog] ELSE NoIdentity]
<1>1. NoIdentity \in Identities
  BY HubAssumption DEF NoIdentity, Identities
<1>2. \A c \in Conns : [generation |-> k[c].generation, list |-> k[c].catalog] \in Identities
  BY DEF Identities, Connections
<1>3. m \in [Conns -> Identities]
  BY <1>1, <1>2
<1>4. d.exposes \in [Conns -> Sources \cup {Out}]
  BY DEF Definitions
<1>. HIDE DEF m
<1>5. [exposes |-> d.exposes, identity |-> m] \in Topologies
  BY <1>3, <1>4 DEF Topologies
<1>. QED BY <1>5 DEF m

(* The topology of a registered hub is one, now and after the step.         *)
LEMMA TopologyTyped == HubTypeOK /\ Registered(HubId) => Topology \in Topologies
<1>. SUFFICES ASSUME HubTypeOK, Registered(HubId) PROVE Topology \in Topologies
  OBVIOUS
<1>1. hub[HubId] \in Definitions /\ conn \in [Conns -> Connections]
  BY GatewayAssumption DEF HubTypeOK, Registered
<1>. QED BY <1>1, TopologyOf DEF Topology

(* The same after the step.                                                 *)
LEMMA TopologyTypedNext == HubTypeOK' /\ Registered(HubId)' => Topology' \in Topologies
<1>. SUFFICES ASSUME HubTypeOK', Registered(HubId)' PROVE Topology' \in Topologies
  OBVIOUS
<1>1. hub'[HubId] \in Definitions /\ conn' \in [Conns -> Connections]
  BY GatewayAssumption DEF HubTypeOK, Registered
<1>. QED BY <1>1, TopologyOf DEF Topology

(* A step that leaves a hub's definition and the members' connections alone *)
(* leaves its topology.                                                     *)
LEMMA SameTopology ==
  ASSUME hub'[HubId] = hub[HubId], \A c \in Members(hub[HubId]) : conn'[c] = conn[c]
  PROVE  Topology' = Topology
<1>1. \A c \in Conns :
         (IF c \in Members(hub'[HubId]) /\ conn'[c].catalog # None
          THEN [generation |-> conn'[c].generation, list |-> conn'[c].catalog] ELSE NoIdentity)
       = (IF c \in Members(hub[HubId]) /\ conn[c].catalog # None
          THEN [generation |-> conn[c].generation, list |-> conn[c].catalog] ELSE NoIdentity)
  OBVIOUS
<1>. QED BY <1>1 DEF Topology

(* A change of the served hub's topology is announced in the step that      *)
(* makes it, or the walk it starts has the hub before it.                   *)
Follows ==
    /\ Heard => Registered(HubId)'
    /\ (Registered(HubId) /\ Registered(HubId)' /\ ~Heard) =>
          \/ Topology' = Topology /\ (Pending => Pending')
          \/ Pending'

(* A change of a connection: the walk has the served hub before it.         *)
LEMMA ChangedFollows ==
  ASSUME HubInv, NEW c \in Conns, NEW state \in Connections,
         NEW removed \in BOOLEAN, Changed(c, state, removed),
         removed \/ state.known = conn[c].known
  PROVE  Follows
<1>1. /\ \A d \in Conns \ {c} : conn'[d] = conn[d]
      /\ heard' = None /\ hub' = hub /\ walk = None
      /\ walk' = None => \A h \in Hubs : ~Registered(h)
      /\ walk' # None => walk' = Walk(c, removed)
  BY ChangedInv DEF HubInv
<1>2. ~Heard /\ ~Pending
  BY <1>1 DEF Heard, Pending
<1>3. CASE c \in Members(hub[HubId]) /\ Registered(HubId)
  <2>1. walk' # None /\ walk' = Walk(c, removed)
    BY <1>1, <1>3, GatewayAssumption
  <2>2. HubId \in walk'.todo /\ walk'.conn = c
    BY <1>3, <2>1, GatewayAssumption DEF Walk
  <2>3. Pending'
    BY <1>1, <1>3, <2>1, <2>2 DEF Pending
  <2>. QED BY <1>2, <2>3 DEF Follows
<1>4. CASE c \notin Members(hub[HubId])
  <2>1. Topology' = Topology
    BY <1>1, <1>4, MembersAreConns, SameTopology
  <2>. QED BY <1>2, <2>1 DEF Follows
<1>5. CASE ~Registered(HubId)
  BY <1>2, <1>5 DEF Follows
<1>. QED BY <1>3, <1>4, <1>5

(* Whatever changes the connection.                                         *)
LEMMA ConnectionFollows ==
  ASSUME HubInv, NEW c \in Conns,
         Opens(c) \/ Lost(c) \/ Gone(c) \/ \E l \in Lists : Committed(c, l) \/
            \E h \in Hubs : MemberRefreshed(h, c, l)
  PROVE  Follows
<1>1. conn[c] \in Connections
  BY DEF HubInv, HubTypeOK
<1>2. CASE Opens(c)
  <2>. DEFINE n == [conn[c] EXCEPT !.usable = TRUE, !.generation = @ + 1]
  <2>1. conn[c].generation + 1 \in 0 .. MaxGenerations
    BY <1>1, <1>2, HubAssumption DEF Opens, Connections
  <2>2. n \in Connections /\ n.known = conn[c].known
    BY <1>1, <2>1 DEF Connections
  <2>3. Changed(c, n, FALSE)
    BY <1>2 DEF Opens
  <2>. HIDE DEF n
  <2>. QED BY <2>2, <2>3, ChangedFollows
<1>3. CASE Lost(c)
  <2>. DEFINE n == [conn[c] EXCEPT !.usable = FALSE, !.catalog = None]
  <2>1. n \in Connections /\ n.known = conn[c].known
    BY <1>1 DEF Connections
  <2>2. Changed(c, n, FALSE)
    BY <1>3 DEF Lost
  <2>. HIDE DEF n
  <2>. QED BY <2>1, <2>2, ChangedFollows
<1>4. CASE Gone(c)
  <2>. DEFINE n == [conn[c] EXCEPT !.known = FALSE]
  <2>1. n \in Connections
    BY <1>1 DEF Connections
  <2>2. Changed(c, n, TRUE)
    BY <1>4 DEF Gone
  <2>. HIDE DEF n
  <2>. QED BY <2>1, <2>2, ChangedFollows
<1>5. ASSUME NEW l \in Lists, Committed(c, l) \/ \E h \in Hubs : MemberRefreshed(h, c, l) PROVE Follows
  <2>. DEFINE n == [conn[c] EXCEPT !.catalog = l]
  <2>1. n \in Connections /\ n.known = conn[c].known
    BY <1>1 DEF Connections
  <2>2. Changed(c, n, FALSE)
    BY <1>5 DEF Committed, MemberRefreshed
  <2>. HIDE DEF n
  <2>. QED BY <2>1, <2>2, ChangedFollows
<1>. QED BY <1>2, <1>3, <1>4, <1>5

(* A turn of the walk announces what it finds to be affected.               *)
LEMMA VisitFollows ==
  ASSUME HubInv, NEW h \in Hubs, Visit(h)
  PROVE  Follows
<1>1. /\ walk # None /\ h \in walk.todo /\ walk' = Visited(h) /\ conn' = conn
      /\ hub' = IF Affected(h) /\ walk.removed
                THEN [hub EXCEPT ![h] = Without(@, walk.conn)] ELSE hub
      /\ heard' = IF ~Affected(h) THEN None
                  ELSE IF walk.removed THEN Event("hub.updated", h)
                       ELSE Event("hub.connection.changed", h)
  BY DEF Visit
<1>2. walk \in Walks /\ hub \in [Hubs -> Definitions \cup {None}] /\ Registered(h)
  BY <1>1 DEF HubInv, HubTypeOK, WalkOrder
<1>3. hub[h] \in Definitions /\ walk.conn \in Conns
  BY <1>2 DEF Registered, Walks
<1>4. Registered(h)'
  <2>1. hub'[h] \in Definitions
    BY <1>1, <1>2, <1>3, WithoutMember
  <2>. QED BY <2>1, HubAssumption DEF Registered
<1>5. CASE Affected(h)
  <2>1. heard'.hub = h /\ heard'.type \in Watched /\ heard' \in Events
    BY <1>1, <1>5 DEF Event, Events, EventTypes, Watched
  <2>2. CASE h = HubId
    BY <1>4, <2>1, <2>2, HubAssumption DEF Heard, Follows
  <2>3. CASE h # HubId
    <3>1. ~Heard
      BY <2>1, <2>3 DEF Heard
    <3>2. hub'[HubId] = hub[HubId]
      BY <1>1, <1>2, <2>3
    <3>3. Topology' = Topology
      BY <1>1, <3>2, SameTopology
    <3>4. Pending => Pending'
      BY <1>1, <2>3, <3>2, VisitedWalk DEF Pending, HubInv
    <3>. QED BY <3>1, <3>3, <3>4 DEF Follows
  <2>. QED BY <2>2, <2>3
<1>6. CASE ~Affected(h)
  <2>1. ~Heard /\ hub' = hub
    BY <1>1, <1>6 DEF Heard
  <2>2. Topology' = Topology
    BY <1>1, <2>1, SameTopology
  <2>3. Pending => Pending'
    <3>1. CASE h = HubId
      BY <1>6, <3>1 DEF Affected, Pending
    <3>2. CASE h # HubId
      BY <1>1, <2>1, <3>2, VisitedWalk DEF Pending, HubInv
    <3>. QED BY <3>1, <3>2
  <2>. QED BY <2>1, <2>2, <2>3 DEF Follows
<1>. QED BY <1>5, <1>6

(* What the host does to a hub is announced in the same call.               *)
LEMMA HostFollows ==
  ASSUME HubInv, NEW h \in Hubs, Remove(h) \/ \E d \in Definitions : Register(h, d) \/ Update(h, d)
  PROVE  Follows
<1>1. hub \in [Hubs -> Definitions \cup {None}] /\ walk \in Walks \cup {None}
  BY DEF HubInv, HubTypeOK
<1>2. ASSUME NEW d \in Definitions, Register(h, d) PROVE Follows
  <2>1. /\ ~Registered(h) /\ HostGives(h, d) /\ heard' = Event("hub.registered", h)
        /\ walk' = IF walk = None THEN None ELSE [walk EXCEPT !.todo = @ \cup {h}]
        /\ conn' = conn
    BY <1>2 DEF Register
  <2>2. ~Heard
    BY <2>1 DEF Heard, Event, Watched
  <2>3. \A g \in Hubs \ {h} : hub'[g] = hub[g]
    BY <2>1, HostGivesInv DEF HubInv
  <2>4. ASSUME Registered(HubId) PROVE Topology' = Topology /\ (Pending => Pending')
    <3>1. hub'[HubId] = hub[HubId]
      BY <2>1, <2>3, <2>4, GatewayAssumption
    <3>2. ASSUME Pending PROVE Pending'
      <4>. DEFINE w == [walk EXCEPT !.todo = @ \cup {h}]
      <4>1. w \in Walks /\ w.todo = walk.todo \cup {h} /\ w.conn = walk.conn
        BY <1>1, <3>2 DEF Walks, Pending
      <4>2. walk' = w
        BY <2>1, <3>2 DEF Pending
      <4>. HIDE DEF w
      <4>. QED BY <3>1, <3>2, <4>1, <4>2, HubAssumption DEF Pending
    <3>. QED BY <2>1, <3>1, <3>2, SameTopology
  <2>. QED BY <2>2, <2>4 DEF Follows
<1>3. ASSUME NEW d \in Definitions, Update(h, d) PROVE Follows
  <2>1. /\ HostGives(h, d) /\ heard' = Event("hub.updated", h) /\ UNCHANGED <<conn, walk>>
    BY <1>3 DEF Update
  <2>2. hub'[h] = d /\ d # None /\ \A g \in Hubs \ {h} : hub'[g] = hub[g]
    BY <2>1, HostGivesInv DEF HubInv
  <2>3. heard'.hub = h /\ heard'.type \in Watched /\ heard' \in Events
    BY <2>1 DEF Event, Events, EventTypes, Watched
  <2>4. CASE h = HubId
    BY <2>2, <2>3, <2>4, HubAssumption DEF Heard, Follows, Registered
  <2>5. CASE h # HubId
    <3>1. ~Heard /\ hub'[HubId] = hub[HubId]
      BY <2>2, <2>3, <2>5, GatewayAssumption DEF Heard
    <3>2. Topology' = Topology
      BY <2>1, <3>1, SameTopology
    <3>. QED BY <2>1, <3>1, <3>2 DEF Follows, Pending
  <2>. QED BY <2>4, <2>5
<1>4. CASE Remove(h)
  <2>1. /\ hub' = [hub EXCEPT ![h] = None] /\ heard' = Event("hub.removed", h)
        /\ walk' = IF walk = None THEN None ELSE Visited(h)
        /\ conn' = conn
    BY <1>4 DEF Remove
  <2>2. ~Heard
    BY <2>1 DEF Heard, Event, Watched
  <2>3. ASSUME Registered(HubId)' PROVE Topology' = Topology /\ (Pending => Pending')
    <3>1. h # HubId /\ hub'[HubId] = hub[HubId]
      BY <1>1, <2>1, <2>3, GatewayAssumption DEF Registered
    <3>2. Pending => Pending'
      BY <2>1, <3>1, VisitedWalk DEF Pending, HubInv
    <3>. QED BY <2>1, <3>1, <3>2, SameTopology
  <2>. QED BY <2>2, <2>3 DEF Follows
<1>. QED BY <1>2, <1>3, <1>4

(* A refresh of a hub changes no topology by itself.                        *)
LEMMA RefreshFollows ==
  ASSUME HubInv, NEW h \in Hubs,
         RefreshCatalog(h) \/ RefreshEnds(h) \/ \E c \in Conns : MemberRejects(h, c)
  PROVE  Follows
<1>1. UNCHANGED <<conn, hub, walk>>
  BY DEF RefreshCatalog, RefreshEnds, MemberRejects
<1>2. Topology' = Topology /\ (Pending => Pending')
  BY <1>1, SameTopology DEF Pending
<1>3. Heard => Registered(HubId)'
  <2>. SUFFICES ASSUME Heard PROVE Registered(HubId)'
    OBVIOUS
  <2>1. RefreshEnds(h)
    BY DEF Heard, RefreshCatalog, MemberRejects
  <2>2. heard' = Event("hub.catalog.refreshed", h) /\ RefreshHolds(h, refresh[h])
    BY <2>1 DEF RefreshEnds, Heard, Event, Watched
  <2>3. h = HubId /\ refresh[h] \in Refreshes /\ hub[h] = refresh[h].definition
    BY <2>1, <2>2 DEF Heard, Event, RefreshHolds, RefreshEnds, HubInv, HubTypeOK
  <2>4. hub[h] \in Definitions
    BY <2>3 DEF Refreshes
  <2>. QED BY <1>1, <2>3, <2>4, HubAssumption DEF Registered
<1>. QED BY <1>2, <1>3 DEF Follows

(* Every step of the hub manager.                                           *)
LEMMA HubFollows == HubInv /\ HubNext => Follows
BY ConnectionFollows, VisitFollows, HostFollows, RefreshFollows
   DEF HubNext, ConnectionStep, HostStep, RefreshStep

-----------------------------------------------------------------------------
(* What a topology routes to under a name.                                  *)
LEMMA RouteTyped ==
  ASSUME NEW t \in Topologies \cup {None}, NEW c \in Conns
  PROVE  RouteIn(t, c) \in AnyRoute
<1>1. NoRoute \in AnyRoute
  BY HubAssumption DEF NoRoute, AnyRoute
<1>2. ASSUME t # None PROVE [generation |-> t.identity[c].generation, list |-> t.identity[c].list,
                             source |-> t.exposes[c]] \in AnyRoute
  <2>1. t \in Topologies
    BY <1>2
  <2>2. t.identity[c] \in Identities /\ t.exposes[c] \in Sources \cup {Out}
    BY <2>1 DEF Topologies
  <2>. QED BY <2>2 DEF Identities, AnyRoute
<1>. QED BY <1>1, <1>2 DEF RouteIn

(* All the routes of a topology.                                            *)
LEMMA RoutesTyped == \A t \in Topologies \cup {None} : RoutesIn(t) \in [Conns -> AnyRoute]
BY RouteTyped DEF RoutesIn

(* After a reconciliation every name is of the version that is wanted.      *)
LEMMA MergedTyped ==
  ASSUME NEW old \in [Conns -> AnyRoute], NEW new \in [Conns -> AnyRoute]
  PROVE  /\ Merged(old, new) \in [Conns -> AnyRoute]
         /\ \A c \in Conns : Version(Merged(old, new)[c]) = Version(new[c])
BY DEF Merged, Kept

(* What is left of a list when the SDK refuses half of it.                  *)
LEMMA RemovedTyped ==
  ASSUME NEW old \in [Conns -> AnyRoute], NEW new \in [Conns -> AnyRoute]
  PROVE  Removed(old, new) \in [Conns -> AnyRoute]
<1>1. NoRoute \in AnyRoute
  BY HubAssumption DEF NoRoute, AnyRoute
<1>. QED BY <1>1 DEF Removed

-----------------------------------------------------------------------------
(* No gateway yet.                                                          *)
LEMMA GatewayInitInv == GatewayInit => GatewayInv
<1>. SUFFICES ASSUME GatewayInit PROVE GatewayInv
  OBVIOUS
<1>1. HubInv
  BY HubInitInv DEF GatewayInit
<1>2. GatewayTypeOK
  <2>1. NewInstance \in InstanceStates
    <3>1. NoRoute \in AnyRoute
      BY HubAssumption DEF NoRoute, AnyRoute
    <3>. QED BY <3>1 DEF NewInstance, InstanceStates
  <2>. QED BY <1>1, <2>1 DEF GatewayInit, GatewayTypeOK, HubInv
<1>. QED BY <1>1, <1>2 DEF GatewayInit, GatewayInv, RoutesOrder, LineOrder, InLine, DeliveredIsFenced

(* A step of the hub manager, with what the gateway does in the same call.  *)
LEMMA HubMovesInv == GatewayInv /\ HubMoves => GatewayInv'
<1>. SUFFICES ASSUME GatewayInv, HubMoves PROVE GatewayInv'
  OBVIOUS
<1>1. /\ HubNext /\ call' = None /\ UNCHANGED <<gateway, inst>>
      /\ IF Hears THEN Announce(Topology') ELSE UNCHANGED <<previous, cached, routes, runs>>
      /\ astray' = (astray \/ (gateway # "absent" /\ hub'[HubId] = None))
      /\ inLine' = IF hub'[HubId] # None /\ hub[HubId] # None /\ Topology' = Topology
                   THEN inLine ELSE {}
  BY DEF HubMoves
<1>2. HubInv' /\ Follows
  BY <1>1, HubStepInv, HubFollows DEF GatewayInv
<1>3. Hears => Heard /\ gateway = "started" /\ Topology' \in Topologies
  BY <1>2, TopologyTypedNext DEF Hears, Heard, Follows, HubInv
<1>4. GatewayTypeOK'
  <2>1. HubTypeOK' /\ inst' \in [Instances -> InstanceStates] /\ gateway' \in {"absent", "built", "started"}
        /\ astray' \in BOOLEAN /\ inLine' \subseteq Instances
    BY <1>1, <1>2 DEF GatewayInv, GatewayTypeOK, HubInv
  <2>2. {previous', cached', routes'} \subseteq Topologies \cup {None}
    BY <1>1, <1>3 DEF GatewayInv, GatewayTypeOK, Announce, Announced, Unbuilt, Project
  <2>3. runs' \in [Runs -> RunStates \cup {None}]
    <3>1. CASE Hears /\ Projects(Topology') /\ Topology' # previous
      <4>1. PICK r \in Runs : runs' = [runs EXCEPT ![r] =
                 [topology |-> Topology', seen |-> {}, at |-> None, target |-> None]]
        BY <1>1, <3>1 DEF Announce, Announced
      <4>2. [topology |-> Topology', seen |-> {}, at |-> None, target |-> None] \in RunStates
        BY <1>3, <3>1 DEF RunStates
      <4>. QED BY <4>1, <4>2 DEF GatewayInv, GatewayTypeOK
    <3>2. CASE ~(Hears /\ Projects(Topology') /\ Topology' # previous)
      BY <1>1, <3>2 DEF Announce, Announced, Unbuilt, GatewayInv, GatewayTypeOK
    <3>. QED BY <3>1, <3>2
  <2>. QED BY <1>1, <2>1, <2>2, <2>3 DEF GatewayTypeOK
<1>5. RoutesOrder'
  <2>. SUFFICES ASSUME ~astray'
                PROVE  /\ gateway # "absent" => Registered(HubId)'
                       /\ cached' = routes'
                       /\ gateway = "started" => cached' = Topology' \/ Pending' \/ ~Builds(Topology')
    BY <1>1 DEF RoutesOrder
  <2>1. ~astray /\ (gateway # "absent" => Registered(HubId) /\ Registered(HubId)') /\ cached = routes
    BY <1>1 DEF GatewayInv, RoutesOrder, Registered
  <2>2. cached' = routes'
    BY <1>1, <2>1 DEF Announce, Announced, Unbuilt, Project, Current
  <2>3. ASSUME gateway = "started" PROVE cached' = Topology' \/ Pending' \/ ~Builds(Topology')
    <3>1. CASE Heard
      BY <1>1, <2>3, <3>1 DEF Hears, Heard, Announce, Announced, Unbuilt, Projects, Project, Current
    <3>2. CASE ~Heard
      <4>1. cached' = cached
        BY <1>1, <1>3, <3>2
      <4>. QED BY <1>2, <2>1, <2>3, <3>2, <4>1 DEF Follows, GatewayInv, RoutesOrder
    <3>. QED BY <3>1, <3>2
  <2>. QED BY <2>1, <2>2, <2>3
<1>6. LineOrder'
  BY <1>1 DEF GatewayInv, LineOrder
<1>7. InLine'
  BY <1>1 DEF GatewayInv, InLine
<1>8. DeliveredIsFenced'
  BY <1>1 DEF DeliveredIsFenced
<1>. QED BY <1>2, <1>4, <1>5, <1>6, <1>7, <1>8 DEF GatewayInv

-----------------------------------------------------------------------------
(* A step of the gateway leaves the hubs, and so the topology, alone.       *)
LEMMA IdleKeeps ==
  ASSUME GatewayInv, Idle
  PROVE  /\ HubInv' /\ Topology' = Topology /\ ~Pending /\ ~Pending'
         /\ (Registered(HubId)' <=> Registered(HubId))
<1>1. HubRests /\ walk = None
  BY DEF Idle, HubRests
<1>2. HubInv'
  BY <1>1, HubRestsInv DEF GatewayInv
<1>3. Topology' = Topology
  BY <1>1, SameTopology DEF HubRests
<1>. QED BY <1>1, <1>2, <1>3 DEF HubRests, Pending, Registered

(* Steps that change nothing a projection or a list is made of.             *)
LEMMA QuietInv ==
  ASSUME GatewayInv, Idle, UNCHANGED <<cached, routes>>, GatewayTypeOK',
         gateway' = gateway \/ (gateway' = "built" /\ Registered(HubId)),
         call' = None \/ DeliveredIsFenced',
         inLine' \subseteq inLine,
         \A i \in inLine' : inst'[i].phase = inst[i].phase /\ inst'[i].installed = inst[i].installed,
         astray => astray'
  PROVE  GatewayInv'
<1>1. HubInv' /\ Topology' = Topology /\ ~Pending /\ ~Pending' /\ (Registered(HubId)' <=> Registered(HubId))
  BY IdleKeeps
<1>2. RoutesOrder'
  BY <1>1 DEF GatewayInv, RoutesOrder
<1>3. LineOrder'
  BY DEF GatewayInv, LineOrder
<1>4. InLine'
  BY <1>1 DEF GatewayInv, InLine
<1>5. DeliveredIsFenced'
  BY DEF DeliveredIsFenced
<1>. QED BY <1>1, <1>2, <1>3, <1>4, <1>5 DEF GatewayInv

(* The types a quiet step of the gateway keeps.                             *)
LEMMA IdleTypes ==
  ASSUME GatewayInv, Idle, gateway' \in {"absent", "built", "started"},
         {previous', cached', routes'} \subseteq Topologies \cup {None},
         inst' \in [Instances -> InstanceStates], runs' \in [Runs -> RunStates \cup {None}],
         call' \in {None} \cup Forwards,
         astray' \in BOOLEAN, inLine' \subseteq Instances
  PROVE  GatewayTypeOK'
BY IdleKeeps DEF GatewayTypeOK, HubInv

(* A gateway is built over a registered hub.                                *)
LEMMA ConstructInv == GatewayInv /\ Construct => GatewayInv'
<1>. SUFFICES ASSUME GatewayInv, Construct PROVE GatewayInv'
  OBVIOUS
<1>1. /\ Idle /\ Registered(HubId) /\ gateway' = "built" /\ call' = None
      /\ UNCHANGED <<previous, cached, routes, inst, runs, astray, inLine>>
  BY DEF Construct
<1>2. GatewayTypeOK'
  BY <1>1, IdleTypes DEF GatewayInv, GatewayTypeOK
<1>. QED BY <1>1, <1>2, QuietInv

(* The gateway stops watching its hub.                                      *)
LEMMA StopWatchingInv == GatewayInv /\ StopWatching => GatewayInv'
<1>. SUFFICES ASSUME GatewayInv, StopWatching PROVE GatewayInv'
  OBVIOUS
<1>1. /\ Idle /\ gateway = "started" /\ gateway' = "built" /\ call' = None
      /\ UNCHANGED <<previous, cached, routes, inst, runs, astray, inLine>>
  BY DEF StopWatching
<1>2. GatewayTypeOK'
  BY <1>1, IdleTypes DEF GatewayInv, GatewayTypeOK
<1>3. RoutesOrder'
  BY <1>1, IdleKeeps DEF GatewayInv, RoutesOrder
<1>4. LineOrder' /\ InLine' /\ DeliveredIsFenced'
  BY <1>1, IdleKeeps DEF GatewayInv, LineOrder, InLine, DeliveredIsFenced
<1>. QED BY <1>1, <1>2, <1>3, <1>4, IdleKeeps DEF GatewayInv

(* start() projects the present topology.                                   *)
LEMMA StartWatchingInv == GatewayInv /\ StartWatching => GatewayInv'
<1>. SUFFICES ASSUME GatewayInv, StartWatching PROVE GatewayInv'
  OBVIOUS
<1>1. /\ Idle /\ Served /\ gateway' = "started" /\ call' = None
      /\ Project(Topology) /\ previous' = Topology
      /\ UNCHANGED <<inst, runs, astray, inLine>>
  BY DEF StartWatching
<1>2. Topology \in Topologies /\ Registered(HubId)
  BY <1>1, TopologyTyped DEF GatewayInv, HubInv, Served
<1>3. GatewayTypeOK'
  BY <1>1, <1>2, IdleTypes DEF GatewayInv, GatewayTypeOK, Project
<1>4. RoutesOrder'
  BY <1>1, <1>2, IdleKeeps DEF GatewayInv, RoutesOrder, Project, Current
<1>5. LineOrder' /\ InLine' /\ DeliveredIsFenced'
  BY <1>1, IdleKeeps DEF GatewayInv, LineOrder, InLine, DeliveredIsFenced
<1>. QED BY <1>1, <1>3, <1>4, <1>5, IdleKeeps DEF GatewayInv

(* A projection for one instance or for all of them: while the hub is       *)
(* watched, the one in hand is the present one already if one can be built. *)
LEMMA ProjectedOrder ==
  ASSUME GatewayInv, Idle, Registered(HubId), gateway' = gateway,
         \/ Projects(Topology) /\ Project(Topology) /\ astray' = astray
         \/ Builds(Topology) /\ ProjectFor(Topology) /\ astray' = (astray \/ gateway # "started")
  PROVE  RoutesOrder' /\ astray' \in BOOLEAN /\ {cached', routes'} \subseteq Topologies \cup {None}
<1>1. Topology \in Topologies /\ Registered(HubId)
  BY TopologyTyped DEF GatewayInv, HubInv
<1>2. {cached', routes'} \subseteq Topologies \cup {None} /\ astray' \in BOOLEAN
  BY <1>1 DEF GatewayInv, GatewayTypeOK, Project, ProjectFor
<1>3. RoutesOrder'
  <2>1. /\ Topology' = Topology /\ ~Pending /\ Registered(HubId)'
        /\ astray \in BOOLEAN
    BY <1>1, IdleKeeps DEF GatewayInv, GatewayTypeOK
  <2>2. ASSUME ~astray' PROVE cached' = routes' /\ (gateway' = "started" => cached' = Topology')
    <3>1. ~astray /\ cached = routes /\ (gateway = "started" => cached = Topology \/ ~Builds(Topology))
      BY <2>1, <2>2 DEF GatewayInv, RoutesOrder
    <3>2. CASE Projects(Topology) /\ Project(Topology)
      BY <2>1, <3>1, <3>2 DEF Project, Current
    <3>3. CASE Builds(Topology) /\ ProjectFor(Topology) /\ astray' = (astray \/ gateway # "started")
      BY <2>1, <2>2, <3>1, <3>3 DEF ProjectFor
    <3>. QED BY <3>2, <3>3
  <2>. QED BY <2>1, <2>2 DEF RoutesOrder
<1>. QED BY <1>2, <1>3

(* instantiate(), up to the wait for admission and setup.                   *)
LEMMA InstantiateInv ==
  ASSUME GatewayInv, NEW i \in Instances, NEW era \in {"modern", "legacy"}, Instantiate(i, era)
  PROVE  GatewayInv'
<1>. DEFINE n == [inst[i] EXCEPT !.phase = "building", !.era = era, !.building = Topology]
<1>1. /\ Idle /\ Served /\ inst[i].phase = "new" /\ call' = None
      /\ inst' = [inst EXCEPT ![i] = n]
      /\ IF era = "legacy" THEN Builds(Topology) /\ ProjectFor(Topology)
         ELSE Projects(Topology) /\ Project(Topology)
      /\ astray' = (astray \/ (era = "legacy" /\ gateway # "started"))
      /\ UNCHANGED <<gateway, previous, runs, inLine>>
  BY DEF Instantiate, GatewayInv, GatewayTypeOK, InstanceStates
<1>2. Topology \in Topologies
  BY <1>1, TopologyTyped DEF GatewayInv, HubInv, Served
<1>3. n \in InstanceStates
  <2>1. inst[i] \in InstanceStates
    BY DEF GatewayInv, GatewayTypeOK
  <2>. QED BY <1>2, <2>1 DEF InstanceStates
<1>. HIDE DEF n
<1>4. /\ inst' \in [Instances -> InstanceStates]
      /\ \A j \in Instances \ {i} : inst'[j] = inst[j]
  BY <1>1, <1>3 DEF GatewayInv, GatewayTypeOK
<1>5. \/ Projects(Topology) /\ Project(Topology) /\ astray' = astray
      \/ Builds(Topology) /\ ProjectFor(Topology) /\ astray' = (astray \/ gateway # "started")
  BY <1>1 DEF GatewayInv, GatewayTypeOK
<1>6. RoutesOrder' /\ astray' \in BOOLEAN /\ {cached', routes'} \subseteq Topologies \cup {None}
  BY <1>1, <1>5, ProjectedOrder DEF Served
<1>7. GatewayTypeOK'
  BY <1>1, <1>4, <1>6, IdleTypes DEF GatewayInv, GatewayTypeOK
<1>8. i \notin inLine
  BY <1>1 DEF GatewayInv, LineOrder
<1>9. LineOrder' /\ InLine' /\ DeliveredIsFenced'
  BY <1>1, <1>4, <1>8, IdleKeeps DEF GatewayInv, GatewayTypeOK, LineOrder, InLine, DeliveredIsFenced
<1>. QED BY <1>1, <1>6, <1>7, <1>9, IdleKeeps DEF GatewayInv

(* instantiate() after it: the instance lists what it was built from.       *)
LEMMA MaterializedInv ==
  ASSUME GatewayInv, NEW i \in Instances, Materialized(i)
  PROVE  GatewayInv'
<1>. DEFINE n == [inst[i] EXCEPT !.phase = "ready", !.tracked = TRUE, !.building = None,
                                 !.installed = RoutesIn(inst[i].building)]
            o(j) == [inst[j] EXCEPT !.tracked = @ /\ inst[j].phase = "connected"]
<1>1. /\ Idle /\ inst[i].phase = "building" /\ call' = None
      /\ inst' = [j \in Instances |-> IF j = i THEN n ELSE o(j)]
      /\ UNCHANGED <<gateway, previous, cached, routes, runs, astray, inLine>>
  BY DEF Materialized
<1>2. inst \in [Instances -> InstanceStates]
  BY DEF GatewayInv, GatewayTypeOK
<1>3. RoutesIn(inst[i].building) \in [Conns -> AnyRoute]
  BY <1>2, RoutesTyped DEF InstanceStates
<1>4. n \in InstanceStates
  BY <1>2, <1>3 DEF InstanceStates
<1>5. \A j \in Instances : o(j) \in InstanceStates /\ o(j).phase = inst[j].phase /\ o(j).installed = inst[j].installed
  BY <1>2 DEF InstanceStates
<1>. HIDE DEF n, o
<1>6. /\ inst' \in [Instances -> InstanceStates]
      /\ \A j \in Instances \ {i} : inst'[j].phase = inst[j].phase /\ inst'[j].installed = inst[j].installed
  BY <1>1, <1>4, <1>5
<1>7. GatewayTypeOK'
  BY <1>1, <1>6, IdleTypes DEF GatewayInv, GatewayTypeOK
<1>8. i \notin inLine /\ inLine \subseteq Instances
  BY <1>1 DEF GatewayInv, LineOrder, GatewayTypeOK
<1>9. \A j \in inLine' : inst'[j].phase = inst[j].phase /\ inst'[j].installed = inst[j].installed
  BY <1>1, <1>6, <1>8
<1>. QED BY <1>1, <1>7, <1>9, QuietInv

(* A downstream client connects.                                            *)
LEMMA ConnectedInv ==
  ASSUME GatewayInv, NEW i \in Instances, Connected(i)
  PROVE  GatewayInv'
<1>. DEFINE n == [inst[i] EXCEPT !.phase = "connected"]
<1>1. /\ Idle /\ inst[i].phase = "ready" /\ call' = None
      /\ inst' = [inst EXCEPT ![i] = n]
      /\ UNCHANGED <<gateway, previous, cached, routes, runs, astray, inLine>>
  BY DEF Connected
<1>2. inst \in [Instances -> InstanceStates]
  BY DEF GatewayInv, GatewayTypeOK
<1>3. n \in InstanceStates
  BY <1>2 DEF InstanceStates
<1>. HIDE DEF n
<1>4. /\ inst' \in [Instances -> InstanceStates]
      /\ \A j \in Instances \ {i} : inst'[j] = inst[j]
  BY <1>1, <1>2, <1>3
<1>5. GatewayTypeOK'
  BY <1>1, <1>4, IdleTypes DEF GatewayInv, GatewayTypeOK
<1>6. i \notin inLine /\ inLine \subseteq Instances
  BY <1>1 DEF GatewayInv, LineOrder, GatewayTypeOK
<1>. QED BY <1>1, <1>4, <1>5, <1>6, QuietInv

(* A downstream client goes.                                                *)
LEMMA ClosedInv ==
  ASSUME GatewayInv, NEW i \in Instances, Closed(i)
  PROVE  GatewayInv'
<1>. DEFINE n == [inst[i] EXCEPT !.phase = "closed"]
<1>1. /\ Idle /\ call' = None /\ inLine' = inLine \ {i}
      /\ inst' = [inst EXCEPT ![i] = n]
      /\ UNCHANGED <<gateway, previous, cached, routes, runs, astray>>
  BY DEF Closed
<1>2. inst \in [Instances -> InstanceStates] /\ inLine \subseteq Instances
  BY DEF GatewayInv, GatewayTypeOK
<1>3. n \in InstanceStates
  BY <1>2 DEF InstanceStates
<1>. HIDE DEF n
<1>4. /\ inst' \in [Instances -> InstanceStates]
      /\ \A j \in Instances \ {i} : inst'[j] = inst[j]
  BY <1>1, <1>2, <1>3
<1>5. GatewayTypeOK'
  BY <1>1, <1>2, <1>4, IdleTypes DEF GatewayInv, GatewayTypeOK
<1>. QED BY <1>1, <1>2, <1>4, <1>5, QuietInv

-----------------------------------------------------------------------------
(* The runs of #notifyDownstream.                                           *)
LEMMA ReconcileStartsInv ==
  ASSUME GatewayInv, NEW r \in Runs, NEW i \in Instances, ReconcileStarts(r, i)
  PROVE  GatewayInv'
<1>. DEFINE target == IF inst[i].era = "legacy" THEN Topology ELSE runs[r].topology
            n == [runs[r] EXCEPT !.at = i, !.seen = @ \cup {i}, !.target = target]
            m == [runs[r] EXCEPT !.seen = @ \cup {i}]
            k == [inst[i] EXCEPT !.tracked = FALSE]
<1>1. /\ runs \in [Runs -> RunStates \cup {None}] /\ inst \in [Instances -> InstanceStates]
      /\ astray \in BOOLEAN /\ inLine \subseteq Instances
  BY DEF GatewayInv, GatewayTypeOK
<1>2. /\ Idle /\ runs[r] \in RunStates /\ call' = None
      /\ IF inst[i].era = "legacy" THEN Registered(HubId) /\ Builds(Topology) /\ ProjectFor(Topology)
         ELSE UNCHANGED <<cached, routes>>
      /\ \/ runs' = [runs EXCEPT ![r] = n] /\ inst' = inst
         \/ runs' = [runs EXCEPT ![r] = m] /\ inst' = [inst EXCEPT ![i] = k]
      /\ astray' = (astray \/ (inst[i].era = "legacy" /\ gateway # "started"))
      /\ UNCHANGED <<gateway, previous, inLine>>
  BY <1>1 DEF ReconcileStarts
<1>3. inst[i].era = "legacy" => Topology \in Topologies
  BY <1>2, TopologyTyped DEF GatewayInv, HubInv
<1>4. target \in Topologies
  BY <1>2, <1>3 DEF RunStates
<1>. HIDE DEF target
<1>5. n \in RunStates /\ m \in RunStates
  BY <1>2, <1>4 DEF RunStates
<1>6. k \in InstanceStates /\ k.phase = inst[i].phase /\ k.installed = inst[i].installed
  BY <1>1 DEF InstanceStates
<1>. HIDE DEF n, m, k
<1>7. runs' \in [Runs -> RunStates \cup {None}] /\ inst' \in [Instances -> InstanceStates]
      /\ \A j \in Instances : inst'[j].phase = inst[j].phase /\ inst'[j].installed = inst[j].installed
  BY <1>1, <1>2, <1>5, <1>6
<1>8. \/ /\ Registered(HubId) /\ Builds(Topology) /\ ProjectFor(Topology)
         /\ astray' = (astray \/ gateway # "started")
      \/ UNCHANGED <<cached, routes>> /\ astray' = astray
  BY <1>1, <1>2
<1>9. RoutesOrder' /\ astray' \in BOOLEAN /\ {cached', routes'} \subseteq Topologies \cup {None}
  <2>1. CASE UNCHANGED <<cached, routes>> /\ astray' = astray
    BY <1>1, <1>2, <2>1, IdleKeeps DEF GatewayInv, GatewayTypeOK, RoutesOrder
  <2>. QED BY <1>2, <1>8, <2>1, ProjectedOrder
<1>10. GatewayTypeOK'
  BY <1>2, <1>7, <1>9, IdleTypes DEF GatewayInv, GatewayTypeOK
<1>11. LineOrder' /\ InLine' /\ DeliveredIsFenced'
  BY <1>1, <1>2, <1>7, IdleKeeps DEF GatewayInv, LineOrder, InLine, DeliveredIsFenced
<1>. QED BY <1>2, <1>9, <1>10, <1>11, IdleKeeps DEF GatewayInv

(* A run that puts an instance down, with what it has made of its list.     *)
LEMMA PutDownTyped ==
  ASSUME GatewayTypeOK, NEW r \in Runs, runs[r] # None, runs[r].at # None,
         runs' = [runs EXCEPT ![r].at = None, ![r].target = None]
  PROVE  /\ runs[r].at \in Instances /\ runs[r].target \in Topologies \cup {None}
         /\ runs' \in [Runs -> RunStates \cup {None}]
<1>. DEFINE n == [[runs[r] EXCEPT !.at = None] EXCEPT !.target = None]
<1>1. runs \in [Runs -> RunStates \cup {None}] /\ runs[r] \in RunStates
  BY DEF GatewayTypeOK
<1>2. n \in RunStates
  BY <1>1 DEF RunStates
<1>3. runs' = [runs EXCEPT ![r] = n]
  BY <1>1
<1>. HIDE DEF n
<1>. QED BY <1>1, <1>2, <1>3 DEF RunStates

(* An instance that a run has reconciled lists the versions of the target.  *)
LEMMA ReconcilesInv ==
  ASSUME GatewayInv, NEW r \in Runs, Reconciles(r)
  PROVE  GatewayInv'
<1>. DEFINE i == runs[r].at
            wanted == RoutesIn(runs[r].target)
            n == [inst[i] EXCEPT !.installed = Merged(inst[i].installed, wanted)]
<1>1. /\ inst \in [Instances -> InstanceStates] /\ inLine \subseteq Instances
      /\ runs \in [Runs -> RunStates \cup {None}]
  BY DEF GatewayInv, GatewayTypeOK
<1>2. /\ Idle /\ runs[r] # None /\ i # None /\ call' = None
      /\ runs' = [runs EXCEPT ![r].at = None, ![r].target = None]
      /\ inst' = [inst EXCEPT ![i] = n]
      /\ inLine' = IF /\ Alone(r) /\ Registered(HubId) /\ gateway = "started"
                      /\ runs[r].target = Topology /\ inst[i].phase = "connected"
                   THEN inLine \cup {i} ELSE inLine \ {i}
      /\ UNCHANGED <<gateway, previous, cached, routes, astray>>
  BY DEF Reconciles
<1>3. i \in Instances /\ runs[r].target \in Topologies \cup {None} /\ runs' \in [Runs -> RunStates \cup {None}]
  BY <1>2, PutDownTyped DEF GatewayInv
<1>. HIDE DEF i
<1>4. wanted \in [Conns -> AnyRoute] /\ inst[i].installed \in [Conns -> AnyRoute]
  BY <1>1, <1>3, RoutesTyped DEF InstanceStates
<1>5. wanted = RoutesIn(runs[r].target)
  OBVIOUS
<1>. HIDE DEF wanted
<1>6. /\ n \in InstanceStates /\ n.phase = inst[i].phase
      /\ \A c \in Conns : Version(n.installed[c]) = Version(wanted[c])
  BY <1>1, <1>3, <1>4, MergedTyped DEF InstanceStates
<1>. HIDE DEF n
<1>7. /\ inst' \in [Instances -> InstanceStates] /\ inst'[i] = n
      /\ \A j \in Instances \ {i} : inst'[j] = inst[j]
  BY <1>1, <1>2, <1>3, <1>6
<1>8. GatewayTypeOK'
  BY <1>1, <1>2, <1>3, <1>7, IdleTypes DEF GatewayInv, GatewayTypeOK
<1>9. RoutesOrder'
  BY <1>2, IdleKeeps DEF GatewayInv, RoutesOrder
<1>10. ASSUME NEW j \in inLine'
       PROVE  /\ inst'[j].phase = "connected"
              /\ \A c \in Conns : Version(inst'[j].installed[c]) = Version(RouteIn(Topology, c))
  <2>1. CASE j = i
    <3>1. runs[r].target = Topology /\ inst[i].phase = "connected"
      BY <1>2, <1>10, <2>1
    <3>2. \A c \in Conns : wanted[c] = RouteIn(Topology, c)
      BY <1>5, <3>1 DEF RoutesIn
    <3>. QED BY <1>6, <1>7, <2>1, <3>1, <3>2
  <2>2. CASE j # i
    <3>1. j \in inLine /\ inst'[j] = inst[j]
      BY <1>1, <1>2, <1>7, <1>10, <2>2
    <3>. QED BY <3>1 DEF GatewayInv, LineOrder, InLine
  <2>. QED BY <2>1, <2>2
<1>11. LineOrder' /\ InLine'
  BY <1>2, <1>10, IdleKeeps DEF LineOrder, InLine
<1>12. DeliveredIsFenced'
  BY <1>2 DEF DeliveredIsFenced
<1>. QED BY <1>2, <1>8, <1>9, <1>11, <1>12, IdleKeeps DEF GatewayInv

(* An instance whose reconciliation fails is forgotten.                     *)
LEMMA ReconcileFailsInv ==
  ASSUME GatewayInv, NEW r \in Runs, ReconcileFails(r)
  PROVE  GatewayInv'
<1>. DEFINE i == runs[r].at
            left == Removed(inst[i].installed, RoutesIn(runs[r].target))
            n == [[inst[i] EXCEPT !.installed = left] EXCEPT !.tracked = FALSE]
<1>1. /\ inst \in [Instances -> InstanceStates] /\ inLine \subseteq Instances
      /\ runs \in [Runs -> RunStates \cup {None}]
  BY DEF GatewayInv, GatewayTypeOK
<1>2. /\ Idle /\ runs[r] # None /\ i # None /\ call' = None
      /\ runs' = [runs EXCEPT ![r].at = None, ![r].target = None]
      /\ inst' = [inst EXCEPT ![i].installed = Removed(@, RoutesIn(runs[r].target)),
                              ![i].tracked = FALSE]
      /\ inLine' = inLine \ {i}
      /\ UNCHANGED <<gateway, previous, cached, routes, astray>>
  BY DEF ReconcileFails
<1>3. i \in Instances /\ runs[r].target \in Topologies \cup {None} /\ runs' \in [Runs -> RunStates \cup {None}]
  BY <1>2, PutDownTyped DEF GatewayInv
<1>4. inst' = [inst EXCEPT ![i] = n]
  BY <1>1, <1>2, <1>3
<1>. HIDE DEF i
<1>5. left \in [Conns -> AnyRoute]
  BY <1>1, <1>3, RoutesTyped, RemovedTyped DEF InstanceStates
<1>. HIDE DEF left
<1>6. n \in InstanceStates
  BY <1>1, <1>3, <1>5 DEF InstanceStates
<1>. HIDE DEF n
<1>7. /\ inst' \in [Instances -> InstanceStates]
      /\ \A j \in Instances \ {i} : inst'[j] = inst[j]
  BY <1>1, <1>3, <1>4, <1>6
<1>8. GatewayTypeOK'
  BY <1>1, <1>2, <1>3, <1>7, IdleTypes DEF GatewayInv, GatewayTypeOK
<1>. QED BY <1>1, <1>2, <1>7, <1>8, QuietInv

(* A run that cannot project for a legacy instance.                         *)
LEMMA RunThrowsInv ==
  ASSUME GatewayInv, NEW r \in Runs, NEW i \in Instances, RunThrows(r, i)
  PROVE  GatewayInv'
<1>1. /\ Idle /\ call' = None /\ runs' = [runs EXCEPT ![r] = None]
      /\ UNCHANGED <<gateway, previous, cached, routes, inst, astray, inLine>>
  BY DEF RunThrows
<1>2. GatewayTypeOK'
  BY <1>1, IdleTypes DEF GatewayInv, GatewayTypeOK
<1>. QED BY <1>1, <1>2, QuietInv

(* A run has visited every instance.                                        *)
LEMMA RunEndsInv ==
  ASSUME GatewayInv, NEW r \in Runs, RunEnds(r)
  PROVE  GatewayInv'
<1>1. /\ Idle /\ call' = None /\ runs' = [runs EXCEPT ![r] = None]
      /\ UNCHANGED <<gateway, previous, cached, routes, inst, astray, inLine>>
  BY DEF RunEnds
<1>2. GatewayTypeOK'
  BY <1>1, IdleTypes DEF GatewayInv, GatewayTypeOK
<1>. QED BY <1>1, <1>2, QuietInv

-----------------------------------------------------------------------------
(* A downstream call is delivered where its route leads now, or to what the *)
(* hub exposes now.                                                         *)
LEMMA CallInv ==
  ASSUME GatewayInv, NEW i \in Instances, NEW c \in Conns, Call(i, c)
  PROVE  GatewayInv'
<1>. DEFINE route == RouteIn(routes, c)
<1>1. PICK fenced \in BOOLEAN :
        call' = [conn |-> c, route |-> route, fenced |-> fenced,
                 delivered |-> route # NoRoute /\ IF fenced THEN Resolves(HubId, c, route)
                                                  ELSE Reads(HubId, c)]
  BY DEF Call
<1>2. Idle /\ UNCHANGED <<gateway, previous, cached, routes, inst, runs, astray, inLine>>
  BY DEF Call
<1>3. route \in AnyRoute
  BY RouteTyped DEF GatewayInv, GatewayTypeOK
<1>. HIDE DEF route
<1>4. call' \in Forwards
  BY <1>1, <1>3 DEF Forwards, Resolves, Reads
<1>5. GatewayTypeOK'
  BY <1>2, <1>4, IdleTypes DEF GatewayInv, GatewayTypeOK
<1>6. UNCHANGED <<conn, hub>>
  BY <1>2 DEF Idle
<1>7. DeliveredIsFenced'
  <2>. SUFFICES ASSUME call'.delivered
                PROVE  /\ conn[c].usable /\ conn[c].catalog # None
                       /\ hub[HubId].exposes[c] \in Offers(conn[c].catalog)
                       /\ fenced => /\ conn[c].generation = route.generation
                                    /\ conn[c].catalog = route.list
                                    /\ hub[HubId].exposes[c] = route.source
    BY <1>1, <1>6 DEF DeliveredIsFenced
  <2>1. Route(hub[HubId], c) # NoRoute /\ (fenced => route = Route(hub[HubId], c))
    BY <1>1 DEF Resolves, Reads
  <2>. QED BY <2>1 DEF Route
<1>. QED BY <1>1, <1>2, <1>5, <1>7, QuietInv

(* Every step of the gateway itself.                                        *)
LEMMA GatewayStepInv == GatewayInv /\ GatewayStep => GatewayInv'
BY ConstructInv, StartWatchingInv, StopWatchingInv, InstantiateInv, MaterializedInv, ConnectedInv,
   ClosedInv, CallInv, ReconcilesInv, ReconcileFailsInv, RunEndsInv, RunThrowsInv, ReconcileStartsInv
   DEF GatewayStep

(* No step at all.                                                          *)
LEMMA GatewayStutter == GatewayInv /\ UNCHANGED gatewayVars => GatewayInv'
<1>. SUFFICES ASSUME GatewayInv, UNCHANGED gatewayVars PROVE GatewayInv'
  OBVIOUS
<1>. USE DEF gatewayVars, gatewayOwn, hubVars
<1>1. HubInv' /\ GatewayTypeOK'
  BY DEF GatewayInv, HubInv, HubTypeOK, WalkOrder, RefreshOrder, Registered, GatewayTypeOK
<1>2. Topology' = Topology /\ (Pending' <=> Pending)
  BY SameTopology DEF Pending
<1>3. RoutesOrder' /\ LineOrder' /\ InLine' /\ DeliveredIsFenced'
  BY <1>2 DEF GatewayInv, RoutesOrder, Registered, LineOrder, InLine, DeliveredIsFenced
<1>. QED BY <1>1, <1>3 DEF GatewayInv

-----------------------------------------------------------------------------
(* The inductive invariant of the hubs and of the gateway over them.        *)
THEOREM GatewayInvAlways == GatewaySpec => []GatewayInv
<1>1. GatewayInv /\ [GatewayNext]_gatewayVars => GatewayInv'
  BY HubMovesInv, GatewayStepInv, GatewayStutter DEF GatewayNext
<1>. QED BY <1>1, GatewayInitInv, PTL DEF GatewaySpec

(* Between two walks every member of every hub is a registered connection,  *)
(* whatever the listeners inside a walk did to the hubs it goes through:    *)
(* no snapshot, catalog or event of a hub throws for an unknown member.     *)
THEOREM MembersAlwaysKnown == GatewaySpec => []HubMembersKnown
<1>1. GatewayInv => HubMembersKnown
  BY DEF GatewayInv, HubInv, WalkOrder, HubMembersKnown, MembersKnown
<1>. QED BY <1>1, GatewayInvAlways, PTL

(* A hub refresh that answers does so for the membership it began with, and *)
(* no session of a member was replaced on the way.                          *)
THEOREM AnswersAreOneTopology == GatewaySpec => AnswerIsOneTopology
<1>1. GatewayInv /\ [GatewayNext]_gatewayVars =>
        [\A h \in Hubs :
           heard' = Event("hub.catalog.refreshed", h) =>
             /\ hub[h].exposes = refresh[h].definition.exposes
             /\ reopened[h] \cap Members(hub[h]) = {}]_hubVars
  <2>. SUFFICES ASSUME GatewayInv, [GatewayNext]_gatewayVars, hubVars' # hubVars,
                       NEW h \in Hubs, heard' = Event("hub.catalog.refreshed", h)
                PROVE  /\ hub[h].exposes = refresh[h].definition.exposes
                       /\ reopened[h] \cap Members(hub[h]) = {}
    OBVIOUS
  <2>1. HubNext
    <3>1. Event("hub.catalog.refreshed", h) # None
      BY HubAssumption DEF Event, Events, EventTypes
    <3>2. ~GatewayStep
      BY <3>1 DEF GatewayStep, Construct, StartWatching, StopWatching, Instantiate, Materialized,
                  Connected, Closed, Call, Reconciles, ReconcileFails, RunEnds, RunThrows,
                  ReconcileStarts, Idle
    <3>. QED BY <3>2 DEF GatewayNext, HubMoves, gatewayVars
  <2>. QED BY <2>1, AnswerStep DEF GatewayInv
<1>. QED BY <1>1, GatewayInvAlways, PTL DEF GatewaySpec, AnswerIsOneTopology

(* While the hub is watched, the routes that handlers forward by are those  *)
(* of the projection in hand, which is of the present topology if that      *)
(* makes a definition; an instance reconciled for it lists its names and    *)
(* versions; and a call reaches no session, catalog or tool but those its   *)
(* route was projected from or, of a template, one the hub exposes now.     *)
THEOREM DownstreamAlwaysCurrent == GatewaySpec => []DownstreamCurrent
<1>1. GatewayInv => DownstreamCurrent
  BY DEF GatewayInv, RoutesOrder, Pending, DownstreamCurrent, RoutesCurrent
<1>. QED BY <1>1, GatewayInvAlways, PTL

-----------------------------------------------------------------------------
(* A request on its way in (RequestPipeline): the entries of the cache,     *)
(* requests, buckets and the calls let through.                             *)
CacheEntry == [token : Tokens, ok : BOOLEAN, until : Nat]
Request == [phase : {"idle", "asking", "answered", "admitted", "refused", "served", "limited"},
            token : Tokens \cup {Unset}, answer : BOOLEAN, at : Time]
BucketState == [shares : 0 .. Capacity, at : Time]
ServedCall == [token : Tokens, at : Time]

(* What is cached of a token is no older than an answer and the latency it  *)
(* came with: a revocation is felt in time.                                 *)
EntryTimely(x) ==
    x.ok =>
        /\ x.until <= clock + CacheTtl
        /\ grant[x.token].revoked # Unset =>
              x.until <= grant[x.token].revoked + CacheTtl + MaxLatency

(* What is under way about a token: an answer that says it is active was    *)
(* given before it was revoked, and is on its way for no longer than the    *)
(* latency.                                                                 *)
RequestTimely(r) ==
    /\ req[r].phase \in {"asking", "answered", "admitted"} => req[r].token \in Tokens
    /\ req[r].phase = "answered" =>
          /\ req[r].at <= clock /\ clock <= req[r].at + MaxLatency
          /\ req[r].answer /\ grant[req[r].token].revoked # Unset
                => req[r].at <= grant[req[r].token].revoked
    /\ req[r].phase = "admitted" => req[r].at = clock

GrantTimely == \A t \in Tokens : grant[t].revoked # Unset => grant[t].revoked <= clock
Timely ==
    /\ GrantTimely
    /\ \A n \in DOMAIN cache : EntryTimely(cache[n])
    /\ \A r \in Requests : RequestTimely(r)

(* The calls let through for the principal of token t, from i to j.         *)
Calls(i, j, t) == {k \in i .. j : served[k].token = t}

(* What was let through since any call and what is left in the bucket fit   *)
(* in a full bucket and the refill of the time between.                     *)
PaidFor(t, b) ==
    \A i \in DOMAIN served : served[i].token = t =>
        /\ served[i].at <= b.at
        /\ Cardinality(Calls(i, Len(served), t)) * Share + b.shares
              <= Capacity + (b.at - served[i].at)
Paid ==
    \A t \in Tokens :
        IF bucket[t] = Unset THEN \A i \in DOMAIN served : served[i].token # t
        ELSE bucket[t].at <= clock /\ PaidFor(t, bucket[t])

(* The invariant: types, the three properties, and what they rest on.       *)
PipelineInv == PipelineTypeOK /\ CacheBounded /\ Timely /\ RevocationBites /\ Paid /\ BurstBounded

(* The type invariant by the sets named above.                              *)
LEMMA TypeParts ==
    PipelineTypeOK <=>
        /\ clock \in Time /\ grant \in [Tokens -> [exp : Nat, revoked : Time \cup {Unset}]]
        /\ cache \in Seq(CacheEntry) /\ req \in [Requests -> Request]
        /\ bucket \in [Tokens -> {Unset} \cup BucketState] /\ served \in Seq(ServedCall)
BY DEF PipelineTypeOK, CacheEntry, Request, BucketState, ServedCall

(* The same of the next state.                                              *)
LEMMA TypePartsNext ==
    PipelineTypeOK' <=>
        /\ clock' \in Time /\ grant' \in [Tokens -> [exp : Nat, revoked : Time \cup {Unset}]]
        /\ cache' \in Seq(CacheEntry) /\ req' \in [Requests -> Request]
        /\ bucket' \in [Tokens -> {Unset} \cup BucketState] /\ served' \in Seq(ServedCall)
BY DEF PipelineTypeOK, CacheEntry, Request, BucketState, ServedCall, Time

(* What the elements of the two sequences are.                              *)
LEMMA CacheTypes ==
    ASSUME PipelineTypeOK, NEW n \in DOMAIN cache
    PROVE  cache[n].token \in Tokens /\ cache[n].ok \in BOOLEAN /\ cache[n].until \in Nat
<1>1. cache \in Seq(CacheEntry)
  BY TypeParts
<1>2. cache[n] \in CacheEntry
  BY <1>1
<1> QED BY <1>2 DEF CacheEntry

(* What the calls let through are.                                          *)
LEMMA ServedTypes ==
    ASSUME PipelineTypeOK, NEW n \in DOMAIN served
    PROVE  served[n].token \in Tokens /\ served[n].at \in Nat
<1>1. served \in Seq(ServedCall) /\ Time \subseteq Nat
  BY TypeParts DEF Time
<1>2. served[n] \in ServedCall
  BY <1>1
<1> QED BY <1>1, <1>2 DEF ServedCall

-----------------------------------------------------------------------------
(* At most one entry a token, and how many entries there are room for.      *)
Distinct(s) == \A j, k \in DOMAIN s : s[j].token = s[k].token => j = k
Bound == IF MaxEntries = 0 THEN 1 ELSE MaxEntries

(* A sequence that holds entries of the cache, each at most once.           *)
Within(s) ==
    /\ s \in Seq(CacheEntry) /\ Len(s) <= Len(cache) /\ Distinct(s)
    /\ \A k \in DOMAIN s : \E n \in DOMAIN cache : s[k] = cache[n]

(* A sequence of different places of the cache is within.                   *)
LEMMA ShiftWithin ==
    ASSUME cache \in Seq(CacheEntry), Distinct(cache), NEW s \in Seq(CacheEntry), Len(s) <= Len(cache),
           NEW f \in [DOMAIN s -> DOMAIN cache], \A k \in DOMAIN s : s[k] = cache[f[k]],
           \A j, k \in DOMAIN s : f[j] = f[k] => j = k
    PROVE  Within(s)
<1>1. ASSUME NEW j \in DOMAIN s, NEW k \in DOMAIN s, s[j].token = s[k].token
      PROVE  j = k
  <2>1. f[j] \in DOMAIN cache /\ f[k] \in DOMAIN cache
    OBVIOUS
  <2>2. cache[f[j]].token = cache[f[k]].token
    BY <1>1
  <2> QED BY <2>1, <2>2 DEF Distinct
<1>2. \A k \in DOMAIN s : f[k] \in DOMAIN cache
  OBVIOUS
<1> QED BY <1>1, <1>2 DEF Within, Distinct

(* Taking an entry out of the cache.                                        *)
LEMMA EvictedWithin ==
    ASSUME cache \in Seq(CacheEntry), Distinct(cache), NEW n \in DOMAIN cache
    PROVE  Within(Evicted(n))
<1> DEFINE a == SubSeq(cache, 1, n - 1)
           b == SubSeq(cache, n + 1, Len(cache))
           s == a \o b
           f == [k \in 1 .. Len(cache) - 1 |-> IF k < n THEN k ELSE k + 1]
<1>1. n \in 1 .. Len(cache) /\ Len(cache) \in Nat /\ DOMAIN cache = 1 .. Len(cache)
  OBVIOUS
<1>2. /\ a \in Seq(CacheEntry) /\ Len(a) = n - 1 /\ \A k \in 1 .. n - 1 : a[k] = cache[k]
  BY <1>1
<1>3. /\ b \in Seq(CacheEntry) /\ Len(b) = Len(cache) - n
      /\ \A k \in 1 .. Len(cache) - n : b[k] = cache[k + n]
  BY <1>1
<1> HIDE DEF a, b
<1>4. /\ s \in Seq(CacheEntry) /\ Len(s) = Len(a) + Len(b)
      /\ \A k \in 1 .. Len(a) + Len(b) : s[k] = IF k <= Len(a) THEN a[k] ELSE b[k - Len(a)]
  BY <1>2, <1>3, ConcatProperties
<1> HIDE DEF s
<1>5. Len(s) = Len(cache) - 1 /\ DOMAIN s = 1 .. Len(cache) - 1
  BY <1>1, <1>2, <1>3, <1>4
<1>6. f \in [DOMAIN s -> DOMAIN cache] /\ \A j, k \in DOMAIN s : f[j] = f[k] => j = k
  BY <1>1, <1>5
<1>7. ASSUME NEW k \in DOMAIN s PROVE s[k] = cache[f[k]]
  <2>1. k \in 1 .. Len(a) + Len(b) /\ k \in 1 .. Len(cache) - 1
    BY <1>1, <1>2, <1>3, <1>5
  <2>2. CASE k < n
    <3>1. k <= Len(a) /\ k \in 1 .. n - 1
      BY <1>1, <1>2, <2>1, <2>2
    <3> QED BY <1>2, <1>4, <2>1, <2>2, <3>1
  <2>3. CASE ~(k < n)
    <3>1. ~(k <= Len(a)) /\ k - Len(a) \in 1 .. Len(cache) - n /\ (k - Len(a)) + n = k + 1
      BY <1>1, <1>2, <2>1, <2>3
    <3>2. s[k] = b[k - Len(a)] /\ b[k - Len(a)] = cache[k + 1]
      BY <1>3, <1>4, <2>1, <3>1
    <3> QED BY <2>1, <2>3, <3>2
  <2> QED BY <2>2, <2>3
<1> HIDE DEF f
<1>8. Len(s) <= Len(cache)
  BY <1>1, <1>5
<1>9. Within(s)
  BY <1>4, <1>6, <1>7, <1>8, ShiftWithin
<1> QED BY <1>9 DEF Evicted, s, a, b

(* Taking the oldest.                                                       *)
LEMMA TailWithin ==
    ASSUME cache \in Seq(CacheEntry), Distinct(cache), cache # <<>>
    PROVE  Within(Tail(cache)) /\ Len(Tail(cache)) = Len(cache) - 1
<1> DEFINE s == Tail(cache)
           f == [k \in DOMAIN s |-> k + 1]
<1>1. s \in Seq(CacheEntry) /\ Len(s) = Len(cache) - 1 /\ \A k \in 1 .. Len(s) : s[k] = cache[k + 1]
  OBVIOUS
<1> HIDE DEF s
<1>2. DOMAIN s = 1 .. Len(s) /\ DOMAIN cache = 1 .. Len(cache) /\ Len(cache) \in Nat /\ Len(s) \in Nat
  BY <1>1
<1>3. f \in [DOMAIN s -> DOMAIN cache] /\ \A j, k \in DOMAIN s : f[j] = f[k] => j = k
  BY <1>1, <1>2
<1>4. \A k \in DOMAIN s : s[k] = cache[f[k]]
  BY <1>1, <1>2
<1> HIDE DEF f
<1>5. Len(s) <= Len(cache)
  BY <1>1, <1>2
<1>6. Within(s)
  BY <1>1, <1>3, <1>4, <1>5, ShiftWithin
<1> QED BY <1>1, <1>6 DEF s

(* The cache itself is within.                                              *)
LEMMA SameWithin == ASSUME cache \in Seq(CacheEntry), Distinct(cache) PROVE Within(cache)
BY DEF Within

(* The cache without a token is within.                                     *)
LEMMA DroppedWithin == ASSUME cache \in Seq(CacheEntry), Distinct(cache), NEW t PROVE Within(Dropped(t))
<1>1. CASE At(t) = {}
  BY <1>1, SameWithin DEF Dropped
<1>2. CASE At(t) # {}
  <2> DEFINE n == CHOOSE m \in At(t) : TRUE
  <2>1. n \in DOMAIN cache
    BY <1>2 DEF At
  <2>2. Dropped(t) = Evicted(n)
    BY <1>2 DEF Dropped
  <2> HIDE DEF n
  <2> QED BY <2>1, <2>2, EvictedWithin
<1> QED BY <1>1, <1>2

(* The bound on the cache, by its two parts.                                *)
LEMMA BoundedParts == CacheBounded <=> Len(cache) <= Bound /\ Distinct(cache)
BY DEF CacheBounded, Bound, Distinct

(* The same of the next state.                                              *)
LEMMA BoundedPartsNext == CacheBounded' <=> Len(cache') <= Bound /\ Distinct(cache')
BY DEF CacheBounded, Bound, Distinct

(* remember() leaves what was there, or what was there with the new entry   *)
(* in place of any of its token.                                            *)
LEMMA RememberedIs ==
    ASSUME PipelineTypeOK, CacheBounded, NEW x \in CacheEntry
    PROVE  /\ Remembered(x) \in Seq(CacheEntry) /\ Len(Remembered(x)) <= Bound
           /\ \A k \in DOMAIN Remembered(x) :
                \/ Remembered(x)[k] = x
                \/ \E n \in DOMAIN cache : Remembered(x)[k] = cache[n]
           /\ Distinct(Remembered(x))
<1>0. cache \in Seq(CacheEntry) /\ Len(cache) \in Nat /\ Len(cache) <= Bound /\ Distinct(cache)
  BY TypeParts, BoundedParts
<1>1. CASE x.until <= clock
  BY <1>0, <1>1 DEF Remembered
<1>2. CASE ~(x.until <= clock)
  <2> DEFINE kept == MadeRoom(x.token)
             old == {n \in DOMAIN kept : kept[n].token = x.token}
  <2>0. MaxEntries \in Nat /\ (cache # <<>> => Len(cache) >= 1)
    BY <1>0, PipelineAssumption
  <2>1. Within(kept) /\ Len(kept) + 1 <= Bound
    <3>1. CASE Len(cache) >= MaxEntries /\ cache # <<>>
      <4>1. kept = Tail(cache)
        BY <3>1 DEF MadeRoom
      <4>2. Within(kept) /\ Len(kept) = Len(cache) - 1
        BY <1>0, <4>1, <3>1, TailWithin
      <4> HIDE DEF kept
      <4> QED BY <1>0, <2>0, <4>2 DEF Bound
    <3>2. CASE ~(Len(cache) >= MaxEntries /\ cache # <<>>)
      <4>1. kept = cache
        BY <3>2 DEF MadeRoom
      <4>2. Len(cache) + 1 <= Bound
        BY <1>0, <2>0, <3>2 DEF Bound
      <4> QED BY <1>0, <4>1, <4>2, SameWithin
    <3> QED BY <3>1, <3>2
  <2>2. \A j, k \in DOMAIN kept : kept[j].token = kept[k].token => j = k
    BY <2>1 DEF Within, Distinct
  <2>3. Remembered(x) = IF old = {} THEN Append(kept, x)
                            ELSE [n \in DOMAIN kept |-> IF n \in old THEN x ELSE kept[n]]
    BY <1>2 DEF Remembered
  <2>4. kept \in Seq(CacheEntry) /\ \A k \in DOMAIN kept : \E n \in DOMAIN cache : kept[k] = cache[n]
    BY <2>1 DEF Within
  <2> HIDE DEF kept
  <2>5. CASE old = {}
    <3>1. Remembered(x) = Append(kept, x)
      BY <2>3, <2>5
    <3>2. /\ Append(kept, x) \in Seq(CacheEntry) /\ Len(Append(kept, x)) = Len(kept) + 1
          /\ Append(kept, x)[Len(kept) + 1] = x
          /\ \A k \in 1 .. Len(kept) : Append(kept, x)[k] = kept[k]
          /\ DOMAIN Append(kept, x) = 1 .. Len(kept) + 1 /\ DOMAIN kept = 1 .. Len(kept)
          /\ Len(kept) \in Nat
      BY <2>4
    <3>3. \A k \in DOMAIN kept : kept[k].token # x.token
      BY <2>5
    <3>4. \A k \in 1 .. Len(kept) + 1 : k \in DOMAIN kept \/ k = Len(kept) + 1
      BY <3>2
    <3> DEFINE s == Append(kept, x)
    <3> HIDE DEF s
    <3>5. \A k \in DOMAIN s : s[k] = x \/ \E n \in DOMAIN cache : s[k] = cache[n]
      BY <2>4, <3>2, <3>4 DEF s
    <3>6. \A j, k \in DOMAIN s : s[j].token = s[k].token => j = k
      BY <2>2, <3>2, <3>3, <3>4 DEF s
    <3> QED BY <2>1, <3>1, <3>2, <3>5, <3>6 DEF s, Distinct
  <2>6. CASE old # {}
    <3> DEFINE s == [n \in DOMAIN kept |-> IF n \in old THEN x ELSE kept[n]]
    <3>1. Remembered(x) = s
      BY <2>3, <2>6
    <3>2. s \in Seq(CacheEntry) /\ Len(s) = Len(kept) /\ DOMAIN s = DOMAIN kept /\ Len(kept) \in Nat
      BY <2>4
    <3>3. \A k \in DOMAIN s : s[k].token = kept[k].token
      BY <3>2
    <3>4. \A k \in DOMAIN s : s[k] = x \/ s[k] = kept[k]
      BY <3>2
    <3> HIDE DEF s
    <3>5. Len(s) <= Bound
      BY <2>0, <2>1, <3>2 DEF Bound
    <3>6. Distinct(s)
      BY <2>2, <3>2, <3>3 DEF Distinct
    <3> QED BY <2>4, <3>1, <3>2, <3>4, <3>5, <3>6
  <2> QED BY <2>5, <2>6
<1> QED BY <1>1, <1>2

-----------------------------------------------------------------------------
(* A step that leaves clock and grants alone keeps the cache timely when    *)
(* what is new in it is.                                                    *)
LEMMA CacheStaysTimely ==
    ASSUME Timely, UNCHANGED <<clock, grant>>, NEW x, EntryTimely(x),
           \A k \in DOMAIN cache' : cache'[k] = x \/ \E n \in DOMAIN cache : cache'[k] = cache[n]
    PROVE  GrantTimely' /\ \A k \in DOMAIN cache' : EntryTimely(cache[k])'
<1>1. \A e : EntryTimely(e)' <=> EntryTimely(e)
  BY DEF EntryTimely
<1> QED BY DEF Timely, GrantTimely, EntryTimely

(* Entries that were in the cache stay timely.                              *)
LEMMA CacheWithinTimely ==
    ASSUME Timely, UNCHANGED <<clock, grant>>, Within(cache')
    PROVE  GrantTimely' /\ \A k \in DOMAIN cache' : EntryTimely(cache[k])'
BY DEF Timely, GrantTimely, EntryTimely, Within

(* The record of a request after a verdict, and the others.                 *)
LEMMA VerdictIs ==
    ASSUME PipelineTypeOK, NEW r \in Requests, NEW t \in Tokens, NEW ok \in BOOLEAN, Verdict(r, t, ok)
    PROVE  /\ req' \in [Requests -> Request]
           /\ req'[r].token = t /\ req'[r].at = clock
           /\ req'[r].phase = IF ok /\ grant[t].exp > clock THEN "admitted" ELSE "refused"
           /\ \A q \in Requests \ {r} : req'[q] = req[q]
BY TypeParts DEF Verdict, Request

(* A step of one request leaves the others timely.                          *)
LEMMA OthersStayTimely ==
    ASSUME Timely, RevocationBites, UNCHANGED <<clock, grant>>, NEW r \in Requests,
           \A q \in Requests \ {r} : req'[q] = req[q],
           RequestTimely(r)',
           req'[r].phase = "admitted" /\ grant[req'[r].token].revoked # Unset
               => req'[r].at <= grant[req'[r].token].revoked + CacheTtl + MaxLatency
    PROVE  (\A q \in Requests : RequestTimely(q)') /\ RevocationBites'
BY DEF Timely, RequestTimely, RevocationBites

(* Buckets and calls: when neither moves and the clock does not go back.    *)
LEMMA PaidStays ==
    ASSUME PipelineTypeOK, Paid, BurstBounded, UNCHANGED <<bucket, served>>,
           clock' \in Time, clock <= clock'
    PROVE  Paid' /\ BurstBounded'
<1>1. BurstBounded'
  BY DEF BurstBounded
<1>2. ASSUME NEW t \in Tokens, bucket[t] # Unset PROVE bucket[t].at <= clock'
  <2>1. bucket[t] \in BucketState /\ bucket[t].at <= clock
    BY <1>2, TypeParts DEF Paid
  <2>2. bucket[t].at \in Nat /\ clock \in Nat /\ clock' \in Nat
    BY <2>1, TypeParts DEF BucketState, Time
  <2> QED BY <2>1, <2>2
<1>3. \A t, b : PaidFor(t, b)' <=> PaidFor(t, b)
  BY DEF PaidFor, Calls
<1> QED BY <1>1, <1>2, <1>3 DEF Paid

(* Time passes.                                                             *)
LEMMA TickKeeps == ASSUME PipelineInv, Tick PROVE PipelineInv'
<1>0. clock \in Nat /\ clock' = clock + 1 /\ clock' \in Time /\ CacheTtl \in Nat /\ MaxLatency \in Nat /\ MaxClock \in Nat
  BY TypeParts, PipelineAssumption DEF PipelineInv, Tick, Time
<1>1. PipelineTypeOK'
  BY <1>0, TypeParts, TypePartsNext DEF PipelineInv, Tick
<1>2. Paid' /\ BurstBounded'
  BY <1>0, PaidStays DEF PipelineInv, Tick
<1>3. CacheBounded'
  BY BoundedParts, BoundedPartsNext DEF PipelineInv, Tick
<1>4. GrantTimely'
  <2>1. \A t \in Tokens : grant[t].revoked \in Nat \cup {Unset}
    BY TypeParts DEF PipelineInv, Time
  <2> QED BY <1>0, <2>1 DEF PipelineInv, Tick, Timely, GrantTimely
<1>5. ASSUME NEW n \in DOMAIN cache PROVE EntryTimely(cache[n])'
  <2>1. cache[n].until \in Nat
    BY CacheTypes DEF PipelineInv
  <2> QED BY <1>0, <2>1 DEF PipelineInv, Tick, Timely, EntryTimely
<1>6. ASSUME NEW r \in Requests PROVE RequestTimely(r)'
  <2>1. req[r].at \in Nat /\ req[r].phase # "admitted"
    BY TypeParts DEF PipelineInv, Request, Time, Tick
  <2>2. req[r].phase = "answered" => clock - req[r].at < MaxLatency
    BY DEF Tick
  <2>3. RequestTimely(r) /\ req' = req /\ grant' = grant
    BY DEF PipelineInv, Timely, Tick
  <2> QED BY <1>0, <2>1, <2>2, <2>3 DEF RequestTimely
<1>7. RevocationBites'
  BY DEF PipelineInv, Tick, RevocationBites
<1> QED BY <1>1, <1>2, <1>3, <1>4, <1>5, <1>6, <1>7 DEF PipelineInv, Timely, Tick

(* A token is revoked.                                                      *)
LEMMA RevokeKeeps == ASSUME PipelineInv, NEW t \in Tokens, Revoke(t) PROVE PipelineInv'
<1>0. clock \in Nat /\ clock' = clock /\ clock \in Time /\ CacheTtl \in Nat /\ MaxLatency \in Nat
  BY TypeParts, PipelineAssumption DEF PipelineInv, Revoke, Time
<1>g. /\ grant' \in [Tokens -> [exp : Nat, revoked : Time \cup {Unset}]]
      /\ grant'[t].revoked = clock /\ \A u \in Tokens \ {t} : grant'[u] = grant[u]
  BY <1>0, TypeParts DEF PipelineInv, Revoke
<1>1. PipelineTypeOK'
  BY <1>0, <1>g, TypeParts, TypePartsNext DEF PipelineInv, Revoke
<1>2. Paid' /\ BurstBounded'
  BY <1>0, PaidStays DEF PipelineInv, Revoke
<1>3. CacheBounded'
  BY BoundedParts, BoundedPartsNext DEF PipelineInv, Revoke
<1>4. GrantTimely'
  BY <1>0, <1>g DEF PipelineInv, Timely, GrantTimely
<1>5. ASSUME NEW n \in DOMAIN cache PROVE EntryTimely(cache[n])'
  <2>1. cache[n].until \in Nat /\ cache[n].token \in Tokens
    BY CacheTypes DEF PipelineInv
  <2>2. EntryTimely(cache[n]) /\ cache' = cache
    BY DEF PipelineInv, Timely, Revoke
  <2>3. CASE cache[n].token = t
    BY <1>0, <1>g, <2>1, <2>2, <2>3 DEF EntryTimely
  <2>4. CASE cache[n].token # t
    BY <1>0, <1>g, <2>1, <2>2, <2>4 DEF EntryTimely
  <2> QED BY <2>3, <2>4
<1>6. ASSUME NEW r \in Requests PROVE RequestTimely(r)'
  <2>1. RequestTimely(r) /\ req' = req
    BY DEF PipelineInv, Timely, Revoke
  <2>2. CASE req[r].token = t
    BY <1>0, <1>g, <2>1, <2>2 DEF RequestTimely
  <2>3. CASE req[r].token # t
    BY <1>0, <1>g, <2>1, <2>3 DEF RequestTimely
  <2> QED BY <2>2, <2>3
<1>7. RevocationBites'
  <2> SUFFICES ASSUME NEW r \in Requests, req[r].phase = "admitted", grant'[req[r].token].revoked # Unset
               PROVE  req[r].at <= grant'[req[r].token].revoked + CacheTtl + MaxLatency
    BY DEF RevocationBites, Revoke
  <2>1. req[r].at = clock /\ req[r].token \in Tokens
    BY DEF PipelineInv, Timely, RequestTimely
  <2>2. CASE req[r].token = t
    BY <1>0, <1>g, <2>1, <2>2
  <2>3. CASE req[r].token # t
    BY <1>0, <1>g, <2>1, <2>3 DEF PipelineInv, RevocationBites
  <2> QED BY <2>2, <2>3
<1> QED BY <1>1, <1>2, <1>3, <1>4, <1>5, <1>6, <1>7 DEF PipelineInv, Timely, Revoke

(* A request arrives: its token is cached, or is asked about.               *)
LEMMA ArriveKeeps ==
    ASSUME PipelineInv, NEW r \in Requests, NEW t \in Tokens, Arrive(r, t)
    PROVE  PipelineInv'
<1>0. /\ UNCHANGED <<clock, grant, bucket, served>>
      /\ PipelineTypeOK /\ Timely /\ RevocationBites /\ CacheBounded /\ Paid /\ BurstBounded
  BY DEF PipelineInv, Arrive
<1>n. clock \in Nat /\ CacheTtl \in Nat /\ MaxLatency \in Nat /\ clock \in Time
  BY <1>0, TypeParts, PipelineAssumption DEF Time
<1>p. Paid' /\ BurstBounded'
  BY <1>0, <1>n, PaidStays
<1>1. CASE \E n \in At(t) : StillFresh(cache[n])
  <2> DEFINE ok == \E n \in At(t) : cache[n].ok
  <2>1. Verdict(r, t, ok) /\ cache' = cache
    BY <1>1 DEF Arrive
  <2>2. ok \in BOOLEAN
    OBVIOUS
  <2>3. PICK n \in At(t) : StillFresh(cache[n])
    BY <1>1
  <2>4. n \in DOMAIN cache /\ cache[n].token = t /\ cache[n].until \in Nat
    BY <1>0, <2>3, CacheTypes DEF At
  <2>5. ok => cache[n].ok
    BY <1>0, <2>4 DEF At, CacheBounded
  <2>6. ok /\ grant[t].revoked # Unset => clock <= grant[t].revoked + CacheTtl + MaxLatency
    <3>1. EntryTimely(cache[n]) /\ cache[n].until > clock
      BY <1>0, <2>3, <2>4 DEF Timely, StillFresh
    <3>2. grant[t].revoked \in Nat \cup {Unset}
      BY <1>0, TypeParts DEF Time
    <3> HIDE DEF ok
    <3> QED BY <1>n, <2>4, <2>5, <3>1, <3>2 DEF EntryTimely
  <2> HIDE DEF ok
  <2>7. /\ req' \in [Requests -> Request]
        /\ req'[r].token = t /\ req'[r].at = clock
        /\ req'[r].phase = IF ok /\ grant[t].exp > clock THEN "admitted" ELSE "refused"
        /\ \A q \in Requests \ {r} : req'[q] = req[q]
    BY <1>0, <2>1, <2>2, VerdictIs
  <2>8. RequestTimely(r)'
    BY <1>0, <2>7 DEF RequestTimely
  <2>9. (\A q \in Requests : RequestTimely(q)') /\ RevocationBites'
    BY <1>0, <2>6, <2>7, <2>8, OthersStayTimely
  <2>10. CacheBounded' /\ GrantTimely' /\ \A k \in DOMAIN cache' : EntryTimely(cache[k])'
    BY <1>0, <2>1, TypeParts, BoundedParts, BoundedPartsNext, SameWithin, CacheWithinTimely
  <2>11. PipelineTypeOK'
    BY <1>0, <2>1, <2>7, TypeParts, TypePartsNext
  <2> QED BY <1>p, <2>9, <2>10, <2>11 DEF PipelineInv, Timely
<1>2. CASE ~\E n \in At(t) : StillFresh(cache[n])
  <2>1. req' = [req EXCEPT ![r].phase = "asking", ![r].token = t] /\ cache' = Dropped(t)
    BY <1>2 DEF Arrive
  <2>2. /\ req' \in [Requests -> Request] /\ req'[r].phase = "asking" /\ req'[r].token = t
        /\ \A q \in Requests \ {r} : req'[q] = req[q]
    BY <1>0, <2>1, TypeParts DEF Request
  <2>3. RequestTimely(r)'
    BY <2>2 DEF RequestTimely
  <2>4. (\A q \in Requests : RequestTimely(q)') /\ RevocationBites'
    BY <1>0, <2>2, <2>3, OthersStayTimely
  <2>5. cache \in Seq(CacheEntry) /\ Distinct(cache) /\ Len(cache) \in Nat /\ Len(cache) <= Bound
    BY <1>0, TypeParts, BoundedParts
  <2>6. Within(cache')
    BY <2>1, <2>5, DroppedWithin
  <2>7. CacheBounded' /\ cache' \in Seq(CacheEntry)
    <3>1. Len(cache') \in Nat /\ Bound \in Nat /\ Len(cache') <= Len(cache)
      BY <2>6, PipelineAssumption DEF Within, Bound
    <3> QED BY <2>5, <2>6, <3>1, BoundedPartsNext DEF Within
  <2>8. GrantTimely' /\ \A k \in DOMAIN cache' : EntryTimely(cache[k])'
    BY <1>0, <2>6, CacheWithinTimely
  <2>9. PipelineTypeOK'
    BY <1>0, <2>2, <2>7, TypeParts, TypePartsNext
  <2> QED BY <1>p, <2>4, <2>7, <2>8, <2>9 DEF PipelineInv, Timely
<1> QED BY <1>1, <1>2

(* The authorization server answers.                                        *)
LEMMA IntrospectKeeps ==
    ASSUME PipelineInv, NEW r \in Requests, Introspect(r)
    PROVE  PipelineInv'
<1>0. /\ UNCHANGED <<clock, grant, cache, bucket, served>>
      /\ PipelineTypeOK /\ Timely /\ RevocationBites /\ CacheBounded /\ Paid /\ BurstBounded
  BY DEF PipelineInv, Introspect
<1>n. clock \in Nat /\ CacheTtl \in Nat /\ MaxLatency \in Nat /\ clock \in Time
  BY <1>0, TypeParts, PipelineAssumption DEF Time
<1>p. Paid' /\ BurstBounded'
  BY <1>0, <1>n, PaidStays
<1>1. /\ req' \in [Requests -> Request]
      /\ req'[r].phase = "answered" /\ req'[r].token = req[r].token /\ req'[r].at = clock
      /\ req'[r].answer = Active(req[r].token)
      /\ \A q \in Requests \ {r} : req'[q] = req[q]
  BY <1>0, <1>n, TypeParts DEF Introspect, Request, Active
<1>2. req[r].token \in Tokens
  BY <1>0 DEF Timely, RequestTimely, Introspect
<1>3. RequestTimely(r)'
  <2>1. req'[r].answer => grant[req[r].token].revoked = Unset
    BY <1>1 DEF Active
  <2> QED BY <1>0, <1>n, <1>1, <1>2, <2>1 DEF RequestTimely
<1>4. (\A q \in Requests : RequestTimely(q)') /\ RevocationBites'
  BY <1>0, <1>1, <1>3, OthersStayTimely
<1>5. CacheBounded' /\ GrantTimely' /\ \A k \in DOMAIN cache' : EntryTimely(cache[k])'
  BY <1>0, TypeParts, BoundedParts, BoundedPartsNext, SameWithin, CacheWithinTimely
<1>6. PipelineTypeOK'
  BY <1>0, <1>1, TypeParts, TypePartsNext
<1> QED BY <1>p, <1>4, <1>5, <1>6 DEF PipelineInv, Timely

(* The authorization server does not answer.                                *)
LEMMA UnavailableKeeps ==
    ASSUME PipelineInv, NEW r \in Requests, Unavailable(r)
    PROVE  PipelineInv'
<1>0. /\ UNCHANGED <<clock, grant, cache, bucket, served>>
      /\ PipelineTypeOK /\ Timely /\ RevocationBites /\ CacheBounded /\ Paid /\ BurstBounded
  BY DEF PipelineInv, Unavailable
<1>n. clock \in Nat /\ clock \in Time
  BY <1>0, TypeParts, PipelineAssumption DEF Time
<1>p. Paid' /\ BurstBounded'
  BY <1>0, <1>n, PaidStays
<1>1. req[r].token \in Tokens /\ Verdict(r, req[r].token, FALSE)
  BY <1>0 DEF Timely, RequestTimely, Unavailable
<1>2. /\ req' \in [Requests -> Request] /\ req'[r].phase = "refused"
      /\ \A q \in Requests \ {r} : req'[q] = req[q]
  BY <1>0, <1>1, VerdictIs
<1>3. RequestTimely(r)'
  BY <1>2 DEF RequestTimely
<1>4. (\A q \in Requests : RequestTimely(q)') /\ RevocationBites'
  BY <1>0, <1>2, <1>3, OthersStayTimely
<1>5. CacheBounded' /\ GrantTimely' /\ \A k \in DOMAIN cache' : EntryTimely(cache[k])'
  BY <1>0, TypeParts, BoundedParts, BoundedPartsNext, SameWithin, CacheWithinTimely
<1>6. PipelineTypeOK'
  BY <1>0, <1>2, TypeParts, TypePartsNext
<1> QED BY <1>p, <1>4, <1>5, <1>6 DEF PipelineInv, Timely

(* An answer arrives, and is cached.                                        *)
LEMMA AnsweredKeeps ==
    ASSUME PipelineInv, NEW r \in Requests, Answered(r)
    PROVE  PipelineInv'
<1> DEFINE t == req[r].token
           yes == [token |-> t, ok |-> TRUE, until |-> Until(t)]
           no == [token |-> t, ok |-> FALSE, until |-> clock + NegativeTtl]
<1>0. /\ UNCHANGED <<clock, grant, bucket, served>>
      /\ PipelineTypeOK /\ Timely /\ RevocationBites /\ CacheBounded /\ Paid /\ BurstBounded
  BY DEF PipelineInv, Answered
<1>n. /\ clock \in Nat /\ CacheTtl \in Nat /\ NegativeTtl \in Nat /\ MaxLatency \in Nat
      /\ clock \in Time
  BY <1>0, TypeParts, PipelineAssumption DEF Time
<1>p. Paid' /\ BurstBounded'
  BY <1>0, <1>n, PaidStays
<1>1. /\ t \in Tokens /\ Verdict(r, t, req[r].answer) /\ req[r].answer \in BOOLEAN
      /\ req[r].at \in Nat /\ clock <= req[r].at + MaxLatency
      /\ req[r].answer /\ grant[t].revoked # Unset => req[r].at <= grant[t].revoked
  BY <1>0, TypeParts DEF Timely, RequestTimely, Answered, Request, Time
<1>2. grant[t].exp \in Nat /\ grant[t].revoked \in Nat \cup {Unset}
  BY <1>0, <1>1, TypeParts DEF Time
<1>3. req[r].answer /\ grant[t].revoked # Unset => clock <= grant[t].revoked + MaxLatency
  BY <1>n, <1>1, <1>2
<1>4. cache' = IF req[r].answer THEN IF CacheTtl = 0 THEN cache ELSE Remembered(yes)
               ELSE Remembered(no)
  BY DEF Answered
<1> HIDE DEF t
<1>5. Until(t) \in Nat /\ Until(t) <= clock + CacheTtl
  BY <1>n, <1>2 DEF Until, Least
<1>6. yes \in CacheEntry /\ no \in CacheEntry
  BY <1>n, <1>1, <1>5 DEF CacheEntry
<1>7. (req[r].answer => EntryTimely(yes)) /\ EntryTimely(no)
  BY <1>n, <1>2, <1>3, <1>5 DEF EntryTimely
<1> HIDE DEF yes, no
<1>8. CacheBounded' /\ cache' \in Seq(CacheEntry) /\ GrantTimely'
      /\ \A k \in DOMAIN cache' : EntryTimely(cache[k])'
  <2>1. CASE cache' = cache
    BY <1>0, <2>1, TypeParts, BoundedParts, BoundedPartsNext, SameWithin, CacheWithinTimely
  <2>2. ASSUME NEW x \in CacheEntry, EntryTimely(x), cache' = Remembered(x)
        PROVE  CacheBounded' /\ cache' \in Seq(CacheEntry) /\ GrantTimely'
               /\ \A k \in DOMAIN cache' : EntryTimely(cache[k])'
    <3>1. /\ cache' \in Seq(CacheEntry) /\ Len(cache') <= Bound /\ Distinct(cache')
          /\ \A k \in DOMAIN cache' : cache'[k] = x \/ \E n \in DOMAIN cache : cache'[k] = cache[n]
      BY <1>0, <2>2, RememberedIs
    <3> QED BY <1>0, <2>2, <3>1, BoundedPartsNext, CacheStaysTimely
  <2> QED BY <1>4, <1>6, <1>7, <2>1, <2>2
<1>9. /\ req' \in [Requests -> Request]
      /\ req'[r].token = t /\ req'[r].at = clock
      /\ req'[r].phase = IF req[r].answer /\ grant[t].exp > clock THEN "admitted" ELSE "refused"
      /\ \A q \in Requests \ {r} : req'[q] = req[q]
  BY <1>0, <1>1, VerdictIs
<1>10. RequestTimely(r)'
  BY <1>0, <1>1, <1>9 DEF RequestTimely
<1>11. req'[r].phase = "admitted" /\ grant[req'[r].token].revoked # Unset
           => req'[r].at <= grant[req'[r].token].revoked + CacheTtl + MaxLatency
  BY <1>n, <1>2, <1>3, <1>9
<1>12. (\A q \in Requests : RequestTimely(q)') /\ RevocationBites'
  BY <1>0, <1>9, <1>10, <1>11, OthersStayTimely
<1>13. PipelineTypeOK'
  BY <1>0, <1>8, <1>9, TypeParts, TypePartsNext
<1> QED BY <1>p, <1>8, <1>12, <1>13 DEF PipelineInv, Timely

-----------------------------------------------------------------------------
(* The calls of a range are finite.                                         *)
LEMMA CallsFinite ==
    ASSUME NEW i \in Nat, NEW j \in Nat, NEW t
    PROVE  IsFiniteSet(Calls(i, j, t)) /\ Cardinality(Calls(i, j, t)) \in Nat
<1>1. IsFiniteSet(i .. j)
  BY FS_Interval
<1>2. Calls(i, j, t) \subseteq i .. j
  BY DEF Calls
<1> QED BY <1>1, <1>2, FS_Subset, FS_CardinalityType

(* One more call of the same share.                                         *)
LEMMA OneMore == ASSUME NEW c \in Nat, NEW s \in Nat PROVE (c + 1) * s = c * s + s /\ c * s \in Nat
OBVIOUS

(* The bucket a call finds is the bucket as it was, refilled.               *)
LEMMA RefilledIsPaid ==
    ASSUME PipelineTypeOK, Paid, NEW t \in Tokens
    PROVE  Bucket(t) \in BucketState /\ Bucket(t).at = clock /\ PaidFor(t, Bucket(t))
<1>n. clock \in Nat /\ clock \in Time /\ Capacity \in Nat /\ Share \in Nat
  BY TypeParts, PipelineAssumption DEF Time
<1>1. CASE bucket[t] = Unset
  <2>1. Bucket(t) = [shares |-> Capacity, at |-> clock]
    BY <1>1 DEF Bucket
  <2>2. Bucket(t) \in BucketState /\ Bucket(t).at = clock
    BY <1>n, <2>1 DEF BucketState
  <2> QED BY <1>1, <2>2 DEF Paid, PaidFor
<1>2. CASE bucket[t] # Unset
  <2> DEFINE b == bucket[t]
  <2>1. /\ b \in BucketState /\ b.at <= clock /\ PaidFor(t, b)
        /\ b.at \in Nat /\ b.shares \in Nat
    BY <1>2, TypeParts DEF Paid, BucketState, Time
  <2>2. Bucket(t) = [shares |-> Least(Capacity, b.shares + (clock - b.at)), at |-> clock]
    BY <1>2 DEF Bucket, Refilled
  <2> HIDE DEF b
  <2>3. /\ Bucket(t).at = clock /\ Bucket(t).shares \in Nat /\ Bucket(t).shares <= Capacity
        /\ Bucket(t).shares <= b.shares + (clock - b.at)
    BY <1>n, <2>1, <2>2 DEF Least
  <2>4. Bucket(t) \in BucketState
    BY <1>n, <2>2, <2>3 DEF BucketState
  <2>5. ASSUME NEW i \in DOMAIN served, served[i].token = t
        PROVE  /\ served[i].at <= clock
               /\ Cardinality(Calls(i, Len(served), t)) * Share + Bucket(t).shares
                    <= Capacity + (clock - served[i].at)
    <3> DEFINE cost == Cardinality(Calls(i, Len(served), t)) * Share
    <3>1. served[i].at \in Nat /\ i \in Nat /\ Len(served) \in Nat
      BY ServedTypes, TypeParts
    <3>2. cost \in Nat
      BY <1>n, <3>1, CallsFinite, OneMore
    <3>3. served[i].at <= b.at /\ cost + b.shares <= Capacity + (b.at - served[i].at)
      BY <2>1, <2>5 DEF PaidFor
    <3> HIDE DEF cost
    <3>4. served[i].at <= clock /\ cost + Bucket(t).shares <= Capacity + (clock - served[i].at)
      <4>1. PICK s : s = b.shares
        OBVIOUS
      <4>2. PICK s2 : s2 = Bucket(t).shares
        OBVIOUS
      <4>3. PICK x : x = b.at
        OBVIOUS
      <4>4. PICK a : a = served[i].at
        OBVIOUS
      <4>5. /\ s \in Nat /\ s2 \in Nat /\ x \in Nat /\ a \in Nat
            /\ a <= x /\ x <= clock /\ cost + s <= Capacity + (x - a) /\ s2 <= s + (clock - x)
        BY <2>1, <2>3, <3>1, <3>3, <4>1, <4>2, <4>3, <4>4
      <4>6. a <= clock /\ cost + s2 <= Capacity + (clock - a)
        BY <1>n, <3>2, <4>5
      <4> QED BY <4>6, <4>2, <4>4
    <3> QED BY <3>4 DEF cost
  <2> QED BY <2>3, <2>4, <2>5 DEF PaidFor
<1> QED BY <1>1, <1>2

(* A call that is let through costs its share of the bucket.                *)
LEMMA CallIsPaid ==
    ASSUME PipelineTypeOK, NEW t \in Tokens, NEW b \in BucketState, PaidFor(t, b), b.at = clock,
           b.shares >= Share, served' = Append(served, [token |-> t, at |-> clock]),
           NEW c, c = [b EXCEPT !.shares = @ - Share]
    PROVE  c \in BucketState /\ c.at = clock /\ PaidFor(t, c)'
<1>n. /\ clock \in Nat /\ clock \in Time /\ Capacity \in Nat /\ Share \in Nat
      /\ Len(served) \in Nat /\ served \in Seq(ServedCall) /\ DOMAIN served = 1 .. Len(served)
  BY TypeParts, PipelineAssumption DEF Time
<1>1. /\ b.shares \in Nat /\ b.shares <= Capacity
      /\ c = [shares |-> b.shares - Share, at |-> b.at]
  BY <1>n DEF BucketState
<1>2. c \in BucketState /\ c.at = clock /\ c.shares = b.shares - Share /\ c.shares \in Nat
  BY <1>n, <1>1 DEF BucketState
<1>3. /\ Len(served') = Len(served) + 1 /\ DOMAIN served' = 1 .. Len(served) + 1
      /\ \A k \in 1 .. Len(served) : served'[k] = served[k]
      /\ served'[Len(served) + 1] = [token |-> t, at |-> clock]
  BY <1>n
<1>4. ASSUME NEW i \in 1 .. Len(served), served[i].token = t
      PROVE  /\ served[i].at <= clock
             /\ Cardinality(Calls(i, Len(served), t)') * Share + c.shares
                  <= Capacity + (clock - served[i].at)
  <2> DEFINE old == Calls(i, Len(served), t)
             new == Calls(i, Len(served), t)'
  <2>1. new = old \cup {Len(served) + 1} /\ Len(served) + 1 \notin old
    BY <1>n, <1>3 DEF Calls
  <2>2. IsFiniteSet(old) /\ Cardinality(old) \in Nat
    BY <1>n, CallsFinite
  <2>3. Cardinality(new) = Cardinality(old) + 1
    BY <2>1, <2>2, FS_AddElement
  <2>4. /\ Cardinality(new) * Share = Cardinality(old) * Share + Share
        /\ Cardinality(old) * Share \in Nat
    BY <1>n, <2>2, <2>3, OneMore
  <2>5. /\ served[i].at <= clock /\ served[i].at \in Nat
        /\ Cardinality(old) * Share + b.shares <= Capacity + (clock - served[i].at)
    BY <1>n, <1>4, ServedTypes DEF PaidFor
  <2> DEFINE cost == Cardinality(old) * Share
  <2>6. cost + Share + (b.shares - Share) <= Capacity + (clock - served[i].at)
    <3> HIDE DEF cost, old, new
    <3>1. cost \in Nat /\ cost + b.shares <= Capacity + (clock - served[i].at)
      BY <2>4, <2>5 DEF cost
    <3> QED BY <1>n, <1>1, <2>5, <3>1
  <2> QED BY <1>2, <2>4, <2>5, <2>6
<1>5. /\ {k \in Len(served) + 1 .. Len(served') : served'[k].token = t} = {Len(served) + 1}
      /\ Cardinality({Len(served) + 1}) * Share = Share
  <2>1. {k \in Len(served) + 1 .. Len(served') : served'[k].token = t} = {Len(served) + 1}
    BY <1>n, <1>3 DEF Calls
  <2>2. Cardinality({Len(served) + 1}) = 1
    BY FS_Singleton
  <2> QED BY <1>n, <2>1, <2>2
<1>6. ASSUME NEW i \in DOMAIN served', served'[i].token = t
      PROVE  /\ served'[i].at <= c.at
             /\ Cardinality(Calls(i, Len(served), t)') * Share + c.shares
                  <= Capacity + (c.at - served'[i].at)
  <2>1. CASE i \in 1 .. Len(served)
    <3>1. served'[i] = served[i]
      BY <1>3, <2>1
    <3> QED BY <1>2, <1>3, <1>4, <1>6, <2>1, <3>1
  <2>2. CASE i \notin 1 .. Len(served)
    <3>1. i = Len(served) + 1
      BY <1>n, <1>3, <2>2
    <3>2. served'[i].at = clock
      BY <1>3, <3>1
    <3>3. Calls(i, Len(served), t)' = {k \in Len(served) + 1 .. Len(served') : served'[k].token = t}
      BY <3>1 DEF Calls
    <3>4. Cardinality(Calls(i, Len(served), t)') * Share = Share
      BY <1>3, <1>5, <3>3
    <3>5. Share + c.shares <= Capacity /\ c.at - served'[i].at = 0
      BY <1>n, <1>1, <1>2, <3>2
    <3> QED BY <1>n, <1>2, <3>2, <3>4, <3>5
  <2> QED BY <2>1, <2>2
<1>7. PaidFor(t, c)'
  BY <1>6 DEF PaidFor
<1> QED BY <1>2, <1>7

(* The call is made, when its bucket has a share left.                      *)
LEMMA InvokeKeeps ==
    ASSUME PipelineInv, NEW r \in Requests, Invoke(r)
    PROVE  PipelineInv'
<1>a. PICK t : t = req[r].token
  OBVIOUS
<1>b. PICK b : b = Bucket(t)
  OBVIOUS
<1>c. PICK c : c = [b EXCEPT !.shares = @ - Share]
  OBVIOUS
<1>d. PICK taken : taken = [token |-> t, at |-> clock]
  OBVIOUS
<1> DEFINE through == b.shares >= Share
<1>0. /\ UNCHANGED <<clock, grant, cache>>
      /\ PipelineTypeOK /\ Timely /\ RevocationBites /\ CacheBounded /\ Paid /\ BurstBounded
  BY DEF PipelineInv, Invoke
<1>n. clock \in Nat /\ clock \in Time /\ Capacity \in Nat /\ Share \in Nat /\ Len(served) \in Nat
      /\ served \in Seq(ServedCall) /\ DOMAIN served = 1 .. Len(served)
  BY <1>0, TypeParts, PipelineAssumption DEF Time
<1>t. t \in Tokens
  BY <1>0, <1>a DEF Timely, RequestTimely, Invoke
<1>1. /\ bucket' = [bucket EXCEPT ![t] = IF through THEN c ELSE b]
      /\ served' = IF through THEN Append(served, taken) ELSE served
      /\ req' = [req EXCEPT ![r].phase = IF through THEN "served" ELSE "limited"]
  BY <1>a, <1>b, <1>c, <1>d DEF Invoke
<1>2. b \in BucketState /\ b.at = clock /\ PaidFor(t, b)
  BY <1>0, <1>b, <1>t, RefilledIsPaid
<1>3. /\ req' \in [Requests -> Request] /\ req'[r].phase \in {"served", "limited"}
      /\ \A q \in Requests \ {r} : req'[q] = req[q]
  BY <1>0, <1>1, TypeParts DEF Request
<1>4. RequestTimely(r)'
  BY <1>3 DEF RequestTimely
<1>5. (\A q \in Requests : RequestTimely(q)') /\ RevocationBites'
  BY <1>0, <1>3, <1>4, OthersStayTimely
<1>6. CacheBounded' /\ GrantTimely' /\ \A k \in DOMAIN cache' : EntryTimely(cache[k])'
  BY <1>0, TypeParts, BoundedParts, BoundedPartsNext, SameWithin, CacheWithinTimely
<1>7. bucket \in [Tokens -> {Unset} \cup BucketState] /\ \A d \in BucketState : d # Unset
  BY <1>0, TypeParts, PipelineAssumption DEF BucketState, Time
<1>8. /\ bucket' \in [Tokens -> {Unset} \cup BucketState] /\ served' \in Seq(ServedCall)
      /\ Paid' /\ BurstBounded'
  <2>1. CASE through
    <3>1. served' = Append(served, taken) /\ bucket' = [bucket EXCEPT ![t] = c]
      BY <1>1, <2>1
    <3>2. c \in BucketState /\ c.at = clock /\ PaidFor(t, c)'
      BY <1>0, <1>c, <1>d, <1>t, <1>2, <2>1, <3>1, CallIsPaid
    <3>3. /\ bucket' \in [Tokens -> {Unset} \cup BucketState] /\ bucket'[t] = c
          /\ \A u \in Tokens \ {t} : bucket'[u] = bucket[u]
      BY <1>t, <1>7, <3>1, <3>2
    <3>4. /\ taken \in ServedCall /\ served' \in Seq(ServedCall)
          /\ Len(served') = Len(served) + 1 /\ DOMAIN served' = 1 .. Len(served) + 1
          /\ \A k \in 1 .. Len(served) : served'[k] = served[k]
          /\ served'[Len(served) + 1] = taken
      BY <1>d, <1>n, <1>t, <3>1 DEF ServedCall
    <3>5. ASSUME NEW u \in Tokens \ {t}
          PROVE  IF bucket'[u] = Unset THEN \A i \in DOMAIN served' : served'[i].token # u
                 ELSE bucket'[u].at <= clock' /\ PaidFor(u, bucket[u])'
      <4>1. /\ served'[Len(served) + 1].token # u
            /\ \A i \in DOMAIN served' : served'[i].token = u => i \in DOMAIN served
        BY <1>d, <1>n, <3>4
      <4>2. \A i \in DOMAIN served : Calls(i, Len(served), u)' = Calls(i, Len(served), u)
        BY <1>n, <3>4, <4>1 DEF Calls
      <4>3. bucket'[u] = bucket[u]
        BY <3>3
      <4>4. CASE bucket[u] = Unset
        BY <1>0, <1>n, <3>4, <4>1, <4>3, <4>4 DEF Paid
      <4>5. CASE bucket[u] # Unset
        <5>1. bucket[u].at <= clock /\ PaidFor(u, bucket[u])
          BY <1>0, <4>5 DEF Paid
        <5>2. \A i \in DOMAIN served : served'[i] = served[i]
          BY <1>n, <3>4
        <5> QED BY <1>0, <4>1, <4>2, <4>3, <4>5, <5>1, <5>2 DEF PaidFor
      <4> QED BY <4>4, <4>5
    <3>6. bucket'[t] # Unset /\ bucket'[t].at <= clock' /\ PaidFor(t, bucket[t])'
      BY <1>0, <1>n, <1>7, <3>2, <3>3 DEF PaidFor
    <3>7. Paid'
      BY <3>5, <3>6 DEF Paid
    <3>9. \A i \in DOMAIN served' : served'[i].at \in Nat
      <4>1. \A i \in DOMAIN served : served[i].at \in Nat
        BY <1>0, ServedTypes
      <4> QED BY <1>d, <1>n, <3>4, <4>1
    <3>8. BurstBounded'
      <4> SUFFICES ASSUME NEW i \in DOMAIN served', NEW j \in DOMAIN served',
                          i <= j, served'[i].token = served'[j].token
                   PROVE  Cardinality({k \in i .. j : served'[k].token = served'[i].token}) * Share
                              <= Capacity + (served'[j].at - served'[i].at)
        BY DEF BurstBounded
      <4>1. CASE j \in 1 .. Len(served)
        <5>1. i \in 1 .. Len(served) /\ \A k \in i .. j : served'[k] = served[k]
          BY <1>n, <3>4, <4>1
        <5>2. {k \in i .. j : served'[k].token = served'[i].token}
              = {k \in i .. j : served[k].token = served[i].token}
          BY <3>4, <5>1
        <5>3. served'[i] = served[i] /\ served'[j] = served[j]
          BY <3>4, <4>1, <5>1
        <5> QED BY <1>0, <1>n, <4>1, <5>1, <5>2, <5>3 DEF BurstBounded
      <4>2. CASE j \notin 1 .. Len(served)
        <5>1. j = Len(served) + 1 /\ served'[j].at = clock /\ served'[i].token = t
          BY <1>d, <1>n, <3>4, <4>2
        <5>2. {k \in i .. j : served'[k].token = served'[i].token} = Calls(i, Len(served), t)'
          BY <3>4, <5>1 DEF Calls
        <5> DEFINE cost == Cardinality(Calls(i, Len(served), t)') * Share
        <5>3. cost + c.shares <= Capacity + (clock - served'[i].at)
          BY <3>2, <5>1 DEF PaidFor
        <5>4. cost \in Nat /\ c.shares \in Nat /\ served'[i].at \in Nat
          <6>1. i \in Nat /\ Len(served') \in Nat /\ served'[i].at \in Nat
            BY <3>4, <3>9, ServedTypes
          <6>2. IsFiniteSet(i .. Len(served')) /\ Calls(i, Len(served), t)' \subseteq i .. Len(served')
            BY <6>1, FS_Interval DEF Calls
          <6>3. Cardinality(Calls(i, Len(served), t)') \in Nat
            BY <6>2, FS_Subset, FS_CardinalityType
          <6> QED BY <1>n, <3>2, <6>1, <6>3, OneMore DEF BucketState
        <5> HIDE DEF cost
        <5>5. cost <= Capacity + (clock - served'[i].at)
          BY <1>n, <5>3, <5>4
        <5> QED BY <5>1, <5>2, <5>5 DEF cost
      <4> QED BY <4>1, <4>2
    <3> QED BY <3>3, <3>4, <3>7, <3>8
  <2>2. CASE ~through
    <3>1. served' = served /\ bucket' = [bucket EXCEPT ![t] = b]
      BY <1>1, <2>2
    <3>2. /\ bucket' \in [Tokens -> {Unset} \cup BucketState] /\ bucket'[t] = b
          /\ \A u \in Tokens \ {t} : bucket'[u] = bucket[u]
      BY <1>2, <1>t, <1>7, <3>1
    <3>4. ASSUME NEW u \in Tokens
          PROVE  IF bucket'[u] = Unset THEN \A i \in DOMAIN served' : served'[i].token # u
                 ELSE bucket'[u].at <= clock' /\ PaidFor(u, bucket[u])'
      <4>1. CASE u = t
        <5>1. bucket'[u] = b /\ b # Unset /\ b.at <= clock'
          BY <1>0, <1>n, <1>2, <1>7, <3>2, <4>1
        <5>2. PaidFor(u, b)
          BY <1>2, <4>1
        <5>3. PaidFor(u, bucket[u])'
          BY <3>1, <5>1, <5>2 DEF PaidFor, Calls
        <5> QED BY <5>1, <5>3
      <4>2. CASE u # t
        BY <1>0, <3>1, <3>2, <4>2 DEF Paid, PaidFor, Calls
      <4> QED BY <4>1, <4>2
    <3>5. Paid'
      BY <3>4 DEF Paid
    <3>6. BurstBounded'
      BY <1>0, <3>1 DEF BurstBounded
    <3> QED BY <1>n, <3>1, <3>2, <3>5, <3>6
  <2> QED BY <2>1, <2>2
<1>9. PipelineTypeOK'
  BY <1>0, <1>3, <1>8, TypeParts, TypePartsNext
<1> QED BY <1>5, <1>6, <1>8, <1>9 DEF PipelineInv, Timely

-----------------------------------------------------------------------------
(* It holds before the first request.                                       *)
LEMMA PipelineBegins == PipelineInit => PipelineInv
<1> SUFFICES ASSUME PipelineInit PROVE PipelineInv
  OBVIOUS
<1>0. MaxClock \in Nat /\ Expiries \subseteq Nat /\ MaxEntries \in Nat
  BY PipelineAssumption
<1>1. clock \in Time /\ cache \in Seq(CacheEntry) /\ served \in Seq(ServedCall) /\ Len(cache) = 0
      /\ DOMAIN cache = {} /\ DOMAIN served = {}
  BY <1>0 DEF PipelineInit, Time
<1>2. grant \in [Tokens -> [exp : Nat, revoked : Time \cup {Unset}]] /\ \A t \in Tokens : grant[t].revoked = Unset
  BY <1>0 DEF PipelineInit
<1>3. req \in [Requests -> Request] /\ \A r \in Requests : req[r].phase = "idle"
  BY <1>0 DEF PipelineInit, Request, Time
<1>4. bucket \in [Tokens -> {Unset} \cup BucketState]
  BY DEF PipelineInit
<1>5. PipelineTypeOK
  BY <1>1, <1>2, <1>3, <1>4, TypeParts
<1>6. CacheBounded /\ Timely /\ RevocationBites
  BY <1>0, <1>1, <1>2, <1>3 DEF CacheBounded, Timely, GrantTimely, RequestTimely, RevocationBites
<1>7. Paid /\ BurstBounded
  BY <1>1 DEF Paid, PipelineInit, BurstBounded
<1> QED BY <1>5, <1>6, <1>7 DEF PipelineInv

(* Each step keeps the whole invariant.                                     *)
LEMMA PipelineStep == PipelineInv /\ [PipelineNext]_pipelineVars => PipelineInv'
<1> SUFFICES ASSUME PipelineInv, [PipelineNext]_pipelineVars PROVE PipelineInv'
  OBVIOUS
<1>1. CASE Tick
  BY <1>1, TickKeeps
<1>2. ASSUME NEW t \in Tokens, Revoke(t) PROVE PipelineInv'
  BY <1>2, RevokeKeeps
<1>3. ASSUME NEW r \in Requests, NEW t \in Tokens, Arrive(r, t) PROVE PipelineInv'
  BY <1>3, ArriveKeeps
<1>4. ASSUME NEW r \in Requests, Introspect(r) PROVE PipelineInv'
  BY <1>4, IntrospectKeeps
<1>5. ASSUME NEW r \in Requests, Answered(r) PROVE PipelineInv'
  BY <1>5, AnsweredKeeps
<1>6. ASSUME NEW r \in Requests, Unavailable(r) PROVE PipelineInv'
  BY <1>6, UnavailableKeeps
<1>7. ASSUME NEW r \in Requests, Invoke(r) PROVE PipelineInv'
  BY <1>7, InvokeKeeps
<1>8. CASE UNCHANGED pipelineVars
  <2>1. PipelineTypeOK'
    BY <1>8 DEF pipelineVars, PipelineInv, PipelineTypeOK
  <2>2. CacheBounded' /\ RevocationBites' /\ BurstBounded'
    BY <1>8 DEF pipelineVars, PipelineInv, CacheBounded, RevocationBites, BurstBounded, Time
  <2>3. Timely'
    BY <1>8 DEF pipelineVars, PipelineInv, Timely, GrantTimely, EntryTimely, RequestTimely
  <2>4. Paid'
    BY <1>8 DEF pipelineVars, PipelineInv, Paid, PaidFor, Calls
  <2> QED BY <2>1, <2>2, <2>3, <2>4 DEF PipelineInv
<1> QED BY <1>1, <1>2, <1>3, <1>4, <1>5, <1>6, <1>7, <1>8 DEF PipelineNext

(* A revoked token is honoured no longer than the cache and the latency of  *)
(* an answer explain, the cache keeps to its limit with one entry a token,  *)
(* and no principal gets more than capacity and refill                      *)
(* (introspectionVerifier in src/auth/verifiers.ts, rateLimit in            *)
(* src/authoring/middleware.ts).                                            *)
THEOREM AdmissionAlwaysBounded == PipelineSpec => []AdmissionBounded
<1>1. PipelineInv => AdmissionBounded
  BY DEF PipelineInv, AdmissionBounded
<1> QED BY <1>1, PipelineBegins, PipelineStep, PTL DEF PipelineSpec

-----------------------------------------------------------------------------
(* A materialization: what is open, what the hooks hold and what was done   *)
(* about it, at each of its awaits.                                         *)
Runtime ==
    [phase : {"idle", "admitting", "parent setup", "child setup", "undoing", "discarding",
              "ready", "closing", "child cleanup", "parent cleanup", "closed", "failed"},
     server : {"none", "open", "closed"}, held : SUBSET Hooks, did : Seq(Steps),
     thrown : SUBSET Faults, error : SUBSET Faults]

(* Nothing is held, or only the parent, undone.                             *)
Undone(r) == (r.held = {} /\ r.did = <<>>) \/ (r.held = {"parent"} /\ r.did = <<"parent">>)

(* What it has failed with, and what of that it has to reject with.         *)
LostBehind(thrown) == IF "parent cleanup" \in thrown THEN {"child", "child cleanup"} ELSE {}
Accounted(r) ==
    /\ r.phase \in {"idle", "admitting", "parent setup", "child setup", "ready", "closing"}
          => r.thrown = {} /\ r.error = {}
    /\ r.phase = "undoing" => r.thrown = {"child"} /\ r.error = {"child"}
    /\ r.phase = "child cleanup" => r.thrown \subseteq {"close"} /\ r.error = r.thrown
    /\ r.phase = "parent cleanup" => r.thrown \subseteq {"close", "child cleanup"} /\ r.error = r.thrown
    /\ r.phase \in {"discarding", "failed", "closed"} => r.error = r.thrown \ LostBehind(r.thrown)
InOrder(r) ==
    /\ Accounted(r)
    /\ r.phase \in {"idle", "admitting", "parent setup"} => r.held = {} /\ r.did = <<>>
    /\ r.phase \in {"idle", "admitting"} => r.server = "none"
    /\ r.phase \in {"child setup", "undoing"} => r.held = {"parent"} /\ r.did = <<>>
    /\ r.phase \in {"discarding", "failed"} => Undone(r)
    /\ r.phase = "failed" => r.server # "open"
    /\ r.phase \in {"ready", "closing"} => r.held = Hooks /\ r.did = <<>>
    /\ r.phase = "child cleanup" => r.did = <<"server">>
    /\ r.phase = "parent cleanup" => r.did = <<"server", "child">>
    /\ r.phase = "closed" => r.did = <<"server", "child", "parent">>
RuntimesInOrder == \A i \in Materializations : InOrder(runtime[i])

(* The entry: whether its lifespan is stopped, what it has to reject with,  *)
(* and who has been answered.                                               *)
EntryOrder ==
    /\ entry.phase \in {"down", "starting"} => entry.thrown = {}
    /\ "start" \in entry.thrown => entry.phase = "failed" /\ entry.stops = 0
    /\ entry.phase \notin {"closed", "failed"} => entry.stops = 0
    /\ entry.phase = "closed" => entry.stops = 1
    /\ entry.phase = "failed" /\ "start" \notin entry.thrown => entry.stops = 1
    /\ entry.phase \in {"closed", "failed"} => entry.reported = entry.thrown
    /\ entry.phase \in {"down", "starting", "failing", "closing mcp", "stopping", "closed", "failed"}
          => ~entry.listening
    /\ \A c \in Closers : closers[c] = "answered" => entry.phase = "closed"

(* All of it.                                                               *)
RuntimeInv == RuntimeTypeOK /\ RuntimesInOrder /\ EntryOrder

(* The states of the entry.                                                 *)
EntryState ==
    [phase : {"down", "starting", "failing", "up", "closing", "closing mcp",
              "stopping", "closed", "failed"},
     thrown : SUBSET Failures, reported : SUBSET Failures, stops : 0 .. 1,
     listening : BOOLEAN, mcp : {"none", "open", "closed"}]

(* The type invariant by the sets named above.                              *)
LEMMA RuntimeTypes ==
    RuntimeTypeOK <=> /\ entry \in EntryState /\ runtime \in [Materializations -> Runtime]
                      /\ closers \in [Closers -> {"idle", "waiting", "answered"}]
BY DEF RuntimeTypeOK, EntryState, Runtime

(* The same of the next state.                                              *)
LEMMA RuntimeTypesNext ==
    RuntimeTypeOK' <=> /\ entry' \in EntryState /\ runtime' \in [Materializations -> Runtime]
                       /\ closers' \in [Closers -> {"idle", "waiting", "answered"}]
BY DEF RuntimeTypeOK, EntryState, Runtime

(* It holds before anything is materialized.                                *)
LEMMA RuntimeBegins == RuntimeInit => RuntimeInv
<1> SUFFICES ASSUME RuntimeInit PROVE RuntimeInv
  OBVIOUS
<1>1. entry \in EntryState
  BY DEF RuntimeInit, EntryState
<1>2. runtime \in [Materializations -> Runtime]
  BY DEF RuntimeInit, Runtime
<1>3. closers \in [Closers -> {"idle", "waiting", "answered"}]
  BY DEF RuntimeInit
<1>4. RuntimesInOrder
  BY DEF RuntimeInit, RuntimesInOrder, InOrder, Accounted
<1>5. EntryOrder
  BY DEF RuntimeInit, EntryOrder
<1> QED BY <1>1, <1>2, <1>3, <1>4, <1>5, RuntimeTypes DEF RuntimeInv

(* A step of one materialization keeps the invariant when its record stays  *)
(* in order.                                                                *)
LEMMA SetsKeeps ==
    ASSUME RuntimeInv, NEW i \in Materializations, NEW r \in Runtime, InOrder(r), Sets(i, r)
    PROVE  RuntimeInv'
<1>1. /\ runtime' = [runtime EXCEPT ![i] = r] /\ UNCHANGED <<entry, closers>>
      /\ runtime \in [Materializations -> Runtime]
  BY RuntimeTypes DEF RuntimeInv, Sets
<1>2. runtime' \in [Materializations -> Runtime]
  BY <1>1
<1>3. \A j \in Materializations : InOrder(runtime'[j])
  BY <1>1 DEF RuntimeInv, RuntimesInOrder
<1>4. EntryOrder'
  BY <1>1 DEF RuntimeInv, EntryOrder
<1>5. RuntimeTypeOK'
  BY <1>1, <1>2, RuntimeTypes, RuntimeTypesNext DEF RuntimeInv
<1>6. RuntimesInOrder'
  BY <1>3 DEF RuntimesInOrder
<1> QED BY <1>4, <1>5, <1>6 DEF RuntimeInv

(* A failure that joins what was thrown before, or takes the place of what  *)
(* is lost with it, changes nothing else.                                   *)
Joins(r, q, what, lost) ==
    /\ r \in Runtime /\ r.phase = q.phase /\ r.server = q.server /\ r.held = q.held /\ r.did = q.did
    /\ r.thrown = q.thrown \cup {what} /\ r.error = (q.error \ lost) \cup {what}
LEMMA FailsForIs ==
    ASSUME NEW q \in Runtime, NEW what \in Faults, NEW lost
    PROVE  Joins(FailsFor(q, what, lost), q, what, lost)
<1> DEFINE thrown == q.thrown \cup {what}
           error == (q.error \ lost) \cup {what}
           r == FailsFor(q, what, lost)
<1>1. r = [q EXCEPT !.thrown = thrown, !.error = error]
  BY DEF FailsFor, Runtime
<1>2. q.thrown \in SUBSET Faults /\ q.error \in SUBSET Faults
  BY DEF Runtime
<1>3. thrown \in SUBSET Faults /\ error \in SUBSET Faults
  BY <1>2
<1> HIDE DEF thrown, error, r
<1>4. r = [phase |-> q.phase, server |-> q.server, held |-> q.held, did |-> q.did,
           thrown |-> thrown, error |-> error]
  BY <1>1 DEF Runtime
<1>5. r \in Runtime
  BY <1>3, <1>4 DEF Runtime
<1>6. /\ r.phase = q.phase /\ r.server = q.server /\ r.held = q.held
      /\ r.did = q.did /\ r.thrown = thrown /\ r.error = error
  BY <1>4
<1> QED BY <1>5, <1>6, Zenon DEF Joins, r, thrown, error

(* One that only joins what was thrown before takes the place of nothing.   *)
LEMMA FailsIs ==
    ASSUME NEW q \in Runtime, NEW what \in Faults
    PROVE  Joins(Fails(q, what), q, what, {})
<1> DEFINE thrown == q.thrown \cup {what}
           error == q.error \cup {what}
           none == (q.error \ {}) \cup {what}
<1>1. Fails(q, what) = [q EXCEPT !.thrown = thrown, !.error = error]
  BY DEF Fails, Joined, Runtime
<1>2. FailsFor(q, what, {}) = [q EXCEPT !.thrown = thrown, !.error = none]
  BY DEF FailsFor, Runtime
<1>3. none = error
  OBVIOUS
<1> HIDE DEF thrown, error, none
<1>4. Fails(q, what) = FailsFor(q, what, {})
  BY <1>1, <1>2, <1>3
<1> QED BY <1>4, FailsForIs

(* The steps that bring a materialization up.                               *)
LEMMA SetUpKeeps ==
    ASSUME RuntimeInv, NEW i \in Materializations, NEW fails \in BOOLEAN,
           \/ Materialize(i) \/ Admitted(i, fails) \/ InstallFails(i)
           \/ \E hook \in Hooks : SetUp(i, hook, fails)
    PROVE  RuntimeInv'
<1>0. runtime[i] \in Runtime /\ InOrder(runtime[i])
  BY RuntimeTypes DEF RuntimeInv, RuntimesInOrder
<1>f. "admit" \in Faults /\ "install" \in Faults /\ Hooks \subseteq Faults
  BY DEF Faults
<1>1. CASE Materialize(i)
  <2> DEFINE r == [runtime[i] EXCEPT !.phase = "admitting"]
  <2>1. runtime[i].phase = "idle" /\ Sets(i, r)
    BY <1>1 DEF Materialize
  <2>2. r \in Runtime /\ InOrder(r)
    BY <1>0, <2>1 DEF Runtime, InOrder, Accounted
  <2> QED BY <2>1, <2>2, SetsKeeps
<1>2. CASE Admitted(i, fails)
  <2>1. runtime[i].phase = "admitting"
    BY <1>2 DEF Admitted
  <2>2. runtime[i].held = {} /\ runtime[i].did = <<>> /\ runtime[i].server = "none"
        /\ runtime[i].thrown = {} /\ runtime[i].error = {}
    BY <1>0, <2>1 DEF InOrder, Accounted
  <2>3. CASE fails
    <3> DEFINE q == [runtime[i] EXCEPT !.phase = "failed"]
               r == Fails(q, "admit")
    <3>1. Sets(i, r)
      BY <1>2, <2>3 DEF Admitted
    <3>2. q \in Runtime /\ q.phase = "failed" /\ q.held = {} /\ q.did = <<>> /\ q.server = "none"
          /\ q.thrown = {} /\ q.error = {}
      BY <1>0, <2>2 DEF Runtime
    <3> HIDE DEF q
    <3>3. /\ r \in Runtime /\ r.phase = "failed" /\ r.held = {} /\ r.did = <<>> /\ r.server = "none"
          /\ r.thrown = {"admit"} /\ r.error = {"admit"}
      <4>1. Joins(r, q, "admit", {})
        BY <1>f, <3>2, FailsIs, Zenon
      <4> HIDE DEF r
      <4> QED BY <3>2, <4>1 DEF Joins
    <3> HIDE DEF r
    <3>4. InOrder(r)
      BY <3>3 DEF InOrder, Accounted, Undone, LostBehind
    <3> QED BY <3>1, <3>3, <3>4, SetsKeeps
  <2>4. CASE ~fails
    <3> DEFINE r == [runtime[i] EXCEPT !.phase = "parent setup", !.server = "open"]
    <3>1. Sets(i, r)
      BY <1>2, <2>4 DEF Admitted
    <3>2. r \in Runtime /\ InOrder(r)
      BY <1>0, <2>2 DEF Runtime, InOrder, Accounted
    <3> QED BY <3>1, <3>2, SetsKeeps
  <2> QED BY <2>3, <2>4
<1>3. CASE InstallFails(i)
  <2> DEFINE q == [runtime[i] EXCEPT !.phase = "discarding", !.server = "open"]
             r == Fails(q, "install")
  <2>1. runtime[i].phase = "admitting" /\ Sets(i, r)
    BY <1>3 DEF InstallFails
  <2>2. q \in Runtime /\ q.phase = "discarding" /\ q.held = {} /\ q.did = <<>>
        /\ q.thrown = {} /\ q.error = {}
    BY <1>0, <2>1 DEF Runtime, InOrder, Accounted
  <2> HIDE DEF q
  <2>3. /\ r \in Runtime /\ r.phase = "discarding" /\ r.held = {} /\ r.did = <<>>
        /\ r.thrown = {"install"} /\ r.error = {"install"}
    <3>1. Joins(r, q, "install", {})
      BY <1>f, <2>2, FailsIs, Zenon
    <3> HIDE DEF r
    <3> QED BY <2>2, <3>1 DEF Joins
  <2> HIDE DEF r
  <2>4. InOrder(r)
    BY <2>3 DEF InOrder, Accounted, Undone, LostBehind
  <2> QED BY <2>1, <2>3, <2>4, SetsKeeps
<1>4. ASSUME NEW hook \in Hooks, SetUp(i, hook, fails) PROVE RuntimeInv'
  <2> DEFINE q == [runtime[i] EXCEPT !.phase = AfterSetup(hook, fails)]
  <2>1. runtime[i].phase = IF hook = "parent" THEN "parent setup" ELSE "child setup"
    BY <1>4 DEF SetUp
  <2>2. AfterSetup(hook, fails) = IF fails THEN IF hook = "parent" THEN "discarding" ELSE "undoing"
                                  ELSE IF hook = "parent" THEN "child setup" ELSE "ready"
    BY DEF AfterSetup, Hooks
  <2>3. /\ runtime[i].did = <<>> /\ runtime[i].thrown = {} /\ runtime[i].error = {}
        /\ runtime[i].held = IF hook = "parent" THEN {} ELSE {"parent"}
    BY <1>0, <2>1 DEF InOrder, Accounted
  <2>4. /\ q \in Runtime /\ q.phase = AfterSetup(hook, fails) /\ q.did = <<>>
        /\ q.held = runtime[i].held /\ q.thrown = {} /\ q.error = {}
    BY <1>0, <2>2, <2>3 DEF Runtime
  <2>5. CASE fails
    <3> DEFINE r == Fails(q, hook)
    <3>1. Sets(i, r)
      BY <1>4, <2>5 DEF SetUp
    <3> HIDE DEF q
    <3>2. /\ r \in Runtime /\ r.phase = (IF hook = "parent" THEN "discarding" ELSE "undoing")
          /\ r.did = <<>> /\ r.held = (IF hook = "parent" THEN {} ELSE {"parent"})
          /\ r.thrown = {hook} /\ r.error = {hook}
      <4>1. hook \in Faults
        BY <1>f
      <4>2. Joins(r, q, hook, {})
        BY <2>4, <4>1, FailsIs, Zenon
      <4> HIDE DEF r
      <4> QED BY <2>2, <2>3, <2>4, <2>5, <4>2 DEF Joins
    <3> HIDE DEF r
    <3>3. InOrder(r)
      BY <3>2 DEF InOrder, Accounted, Undone, LostBehind, Hooks
    <3> QED BY <3>1, <3>2, <3>3, SetsKeeps
  <2>6. CASE ~fails
    <3> DEFINE r == [q EXCEPT !.held = q.held \cup {hook}]
    <3>1. Sets(i, r)
      BY <1>4, <2>6 DEF SetUp
    <3> HIDE DEF q
    <3>2. /\ r \in Runtime /\ r.phase = (IF hook = "parent" THEN "child setup" ELSE "ready")
          /\ r.did = <<>> /\ r.held = (IF hook = "parent" THEN {"parent"} ELSE Hooks)
          /\ r.thrown = {} /\ r.error = {}
      BY <2>2, <2>3, <2>4, <2>6 DEF Runtime, Hooks
    <3> HIDE DEF r
    <3>3. InOrder(r)
      BY <3>2 DEF InOrder, Accounted, Hooks
    <3> QED BY <3>1, <3>2, <3>3, SetsKeeps
  <2> QED BY <2>5, <2>6
<1> QED BY <1>1, <1>2, <1>3, <1>4

(* What has been done, one step longer.                                     *)
LEMMA AppendIsPair == ASSUME NEW x, NEW y PROVE Append(<<x>>, y) = <<x, y>>
<1> DEFINE S == {x, y}
           a == Append(<<x>>, y)
           b == <<x, y>>
<1>1. a \in Seq(S) /\ b \in Seq(S) /\ Len(a) = 2 /\ Len(b) = 2
  OBVIOUS
<1>2. a[1] = b[1] /\ a[2] = b[2]
  OBVIOUS
<1> HIDE DEF a, b, S
<1>3. \A k \in 1 .. Len(a) : a[k] = b[k]
  BY <1>1, <1>2
<1> QED BY <1>1, <1>3, SeqEqual DEF a, b

(* A pair and one more.                                                     *)
LEMMA AppendIsTriple == ASSUME NEW x, NEW y, NEW z PROVE Append(<<x, y>>, z) = <<x, y, z>>
<1> DEFINE S == {x, y, z}
           a == Append(<<x, y>>, z)
           b == <<x, y, z>>
<1>1. a \in Seq(S) /\ b \in Seq(S) /\ Len(a) = 3 /\ Len(b) = 3
  OBVIOUS
<1>2. a[1] = b[1] /\ a[2] = b[2] /\ a[3] = b[3]
  OBVIOUS
<1> HIDE DEF a, b, S
<1>3. \A k \in 1 .. Len(a) : a[k] = b[k]
  BY <1>1, <1>2
<1> QED BY <1>1, <1>3, SeqEqual DEF a, b

(* The steps that undo or discard a materialization.                        *)
LEMMA DiscardKeeps ==
    ASSUME RuntimeInv, NEW i \in Materializations, NEW fails \in BOOLEAN,
           Undo(i, fails) \/ Discard(i, fails)
    PROVE  RuntimeInv'
<1>0. runtime[i] \in Runtime /\ InOrder(runtime[i])
  BY RuntimeTypes DEF RuntimeInv, RuntimesInOrder
<1>f. "parent cleanup" \in Faults /\ "close" \in Faults
  BY DEF Faults
<1>1. CASE Undo(i, fails)
  <2> DEFINE q == [runtime[i] EXCEPT !.phase = "discarding", !.did = Append(runtime[i].did, "parent")]
             r == IF fails THEN FailsFor(q, "parent cleanup", {"child"}) ELSE q
  <2>1. runtime[i].phase = "undoing" /\ Sets(i, r)
    BY <1>1 DEF Undo
  <2>2. runtime[i].did = <<>> /\ runtime[i].held = {"parent"}
        /\ runtime[i].thrown = {"child"} /\ runtime[i].error = {"child"}
    BY <1>0, <2>1 DEF InOrder, Accounted
  <2>3. Append(runtime[i].did, "parent") = <<"parent">> /\ <<"parent">> \in Seq(Steps)
    BY <2>2 DEF Steps, Hooks
  <2>4. /\ q \in Runtime /\ q.phase = "discarding" /\ q.held = {"parent"} /\ q.did = <<"parent">>
        /\ q.thrown = {"child"} /\ q.error = {"child"}
    BY <1>0, <2>2, <2>3 DEF Runtime
  <2> HIDE DEF q
  <2>5. /\ r \in Runtime /\ r.phase = "discarding" /\ r.held = {"parent"} /\ r.did = <<"parent">>
        /\ \/ r.thrown = {"child"} /\ r.error = {"child"}
           \/ r.thrown = {"child", "parent cleanup"} /\ r.error = {"parent cleanup"}
    <3>1. CASE fails
      <4>1. /\ r \in Runtime /\ r.phase = "discarding" /\ r.held = {"parent"} /\ r.did = <<"parent">>
            /\ r.thrown = {"child"} \cup {"parent cleanup"}
            /\ r.error = ({"child"} \ {"child"}) \cup {"parent cleanup"}
        <5>1. r = FailsFor(q, "parent cleanup", {"child"})
          BY <3>1
        <5> HIDE DEF r
        <5>2. Joins(r, q, "parent cleanup", {"child"})
          BY <1>f, <2>4, <5>1, FailsForIs, Zenon
        <5> QED BY <2>4, <5>2 DEF Joins
      <4> QED BY <4>1
    <3>2. CASE ~fails
      BY <2>4, <3>2
    <3> QED BY <3>1, <3>2
  <2> HIDE DEF r
  <2>6. InOrder(r)
    BY <2>5 DEF InOrder, Accounted, Undone, LostBehind
  <2> QED BY <2>1, <2>5, <2>6, SetsKeeps
<1>2. CASE Discard(i, fails)
  <2> DEFINE q == [runtime[i] EXCEPT !.phase = "failed", !.server = "closed"]
             r == IF fails THEN Fails(q, "close") ELSE q
  <2>1. runtime[i].phase = "discarding" /\ Sets(i, r)
    BY <1>2 DEF Discard
  <2>2. Undone(runtime[i]) /\ runtime[i].error = runtime[i].thrown \ LostBehind(runtime[i].thrown)
    BY <1>0, <2>1 DEF InOrder, Accounted
  <2>3. /\ q \in Runtime /\ q.phase = "failed" /\ q.server = "closed" /\ q.held = runtime[i].held
        /\ q.did = runtime[i].did /\ q.thrown = runtime[i].thrown /\ q.error = runtime[i].error
    BY <1>0 DEF Runtime
  <2> HIDE DEF q
  <2>4. /\ r \in Runtime /\ r.phase = "failed" /\ r.server = "closed" /\ r.held = runtime[i].held
        /\ r.did = runtime[i].did
        /\ \/ r.thrown = runtime[i].thrown /\ r.error = runtime[i].error
           \/ r.thrown = runtime[i].thrown \cup {"close"} /\ r.error = runtime[i].error \cup {"close"}
    <3>1. CASE fails
      <4>1. r = Fails(q, "close")
        BY <3>1
      <4>2. Joins(r, q, "close", {})
        BY <1>f, <2>3, <4>1, FailsIs, Zenon
      <4> HIDE DEF r
      <4> QED BY <2>3, <4>2 DEF Joins
    <3>2. CASE ~fails
      BY <2>3, <3>2
    <3> QED BY <3>1, <3>2
  <2> HIDE DEF r
  <2>5. Undone(r)
    BY <2>2, <2>4 DEF Undone
  <2>6. r.error = r.thrown \ LostBehind(r.thrown)
    BY <2>2, <2>4 DEF LostBehind
  <2>7. InOrder(r)
    BY <2>4, <2>5, <2>6 DEF InOrder, Accounted
  <2> QED BY <2>1, <2>4, <2>7, SetsKeeps
<1> QED BY <1>1, <1>2

(* The steps that close one.                                                *)
LEMMA CloseKeeps ==
    ASSUME RuntimeInv, NEW i \in Materializations, NEW fails \in BOOLEAN,
           \/ CloseRuntime(i) \/ RuntimeServerCloses(i, fails)
           \/ ChildCleansUp(i, fails) \/ ParentCleansUp(i, fails)
    PROVE  RuntimeInv'
<1>0. runtime[i] \in Runtime /\ InOrder(runtime[i])
  BY RuntimeTypes DEF RuntimeInv, RuntimesInOrder
<1>s. "server" \in Steps /\ "parent" \in Steps /\ "child" \in Steps
  BY DEF Steps, Hooks
<1>d. runtime[i].did \in Seq(Steps)
  BY <1>0 DEF Runtime
<1>f. "close" \in Faults /\ "child cleanup" \in Faults /\ "parent cleanup" \in Faults
  BY DEF Faults
<1>1. CASE CloseRuntime(i)
  <2> DEFINE r == [runtime[i] EXCEPT !.phase = "closing"]
  <2>1. runtime[i].phase = "ready" /\ Sets(i, r)
    BY <1>1 DEF CloseRuntime
  <2>2. r \in Runtime /\ InOrder(r)
    BY <1>0, <2>1 DEF Runtime, InOrder, Accounted
  <2> QED BY <2>1, <2>2, SetsKeeps
<1>2. CASE RuntimeServerCloses(i, fails)
  <2> DEFINE q == [runtime[i] EXCEPT !.phase = "child cleanup", !.server = "closed",
                                     !.did = Append(runtime[i].did, "server")]
             r == IF fails THEN Fails(q, "close") ELSE q
  <2>1. runtime[i].phase = "closing" /\ Sets(i, r)
    BY <1>2 DEF RuntimeServerCloses, AfterClose
  <2>2. runtime[i].did = <<>> /\ runtime[i].thrown = {} /\ runtime[i].error = {}
    BY <1>0, <2>1 DEF InOrder, Accounted
  <2>3. Append(runtime[i].did, "server") = <<"server">> /\ <<"server">> \in Seq(Steps)
    BY <1>s, <2>2
  <2>4. q \in Runtime /\ q.phase = "child cleanup" /\ q.did = <<"server">>
        /\ q.thrown = {} /\ q.error = {}
    BY <1>0, <2>2, <2>3 DEF Runtime
  <2> HIDE DEF q
  <2>5. /\ r \in Runtime /\ r.phase = "child cleanup" /\ r.did = <<"server">>
        /\ r.thrown \subseteq {"close"} /\ r.error = r.thrown
    <3>1. CASE fails
      <4>1. r = Fails(q, "close")
        BY <3>1
      <4>2. Joins(r, q, "close", {})
        BY <1>f, <2>4, <4>1, FailsIs, Zenon
      <4> HIDE DEF r
      <4> QED BY <2>4, <4>2 DEF Joins
    <3>2. CASE ~fails
      BY <2>4, <3>2
    <3> QED BY <3>1, <3>2
  <2> HIDE DEF r
  <2>6. InOrder(r)
    BY <2>5 DEF InOrder, Accounted
  <2> QED BY <2>1, <2>5, <2>6, SetsKeeps
<1>3. CASE ChildCleansUp(i, fails)
  <2> DEFINE did == Append(runtime[i].did, "child")
             q == [runtime[i] EXCEPT !.phase = "parent cleanup", !.did = did]
             r == IF fails THEN Fails(q, "child cleanup") ELSE q
  <2>1. runtime[i].phase = "child cleanup" /\ Sets(i, r)
    BY <1>3 DEF ChildCleansUp
  <2>2. /\ runtime[i].did = <<"server">> /\ runtime[i].thrown \subseteq {"close"}
        /\ runtime[i].error = runtime[i].thrown
    BY <1>0, <2>1 DEF InOrder, Accounted
  <2>3. did = <<"server", "child">> /\ did \in Seq(Steps)
    <3>1. Append(<<"server">>, "child") = <<"server", "child">>
      BY AppendIsPair
    <3> QED BY <1>d, <1>s, <2>2, <3>1
  <2> HIDE DEF did
  <2>4. /\ q \in Runtime /\ q.phase = "parent cleanup" /\ q.did = <<"server", "child">>
        /\ q.thrown \subseteq {"close"} /\ q.error = q.thrown
    BY <1>0, <2>2, <2>3 DEF Runtime
  <2> HIDE DEF q
  <2>5. /\ r \in Runtime /\ r.phase = "parent cleanup" /\ r.did = <<"server", "child">>
        /\ r.thrown \subseteq {"close", "child cleanup"} /\ r.error = r.thrown
    <3>1. CASE fails
      <4>1. r = Fails(q, "child cleanup")
        BY <3>1
      <4>2. Joins(r, q, "child cleanup", {})
        BY <1>f, <2>4, <4>1, FailsIs, Zenon
      <4> HIDE DEF r
      <4> QED BY <2>4, <4>2 DEF Joins
    <3>2. CASE ~fails
      BY <2>4, <3>2
    <3> QED BY <3>1, <3>2
  <2> HIDE DEF r
  <2>6. InOrder(r)
    BY <2>5 DEF InOrder, Accounted
  <2> QED BY <2>1, <2>5, <2>6, SetsKeeps
<1>4. CASE ParentCleansUp(i, fails)
  <2> DEFINE did == Append(runtime[i].did, "parent")
             q == [runtime[i] EXCEPT !.phase = "closed", !.did = did]
             r == IF fails THEN FailsFor(q, "parent cleanup", {"child cleanup"}) ELSE q
  <2>1. runtime[i].phase = "parent cleanup" /\ Sets(i, r)
    BY <1>4 DEF ParentCleansUp
  <2>2. /\ runtime[i].did = <<"server", "child">> /\ runtime[i].error = runtime[i].thrown
        /\ runtime[i].thrown \subseteq {"close", "child cleanup"}
    BY <1>0, <2>1 DEF InOrder, Accounted
  <2>3. did = <<"server", "child", "parent">> /\ did \in Seq(Steps)
    <3>1. Append(<<"server", "child">>, "parent") = <<"server", "child", "parent">>
      BY AppendIsTriple
    <3>2. did = <<"server", "child", "parent">>
      BY <2>2, <3>1
    <3>3. did \in Seq(Steps)
      BY <1>d, <1>s
    <3> QED BY <3>2, <3>3
  <2> HIDE DEF did
  <2>4. /\ q \in Runtime /\ q.phase = "closed" /\ q.did = <<"server", "child", "parent">>
        /\ q.thrown \subseteq {"close", "child cleanup"} /\ q.error = q.thrown
    BY <1>0, <2>2, <2>3 DEF Runtime
  <2> HIDE DEF q
  <2>5. /\ r \in Runtime /\ r.phase = "closed" /\ r.did = <<"server", "child", "parent">>
        /\ r.error = r.thrown \ LostBehind(r.thrown)
    <3>1. CASE fails
      <4>1. /\ r \in Runtime /\ r.phase = "closed" /\ r.did = <<"server", "child", "parent">>
            /\ r.thrown = q.thrown \cup {"parent cleanup"}
            /\ r.error = (q.error \ {"child cleanup"}) \cup {"parent cleanup"}
        <5>1. r = FailsFor(q, "parent cleanup", {"child cleanup"})
          BY <3>1
        <5> HIDE DEF r
        <5>2. Joins(r, q, "parent cleanup", {"child cleanup"})
          BY <1>f, <2>4, <5>1, FailsForIs, Zenon
        <5> QED BY <2>4, <5>2 DEF Joins
      <4> HIDE DEF r
      <4>2. "child" \notin q.thrown
        BY <2>4
      <4> QED BY <2>4, <4>1, <4>2 DEF LostBehind
    <3>2. CASE ~fails
      BY <2>4, <3>2 DEF LostBehind
    <3> QED BY <3>1, <3>2
  <2> HIDE DEF r
  <2>6. InOrder(r)
    BY <2>5 DEF InOrder, Accounted
  <2> QED BY <2>1, <2>5, <2>6, SetsKeeps
<1> QED BY <1>1, <1>2, <1>3, <1>4

-----------------------------------------------------------------------------
(* A step of the entry leaves the materializations alone.                   *)
LEMMA EntryKeeps ==
    ASSUME RuntimeInv, runtime' = runtime, entry' \in EntryState,
           closers' \in [Closers -> {"idle", "waiting", "answered"}], EntryOrder'
    PROVE  RuntimeInv'
<1>1. RuntimeTypeOK'
  BY RuntimeTypes, RuntimeTypesNext DEF RuntimeInv
<1> QED BY <1>1 DEF RuntimeInv, RuntimesInOrder

(* What the end of the lifespan makes of the entry.                         *)
LEMMA StoppedIs ==
    ASSUME entry \in EntryState, entry.stops = 0, entry.phase \in {"failing", "stopping"}, EntryOrder,
           NEW fails \in BOOLEAN, NEW to \in {"closed", "failed"}
    PROVE  /\ Stopped(fails, to) \in EntryState /\ Stopped(fails, to).phase = to
           /\ Stopped(fails, to).stops = 1 /\ ~Stopped(fails, to).listening
           /\ Stopped(fails, to).reported = Stopped(fails, to).thrown
           /\ "start" \notin Stopped(fails, to).thrown
<1> DEFINE thrown == Thrown("stop", fails)
<1>1. thrown \in SUBSET Failures /\ "start" \notin thrown /\ ~entry.listening
  BY DEF Thrown, Failures, EntryState, EntryOrder
<1>2. Stopped(fails, to) = [entry EXCEPT !.phase = to, !.stops = entry.stops + 1, !.thrown = thrown,
                                         !.reported = thrown]
  BY DEF Stopped, Rejection
<1>3. entry.stops + 1 = 1
  OBVIOUS
<1> HIDE DEF thrown
<1> DEFINE e == Stopped(fails, to)
<1>4. e = [phase |-> to, thrown |-> thrown, reported |-> thrown, stops |-> 1,
           listening |-> entry.listening, mcp |-> entry.mcp]
  BY <1>2, <1>3 DEF EntryState
<1>5. /\ e.phase = to /\ e.stops = 1 /\ e.thrown = thrown /\ e.reported = thrown
      /\ e.listening = entry.listening
  BY <1>4
<1>6. e \in EntryState
  <2>1. entry.listening \in BOOLEAN /\ entry.mcp \in {"none", "open", "closed"}
    BY DEF EntryState
  <2>2. 1 \in 0 .. 1
    BY SMT
  <2>3. to \in {"down", "starting", "failing", "up", "closing", "closing mcp",
               "stopping", "closed", "failed"}
    BY Zenon
  <2> HIDE DEF e
  <2> QED BY <1>1, <1>4, <2>1, <2>2, <2>3, Zenon DEF EntryState
<1> HIDE DEF e
<1>7. ~e.listening
  BY <1>1, <1>5
<1> QED BY <1>1, <1>5, <1>6, <1>7 DEF e

(* A step of the entry that leaves the callers of close alone.              *)
LEMMA EntryStepKeeps ==
    ASSUME RuntimeInv, NEW fails \in BOOLEAN,
           \/ StartLifespan(fails) \/ Serve(fails) \/ StopAfterFailure(fails)
           \/ ServerCloses(fails) \/ McpCloses(fails)
    PROVE  RuntimeInv'
<1>0. entry \in EntryState /\ EntryOrder /\ closers \in [Closers -> {"idle", "waiting", "answered"}]
  BY RuntimeTypes DEF RuntimeInv
<1>t. \A what \in Failures : Thrown(what, fails) \in SUBSET Failures
  BY <1>0 DEF Thrown, EntryState
<1>u. "serve" \in Failures /\ "close" \in Failures /\ "mcp" \in Failures /\ "start" \in Failures
  BY DEF Failures
<1>n. runtime' = runtime /\ closers' = closers
  BY DEF StartLifespan, Serve, StopAfterFailure, ServerCloses, McpCloses
<1>c. entry.phase # "closed" => \A c \in Closers : closers[c] # "answered"
  BY <1>0 DEF EntryOrder
<1>1. CASE StartLifespan(fails)
  <2>1. /\ entry.phase = "down"
        /\ entry' = IF fails THEN [entry EXCEPT !.phase = "failed", !.thrown = {"start"}, !.reported = {"start"}]
                    ELSE [entry EXCEPT !.phase = "starting"]
    BY <1>1 DEF StartLifespan
  <2>2. entry' \in EntryState
    BY <1>0, <1>u, <2>1 DEF EntryState
  <2>3. EntryOrder'
    BY <1>0, <1>c, <1>n, <2>1 DEF EntryState, EntryOrder
  <2> QED BY <1>0, <1>n, <2>2, <2>3, EntryKeeps
<1>2. CASE Serve(fails)
  <2>1. /\ entry.phase = "starting"
        /\ entry' = [entry EXCEPT !.phase = IF fails THEN "failing" ELSE "up",
                                  !.thrown = Thrown("serve", fails), !.mcp = "open", !.listening = ~fails]
    BY <1>2 DEF Serve, AfterServe
  <2>2. Thrown("serve", fails) \in SUBSET Failures /\ "start" \notin Thrown("serve", fails)
    BY <1>0, <1>t, <1>u, <2>1 DEF Thrown, EntryOrder
  <2>3. entry' \in EntryState
    BY <1>0, <2>1, <2>2 DEF EntryState
  <2>4. EntryOrder'
    BY <1>0, <1>c, <1>n, <2>1, <2>2 DEF EntryState, EntryOrder
  <2> QED BY <1>0, <1>n, <2>3, <2>4, EntryKeeps
<1>3. CASE StopAfterFailure(fails)
  <2>1. entry.phase = "failing" /\ entry' = Stopped(fails, "failed")
    BY <1>3 DEF StopAfterFailure
  <2>2. entry.stops = 0
    BY <1>0, <2>1 DEF EntryOrder
  <2>3. /\ entry' \in EntryState /\ entry'.phase = "failed" /\ entry'.stops = 1 /\ ~entry'.listening
        /\ entry'.reported = entry'.thrown /\ "start" \notin entry'.thrown
    BY <1>0, <2>1, <2>2, StoppedIs
  <2>4. EntryOrder'
    BY <1>c, <1>n, <2>1, <2>3 DEF EntryOrder
  <2> QED BY <1>0, <1>n, <2>3, <2>4, EntryKeeps
<1>4. CASE ServerCloses(fails)
  <2>1. /\ entry.phase = "closing"
        /\ entry' = [entry EXCEPT !.phase = IF fails THEN "stopping" ELSE "closing mcp",
                                  !.thrown = Thrown("close", fails), !.listening = FALSE]
    BY <1>4 DEF ServerCloses
  <2>2. Thrown("close", fails) \in SUBSET Failures /\ "start" \notin Thrown("close", fails)
    BY <1>0, <1>t, <1>u, <2>1 DEF Thrown, EntryOrder
  <2>3. entry' \in EntryState
    BY <1>0, <2>1, <2>2 DEF EntryState
  <2>4. EntryOrder'
    BY <1>0, <1>c, <1>n, <2>1, <2>2 DEF EntryState, EntryOrder
  <2> QED BY <1>0, <1>n, <2>3, <2>4, EntryKeeps
<1>5. CASE McpCloses(fails)
  <2>1. /\ entry.phase = "closing mcp"
        /\ entry' = [entry EXCEPT !.phase = "stopping", !.mcp = "closed", !.thrown = Thrown("mcp", fails)]
    BY <1>5 DEF McpCloses
  <2>2. Thrown("mcp", fails) \in SUBSET Failures /\ "start" \notin Thrown("mcp", fails)
    BY <1>0, <1>t, <1>u, <2>1 DEF Thrown, EntryOrder
  <2>3. entry' \in EntryState
    BY <1>0, <2>1, <2>2 DEF EntryState
  <2>4. EntryOrder'
    BY <1>0, <1>c, <1>n, <2>1, <2>2 DEF EntryState, EntryOrder
  <2> QED BY <1>0, <1>n, <2>3, <2>4, EntryKeeps
<1> QED BY <1>1, <1>2, <1>3, <1>4, <1>5

(* A caller closes the entry.                                               *)
LEMMA CloseEntryKeeps ==
    ASSUME RuntimeInv, NEW c \in Closers, CloseEntry(c)
    PROVE  RuntimeInv'
<1>0. entry \in EntryState /\ EntryOrder /\ closers \in [Closers -> {"idle", "waiting", "answered"}]
  BY RuntimeTypes DEF RuntimeInv
<1>1. /\ runtime' = runtime /\ entry.phase \notin {"down", "starting", "failing", "failed"}
      /\ closers' = [closers EXCEPT ![c] = IF entry.phase = "closed" THEN "answered" ELSE "waiting"]
      /\ entry' = IF entry.phase = "up" THEN [entry EXCEPT !.phase = "closing"] ELSE entry
  BY DEF CloseEntry
<1>2. entry' \in EntryState /\ closers' \in [Closers -> {"idle", "waiting", "answered"}]
  BY <1>0, <1>1 DEF EntryState
<1>3. \A d \in Closers : closers'[d] = "answered" => entry.phase = "closed"
  BY <1>0, <1>1 DEF EntryOrder
<1>4. EntryOrder'
  BY <1>0, <1>1, <1>3 DEF EntryState, EntryOrder
<1> QED BY <1>1, <1>2, <1>4, EntryKeeps

(* The lifespan stops, and every caller is answered.                        *)
LEMMA EntryStopsKeeps ==
    ASSUME RuntimeInv, NEW fails \in BOOLEAN, EntryStops(fails)
    PROVE  RuntimeInv'
<1>0. entry \in EntryState /\ EntryOrder /\ closers \in [Closers -> {"idle", "waiting", "answered"}]
  BY RuntimeTypes DEF RuntimeInv
<1>1. /\ entry.phase = "stopping" /\ entry' = Stopped(fails, "closed") /\ runtime' = runtime
      /\ closers' = [c \in Closers |-> IF closers[c] = "waiting" THEN "answered" ELSE closers[c]]
  BY DEF EntryStops
<1>2. entry.stops = 0
  BY <1>0, <1>1 DEF EntryOrder
<1>3. /\ entry' \in EntryState /\ entry'.phase = "closed" /\ entry'.stops = 1 /\ ~entry'.listening
      /\ entry'.reported = entry'.thrown /\ "start" \notin entry'.thrown
  BY <1>0, <1>1, <1>2, StoppedIs
<1>4. closers' \in [Closers -> {"idle", "waiting", "answered"}]
  BY <1>0, <1>1
<1>5. EntryOrder'
  BY <1>3 DEF EntryOrder
<1> QED BY <1>1, <1>3, <1>4, <1>5, EntryKeeps

(* Each step keeps the whole invariant.                                     *)
LEMMA RuntimeStep == RuntimeInv /\ [RuntimeNext]_runtimeVars => RuntimeInv'
<1> SUFFICES ASSUME RuntimeInv, [RuntimeNext]_runtimeVars PROVE RuntimeInv'
  OBVIOUS
<1>1. ASSUME NEW fails \in BOOLEAN, \/ StartLifespan(fails) \/ Serve(fails) \/ StopAfterFailure(fails)
                                    \/ ServerCloses(fails) \/ McpCloses(fails)
      PROVE  RuntimeInv'
  BY <1>1, EntryStepKeeps
<1>2. ASSUME NEW fails \in BOOLEAN, EntryStops(fails) PROVE RuntimeInv'
  BY <1>2, EntryStopsKeeps
<1>3. ASSUME NEW c \in Closers, CloseEntry(c) PROVE RuntimeInv'
  BY <1>3, CloseEntryKeeps
<1>4. ASSUME NEW fails \in BOOLEAN, NEW i \in Materializations,
             \/ Materialize(i) \/ Admitted(i, fails) \/ InstallFails(i)
             \/ \E hook \in Hooks : SetUp(i, hook, fails)
      PROVE  RuntimeInv'
  BY <1>4, SetUpKeeps
<1>5. ASSUME NEW fails \in BOOLEAN, NEW i \in Materializations, Undo(i, fails) \/ Discard(i, fails)
      PROVE  RuntimeInv'
  BY <1>5, DiscardKeeps
<1>6. ASSUME NEW fails \in BOOLEAN, NEW i \in Materializations,
             \/ CloseRuntime(i) \/ RuntimeServerCloses(i, fails)
             \/ ChildCleansUp(i, fails) \/ ParentCleansUp(i, fails)
      PROVE  RuntimeInv'
  BY <1>6, CloseKeeps
<1>7. CASE UNCHANGED runtimeVars
  BY <1>7 DEF runtimeVars, RuntimeInv, RuntimeTypeOK, RuntimesInOrder, EntryOrder
<1>8. TRUE \in BOOLEAN
  OBVIOUS
<1> QED BY <1>1, <1>2, <1>3, <1>4, <1>5, <1>6, <1>7, <1>8 DEF RuntimeNext

(* What a setup hook opened is cleaned up once and in order, a             *)
(* materialization that failed half way keeps nothing, the lifespan is      *)
(* stopped once and before any close() is answered, whatever fails, the     *)
(* cleanups among it, and in whatever order.  Every failure is reported but *)
(* the child's, when the cleanup of the parent fails after it               *)
(* (serveWithLifespan in src/authoring/lifespan.ts, instantiate,            *)
(* McpServerRuntime and composeSetup in src/authoring/server-definition.ts).*)
THEOREM AlwaysReleased == RuntimeSpec => []Released
<1>1. RuntimeInv => Released
  <2> SUFFICES ASSUME RuntimeInv PROVE Released
    OBVIOUS
  <2>1. \A i \in Materializations : Undone(runtime[i]) => Done(i) = runtime[i].held
    BY DEF Undone, Done
  <2>2. CleanedUp
    BY <2>1 DEF RuntimeInv, RuntimesInOrder, InOrder, CleanedUp
  <2>3. LifespanBalanced /\ FailuresReported
    <3>1. entry.stops \in 0 .. 1
      BY RuntimeTypes DEF RuntimeInv, EntryState
    <3>2. entry.phase \in {"down", "starting", "failing", "up", "closing", "closing mcp",
                           "stopping", "closed", "failed"}
      BY RuntimeTypes DEF RuntimeInv, EntryState
    <3>3. EntryOrder
      BY DEF RuntimeInv
    <3>4. LifespanBalanced
      <4>1. entry.phase \in {"closed", "failed"}
                => entry.stops = IF "start" \in entry.thrown THEN 0 ELSE 1
        BY <3>3 DEF EntryOrder
      <4>2. entry.stops = 1 => ~entry.listening
        <5>1. entry.phase \notin {"closed", "failed"} => entry.stops = 0
          BY <3>3 DEF EntryOrder
        <5>2. entry.stops = 1 => entry.phase \in {"closed", "failed"}
          BY <5>1
        <5>3. entry.phase \in {"closed", "failed"} => ~entry.listening
          BY <3>3 DEF EntryOrder
        <5> QED BY <5>2, <5>3
      <4>3. \A c \in Closers : closers[c] = "answered" => entry.stops = 1
        BY <3>3 DEF EntryOrder
      <4> QED BY <4>1, <4>2, <4>3 DEF LifespanBalanced
    <3>5. \A i \in Materializations : Accounted(runtime[i])
      BY DEF RuntimeInv, RuntimesInOrder, InOrder
    <3>6. FailuresReported
      BY <3>3, <3>5 DEF EntryOrder, Accounted, LostBehind, FailuresReported
    <3> QED BY <3>4, <3>6
  <2> QED BY <2>2, <2>3 DEF RuntimeInv, Released
<1> QED BY <1>1, RuntimeBegins, RuntimeStep, PTL DEF RuntimeSpec

-----------------------------------------------------------------------------
(* The admission of calls, typed.                                           *)
ServerStates ==
    [ phase: {"idle", "resolving", "admitting", "live", "failed"}, who: Principals \cup {Absent},
      answered: Nat, provided: Seq(Capability), threw: BOOLEAN, left: SUBSET Nat,
      admitted: SUBSET Nat ]
CallStates ==
    [ phase: {"idle", "own", "extra", "delivered", "step-up", "forbidden"},
      server: Servers \cup {Absent}, capability: Capability \cup {Absent},
      who: Principals \cup {Absent}, at: Nat, ever: BOOLEAN ]

AdmissionTypes ==
    /\ definition \in ServedDefinitions
    /\ authority \in [Principals -> Answers] /\ changes \in 0 .. MaxChanges
    /\ server \in [Servers -> ServerStates] /\ invocation \in [Invocations -> CallStates]

(* A server that is being built has heard no refusal; what is admitted, and *)
(* what is to be asked for still, is visible, and between them they hold    *)
(* all that asks for nothing.                                               *)
InFull(s) ==
    ~s.threw /\ \A j \in DOMAIN s.provided : s.provided[j].kind \in definition.declared
Sorted(s) ==
    LET offers == Listing(s.provided) IN
    /\ s.answered = definition.providers
    /\ \A k \in s.left \cup s.admitted : k \in DOMAIN offers /\ Visible(offers[k], definition.rules)
    /\ \A k \in DOMAIN offers :
          Visible(offers[k], definition.rules) /\ offers[k].auth = Absent
            => k \in s.left \cup s.admitted
    /\ \A k \in s.admitted :
          s.who = Absent /\ offers[k].auth # Absent => offers[k].auth.anonymous = "allow"
BuiltInOrder(s) ==
    /\ s.phase = "idle" => s = NoServer
    /\ s.phase = "resolving" => InFull(s) /\ s.admitted = {} /\ s.answered < definition.providers
    /\ s.phase \in {"admitting", "live"} => InFull(s) /\ Sorted(s)
    /\ s.phase = "live" => s.left = {}

(* A call is on a live server and was admitted to; before its own check it  *)
(* is known to pass if it does, and after that check, that it did.          *)
CalledInOrder(v) ==
    v.phase # "idle" =>
      /\ v.server \in Servers /\ server[v.server].phase = "live"
      /\ server[v.server].who = Absent /\ v.capability.auth # Absent =>
            v.capability.auth.anonymous = "allow"
      /\ v.phase = "own" =>
            /\ definition.authorize /\ v.capability.auth # Absent
            /\ PassesNow(v, authority) => v.ever
      /\ v.phase = "extra" => definition.authorize /\ v.ever
      /\ v.phase = "delivered" /\ definition.authorize =>
            v.ever /\ (definition.extras # <<>> => Principal(v.server, v.who) # Absent)

AdmissionInv ==
    /\ AdmissionTypes
    /\ \A i \in Servers : BuiltInOrder(server[i])
    /\ \A c \in Invocations : CalledInOrder(invocation[c])

(* What a check is asked of: the holder of a token, with what the host says *)
(* of it.                                                                   *)
Asks(who, answers) ==
    IF who = Absent THEN Absent
    ELSE [scopes |-> ScopesOf(who), roles |-> Absent, policy |-> answers[who]]

(* The holder that a request is judged by is what its principal asks as.     *)
LEMMA HolderAsks == \A who : Holder(who) = Asks(who, authority)
BY DEF Holder, Asks

(* Whether a call passes is up to its principal and the host, now or next.  *)
LEMMA PassesAsks ==
  ASSUME NEW v, NEW answers
  PROVE  /\ PassesNow(v, answers) <=>
              \/ v.capability.auth = Absent
              \/ EvaluateAuth(v.capability.auth, Asks(Principal(v.server, v.who), answers))
         /\ server' = server =>
              (PassesNow(v, authority)' <=>
                 \/ v.capability.auth = Absent
                 \/ EvaluateAuth(v.capability.auth, Asks(Principal(v.server, v.who), authority')))
<1>1. \A who : [[scopes |-> ScopesOf(who), roles |-> Absent, policy |-> authority[who]]
                   EXCEPT !.policy = answers[who]]
               = [scopes |-> ScopesOf(who), roles |-> Absent, policy |-> answers[who]]
  OBVIOUS
<1>2. \A who : [[scopes |-> ScopesOf(who), roles |-> Absent, policy |-> authority'[who]]
                   EXCEPT !.policy = authority'[who]]
               = [scopes |-> ScopesOf(who), roles |-> Absent, policy |-> authority'[who]]
  OBVIOUS
<1>3. PassesNow(v, answers) <=>
        \/ v.capability.auth = Absent
        \/ EvaluateAuth(v.capability.auth, Asks(Principal(v.server, v.who), answers))
  BY <1>1 DEF PassesNow, Holder, Asks
<1>4. ASSUME server' = server
      PROVE  PassesNow(v, authority)' <=>
               \/ v.capability.auth = Absent
               \/ EvaluateAuth(v.capability.auth, Asks(Principal(v.server, v.who), authority'))
  BY <1>2, <1>4 DEF PassesNow, Principal, Holder, Asks, EvaluateAuth
<1> QED BY <1>3, <1>4

(* A server that is live stays as it is while others are built.             *)
LiveKept == \A i \in Servers : server[i].phase = "live" => server'[i] = server[i]

(* What a call has to go by is not touched while others are built.          *)
LEMMA CallsKept ==
  ASSUME AdmissionInv, LiveKept, UNCHANGED <<definition, authority, changes, invocation>>
  PROVE  \A c \in Invocations : CalledInOrder(invocation[c])'
<1> SUFFICES ASSUME NEW c \in Invocations PROVE CalledInOrder(invocation[c])'
  OBVIOUS
<1> DEFINE v == invocation[c]
<1>1. CalledInOrder(v)
  BY DEF AdmissionInv
<1>2. CASE v.phase = "idle"
  BY <1>2 DEF CalledInOrder
<1>3. CASE v.phase # "idle"
  <2>1. v.server \in Servers /\ server'[v.server] = server[v.server]
    BY <1>1, <1>3 DEF CalledInOrder, LiveKept
  <2>2. Principal(v.server, v.who)' = Principal(v.server, v.who)
    BY <2>1 DEF Principal
  <2>3. PassesNow(v, authority)' <=> PassesNow(v, authority)
    BY <2>2 DEF PassesNow, Holder
  <2> QED BY <1>1, <1>3, <2>1, <2>2, <2>3 DEF CalledInOrder
<1> QED BY <1>2, <1>3

(* Two lists in a row are a list.                                           *)
LEMMA Listed ==
  ASSUME definition \in ServedDefinitions, NEW provided \in Seq(Capability)
  PROVE  /\ Listing(provided) \in Seq(Capability)
         /\ DOMAIN Listing(provided) \subseteq Nat
         /\ \A k \in DOMAIN Listing(provided) : Listing(provided)[k] \in Capability
<1>1. definition.capabilities \in Seq(Capability)
  BY AdmissionAssumption
<1>2. Listing(provided) \in Seq(Capability)
  BY <1>1, ConcatProperties DEF Listing
<1> HIDE DEF Listing
<1>3. DOMAIN Listing(provided) = 1 .. Len(Listing(provided)) /\ Len(Listing(provided)) \in Nat
  BY <1>2
<1> QED BY <1>2, <1>3, ElementOfSeq

(* Nothing is built and nothing called.                                     *)
LEMMA AdmissionBegins == AdmissionInit => AdmissionInv
<1> SUFFICES ASSUME AdmissionInit PROVE AdmissionInv
  OBVIOUS
<1>1. AdmissionTypes
  BY AdmissionAssumption
  DEF AdmissionInit, AdmissionTypes, NoServer, NoCall, ServerStates, CallStates, Answers
<1>2. \A i \in Servers : BuiltInOrder(server[i])
  BY DEF AdmissionInit, BuiltInOrder, NoServer
<1>3. \A c \in Invocations : CalledInOrder(invocation[c])
  BY DEF AdmissionInit, CalledInOrder, NoCall
<1> QED BY <1>1, <1>2, <1>3 DEF AdmissionInv

(* A step that builds one server, which was not live.                       *)
LEMMA BuildsOne ==
  ASSUME AdmissionInv, NEW i \in Servers, server[i].phase # "live", NEW s \in ServerStates,
         server' = [server EXCEPT ![i] = s], BuiltInOrder(s),
         UNCHANGED <<definition, authority, changes, invocation>>
  PROVE  AdmissionInv'
<1>1. AdmissionTypes'
  BY DEF AdmissionInv, AdmissionTypes
<1>2. LiveKept
  BY DEF AdmissionInv, AdmissionTypes, LiveKept
<1>3. \A j \in Servers : BuiltInOrder(server[j])'
  <2> SUFFICES ASSUME NEW j \in Servers PROVE BuiltInOrder(server[j])'
    OBVIOUS
  <2>1. BuiltInOrder(server'[j])
    <3>1. server'[j] = IF j = i THEN s ELSE server[j]
      BY DEF AdmissionInv, AdmissionTypes
    <3> QED BY <3>1 DEF AdmissionInv
  <2> QED BY <2>1 DEF BuiltInOrder, InFull, Sorted, Listing
<1> QED BY <1>1, <1>2, <1>3, CallsKept DEF AdmissionInv

(* What a server lists once it has resolved, and nothing asked for yet.     *)
LEMMA ResolvedInOrder ==
  ASSUME AdmissionTypes, NEW i \in Servers, NEW s, NEW provided \in Seq(Capability),
         s \in ServerStates, s.phase = "admitting", s.provided = provided, s.admitted = {},
         s.left = Resolved(i, provided).left, s.answered = definition.providers, InFull(s)
  PROVE  BuiltInOrder(s)
<1>1. server[i] \in ServerStates
  BY DEF AdmissionTypes
<1>2. s.left = {k \in DOMAIN Listing(provided) : Visible(Listing(provided)[k], definition.rules)}
  BY <1>1 DEF Resolved, ServerStates
<1>3. Sorted(s)
  BY <1>2 DEF Sorted
<1> QED BY <1>3 DEF BuiltInOrder

(* Without providers a server has resolved; otherwise it begins to ask them. *)
LEMMA BuildStep ==
  ASSUME AdmissionInv, NEW i \in Servers, NEW who \in Principals \cup {Absent}, Build(i, who)
  PROVE  AdmissionInv'
<1> DEFINE s == server'[i]
<1>1. server[i] = NoServer /\ definition.providers \in Nat
  BY AdmissionAssumption DEF AdmissionInv, AdmissionTypes, BuiltInOrder, Build
<1>2. <<>> \in Seq(Capability)
  OBVIOUS
<1>3. /\ NoServer \in ServerStates /\ NoServer.phase = "idle" /\ NoServer.provided = <<>>
      /\ NoServer.answered = 0 /\ NoServer.threw = FALSE
      /\ NoServer.left = {} /\ NoServer.admitted = {}
  BY <1>1, <1>2 DEF AdmissionInv, AdmissionTypes, NoServer
<1> HIDE DEF NoServer
<1>4. CASE definition.providers = 0
  <2> DEFINE left == {k \in DOMAIN Listing(<<>>) : Visible(Listing(<<>>)[k], definition.rules)}
             t == [NoServer EXCEPT !.phase = "admitting", !.provided = <<>>, !.left = left,
                                   !.who = who]
  <2>1. Resolved(i, <<>>) = [NoServer EXCEPT !.phase = "admitting", !.provided = <<>>,
                                             !.left = left]
    BY <1>1 DEF Resolved
  <2>2. left \subseteq Nat
    BY <1>2, Listed DEF AdmissionInv, AdmissionTypes
  <2> HIDE DEF left
  <2>3. Resolved(i, <<>>).left = left /\ [Resolved(i, <<>>) EXCEPT !.who = who] = t
    BY <1>3, <2>1 DEF ServerStates
  <2>4. server' = [server EXCEPT ![i] = t]
    BY <1>4, <2>3 DEF Build
  <2>5. /\ t \in ServerStates /\ t.phase = "admitting" /\ t.provided = <<>> /\ t.admitted = {}
        /\ t.left = left /\ t.answered = 0 /\ t.threw = FALSE
    BY <1>2, <1>3, <2>2 DEF ServerStates
  <2> HIDE DEF t
  <2>6. InFull(t)
    BY <2>5 DEF InFull
  <2>7. BuiltInOrder(t)
    BY <1>2, <1>4, <2>3, <2>5, <2>6, ResolvedInOrder DEF AdmissionInv
  <2> QED BY <1>1, <1>3, <2>4, <2>5, <2>7, BuildsOne DEF Build
<1>5. CASE definition.providers # 0
  <2> DEFINE t == [NoServer EXCEPT !.phase = "resolving", !.who = who]
  <2>1. server' = [server EXCEPT ![i] = t]
    BY <1>1, <1>5 DEF Build
  <2>2. /\ t \in ServerStates /\ t.phase = "resolving" /\ t.provided = <<>> /\ t.admitted = {}
        /\ t.answered = 0 /\ t.threw = FALSE
    BY <1>3 DEF ServerStates
  <2> HIDE DEF t
  <2>3. BuiltInOrder(t)
    BY <1>1, <1>5, <2>2 DEF BuiltInOrder, InFull
  <2> QED BY <1>1, <1>3, <2>1, <2>2, <2>3, BuildsOne DEF Build
<1> QED BY <1>4, <1>5

(* What a provider answers is refused, or added to what others answered.    *)
LEMMA ProvideStep ==
  ASSUME AdmissionInv, NEW i \in Servers, NEW contribution \in Contributions,
         Provide(i, contribution)
  PROVE  AdmissionInv'
<1> DEFINE provided == IF contribution = Absent THEN server[i].provided
                       ELSE server[i].provided \o contribution
           answered == server[i].answered + 1
           threw == server[i].threw \/ contribution = Absent
<1>1. /\ server[i] \in ServerStates /\ server[i].phase = "resolving" /\ definition.providers \in Nat
      /\ InFull(server[i]) /\ server[i].admitted = {} /\ server[i].answered < definition.providers
  BY AdmissionAssumption DEF AdmissionInv, AdmissionTypes, BuiltInOrder, Provide
<1>2. CASE \/ Refused(contribution)
           \/ ~(answered < definition.providers) /\ ~Unique(Listing(provided))
  <2> DEFINE t == [server[i] EXCEPT !.phase = "failed"]
  <2>1. server' = [server EXCEPT ![i] = t]
    BY <1>2 DEF Provide
  <2>2. t \in ServerStates /\ t.phase = "failed"
    BY <1>1 DEF ServerStates
  <2>3. BuiltInOrder(t)
    BY <2>2 DEF BuiltInOrder
  <2> HIDE DEF t
  <2> QED BY <1>1, <2>1, <2>2, <2>3, BuildsOne DEF Provide
<1>3. CASE ~Refused(contribution)
  <2>1. /\ contribution \in Seq(Capability) /\ contribution # Absent
        /\ \A j \in DOMAIN contribution : contribution[j].kind \in definition.declared
    BY <1>3, AdmissionAssumption DEF Refused
  <2>2. provided = server[i].provided \o contribution /\ provided \in Seq(Capability)
    BY <1>1, <2>1, ConcatProperties DEF ServerStates
  <2>3. answered \in Nat /\ (answered < definition.providers \/ answered = definition.providers)
    BY <1>1 DEF ServerStates
  <2>4. \A j \in DOMAIN provided : provided[j].kind \in definition.declared
    <3> DEFINE held == server[i].provided
    <3>1. held \in Seq(Capability) /\ \A j \in DOMAIN held : held[j].kind \in definition.declared
      BY <1>1 DEF ServerStates, InFull
    <3> HIDE DEF held
    <3> SUFFICES ASSUME NEW j \in 1 .. Len(held) + Len(contribution)
                 PROVE  (held \o contribution)[j].kind \in definition.declared
      BY <2>1, <2>2, <3>1, ConcatProperties DEF held
    <3>2. Len(held) \in Nat /\ Len(contribution) \in Nat
      BY <2>1, <3>1
    <3>3. CASE j <= Len(held)
      <4>1. (held \o contribution)[j] = held[j] /\ j \in DOMAIN held
        BY <2>1, <3>1, <3>2, <3>3, ConcatProperties
      <4> QED BY <3>1, <4>1
    <3>4. CASE j > Len(held)
      <4>1. /\ (held \o contribution)[j] = contribution[j - Len(held)]
            /\ j - Len(held) \in DOMAIN contribution
        BY <2>1, <3>1, <3>2, <3>4, ConcatProperties
      <4> QED BY <2>1, <4>1
    <3> QED BY <3>2, <3>3, <3>4
  <2> HIDE DEF provided, answered, threw
  <2>5. CASE answered < definition.providers
    <3> DEFINE t == [server[i] EXCEPT !.provided = provided, !.answered = answered]
    <3>0. server[i].threw = FALSE /\ threw = FALSE
      BY <1>1, <2>1 DEF ServerStates, InFull, threw
    <3>1. server' = [server EXCEPT ![i] = [server[i] EXCEPT !.provided = provided,
                      !.answered = answered, !.threw = threw]]
      BY <1>3, <2>5 DEF Provide, provided, answered, threw
    <3>2. [server[i] EXCEPT !.provided = provided, !.answered = answered,
                            !.threw = threw] = t
      BY <1>1, <2>1, <3>0 DEF ServerStates
    <3>3. t \in ServerStates /\ t.phase = "resolving" /\ t.provided = provided /\ t.admitted = {}
          /\ t.answered = answered /\ ~t.threw
      BY <1>1, <2>2, <2>3, <3>0 DEF ServerStates
    <3> HIDE DEF t
    <3>4. BuiltInOrder(t)
      BY <2>4, <2>5, <3>3 DEF BuiltInOrder, InFull
    <3> QED BY <1>1, <3>1, <3>2, <3>3, <3>4, BuildsOne DEF Provide
  <2>6. CASE ~(answered < definition.providers) /\ Unique(Listing(provided))
    <3> DEFINE left == {k \in DOMAIN Listing(provided) :
                          Visible(Listing(provided)[k], definition.rules)}
               t == [server[i] EXCEPT !.phase = "admitting", !.provided = provided, !.left = left,
                                      !.answered = answered]
    <3>0. server[i].threw = FALSE /\ threw = FALSE
      BY <1>1, <2>1 DEF ServerStates, InFull, threw
    <3>1. server' = [server EXCEPT ![i] = [Resolved(i, provided) EXCEPT !.answered = answered,
                                              !.threw = threw]]
      BY <1>3, <2>6 DEF Provide, provided, answered, threw
    <3>2. left \subseteq Nat
      BY <2>2, Listed DEF AdmissionInv, AdmissionTypes
    <3>3. Resolved(i, provided).left = left
      BY <1>1 DEF Resolved, ServerStates
    <3>4. [Resolved(i, provided) EXCEPT !.answered = answered, !.threw = threw]
            = t
      <4> HIDE DEF left
      <4>1. Resolved(i, provided) = [server[i] EXCEPT !.phase = "admitting", !.provided = provided,
                                                      !.left = left]
        BY DEF Resolved, left
      <4> QED BY <1>1, <2>1, <3>0, <4>1 DEF ServerStates
    <3> HIDE DEF left
    <3>5. t \in ServerStates /\ t.phase = "admitting" /\ t.provided = provided /\ t.admitted = {}
          /\ t.answered = answered /\ ~t.threw /\ t.left = left
      BY <1>1, <2>2, <2>3, <3>0, <3>2 DEF ServerStates
    <3> HIDE DEF t
    <3>6. InFull(t)
      BY <2>4, <3>5 DEF InFull
    <3>7. BuiltInOrder(t)
      BY <2>2, <2>3, <2>6, <3>3, <3>5, <3>6, ResolvedInOrder DEF AdmissionInv
    <3> QED BY <1>1, <3>1, <3>4, <3>5, <3>7, BuildsOne DEF Provide
  <2> QED BY <1>2, <2>5, <2>6 DEF provided, answered
<1> QED BY <1>2, <1>3

(* The check of one capability: a request without a principal passes what   *)
(* allows it.                                                               *)
LEMMA AdmitStep ==
  ASSUME AdmissionInv, NEW i \in Servers, NEW k \in server[i].left, NEW throws \in BOOLEAN,
         Admit(i, k, throws)
  PROVE  AdmissionInv'
<1> DEFINE offers == Listing(server[i].provided)
           auth == offers[k].auth
           allowed == auth = Absent \/ EvaluateAuth(auth, Holder(server[i].who))
           admitted == IF allowed THEN server[i].admitted \cup {k} ELSE server[i].admitted
<1>1. /\ server[i] \in ServerStates /\ server[i].phase = "admitting"
      /\ InFull(server[i]) /\ Sorted(server[i])
  BY DEF AdmissionInv, AdmissionTypes, BuiltInOrder, Admit
<1>2. CASE throws
  <2> DEFINE t == [server[i] EXCEPT !.phase = "failed"]
  <2>1. server' = [server EXCEPT ![i] = t]
    BY <1>2 DEF Admit
  <2>2. t \in ServerStates /\ t.phase = "failed"
    BY <1>1 DEF ServerStates
  <2>3. BuiltInOrder(t)
    BY <2>2 DEF BuiltInOrder
  <2> HIDE DEF t
  <2> QED BY <1>1, <2>1, <2>2, <2>3, BuildsOne DEF Admit
<1>3. CASE ~throws
  <2> DEFINE t == [server[i] EXCEPT !.left = server[i].left \ {k}, !.admitted = admitted]
  <2>1. server' = [server EXCEPT ![i] = t]
    BY <1>3 DEF Admit
  <2>2. admitted \subseteq server[i].admitted \cup {k} /\ server[i].admitted \subseteq admitted
    OBVIOUS
  <2>3. k \in admitted \/ (k \notin admitted /\ auth # Absent)
    OBVIOUS
  <2>4. k \in admitted \ server[i].admitted /\ server[i].who = Absent /\ auth # Absent =>
          auth.anonymous = "allow"
    BY DEF EvaluateAuth, Holder
  <2> HIDE DEF admitted
  <2>5. /\ t \in ServerStates /\ t.phase = "admitting" /\ t.provided = server[i].provided
        /\ t.who = server[i].who /\ t.threw = server[i].threw /\ t.answered = server[i].answered
        /\ t.left = server[i].left \ {k} /\ t.admitted = admitted
    BY <1>1, <2>2 DEF ServerStates
  <2> HIDE DEF t
  <2>6. InFull(t)
    BY <1>1, <2>5 DEF InFull
  <2>7. Sorted(t)
    <3>1. \A j \in t.left \cup t.admitted : j \in server[i].left \cup server[i].admitted
      BY <2>2, <2>5
    <3>2. \A j \in server[i].left \cup server[i].admitted :
            j \in t.left \cup t.admitted \/ (j = k /\ auth # Absent)
      BY <2>2, <2>3, <2>5
    <3>3. \A j \in t.admitted : j \in server[i].admitted \/ (j = k /\ k \notin server[i].admitted)
      BY <2>2, <2>5
    <3> HIDE DEF offers
    <3>4. offers = Listing(t.provided)
      BY <2>5 DEF offers
    <3>5. \A j \in t.admitted :
            t.who = Absent /\ offers[j].auth # Absent => offers[j].auth.anonymous = "allow"
      BY <1>1, <2>4, <2>5, <3>3 DEF Sorted, offers
    <3>6. \A j \in DOMAIN offers : Visible(offers[j], definition.rules) /\ offers[j].auth = Absent
                                     => j \in t.left \cup t.admitted
      BY <1>1, <3>2 DEF Sorted, offers
    <3>7. \A j \in t.left \cup t.admitted :
            j \in DOMAIN offers /\ Visible(offers[j], definition.rules)
      BY <1>1, <3>1 DEF Sorted, offers
    <3>8. t.answered = definition.providers
      BY <1>1, <2>5 DEF Sorted
    <3> QED BY <3>4, <3>5, <3>6, <3>7, <3>8 DEF Sorted
  <2>8. BuiltInOrder(t)
    BY <2>5, <2>6, <2>7 DEF BuiltInOrder
  <2> QED BY <1>1, <2>1, <2>5, <2>8, BuildsOne DEF Admit
<1> QED BY <1>2, <1>3

(* A server goes live when every capability was asked for.                  *)
LEMMA InstallStep ==
  ASSUME AdmissionInv, NEW i \in Servers, Install(i)
  PROVE  AdmissionInv'
<1> DEFINE t == [server[i] EXCEPT !.phase = "live"]
<1>1. /\ server[i] \in ServerStates /\ server[i].phase = "admitting" /\ server[i].left = {}
      /\ InFull(server[i]) /\ Sorted(server[i])
  BY DEF AdmissionInv, AdmissionTypes, BuiltInOrder, Install
<1>2. server' = [server EXCEPT ![i] = t]
  BY DEF Install
<1>3. /\ t \in ServerStates /\ t.phase = "live" /\ t.provided = server[i].provided
      /\ t.who = server[i].who /\ t.threw = server[i].threw /\ t.answered = server[i].answered
      /\ t.left = server[i].left /\ t.admitted = server[i].admitted
  BY <1>1 DEF ServerStates
<1> HIDE DEF t
<1>4. InFull(t) /\ Sorted(t)
  BY <1>1, <1>3 DEF InFull, Sorted
<1>5. BuiltInOrder(t)
  BY <1>1, <1>3, <1>4 DEF BuiltInOrder
<1> QED BY <1>1, <1>2, <1>3, <1>5, BuildsOne DEF Install

(* A step of one call, on a server that stays as it is.                     *)
LEMMA CallsOne ==
  ASSUME AdmissionInv, NEW c \in Invocations, NEW v \in CallStates, CalledInOrder(v),
         invocation' = [invocation EXCEPT ![c] = v],
         UNCHANGED <<definition, authority, changes, server>>
  PROVE  AdmissionInv'
<1>1. AdmissionTypes'
  BY DEF AdmissionInv, AdmissionTypes
<1>2. \A i \in Servers : BuiltInOrder(server[i])'
  BY DEF AdmissionInv, BuiltInOrder, InFull, Sorted, Listing
<1>3. \A d \in Invocations : CalledInOrder(invocation[d])'
  <2> SUFFICES ASSUME NEW d \in Invocations PROVE CalledInOrder(invocation[d])'
    OBVIOUS
  <2>1. CalledInOrder(invocation'[d])
    <3>1. invocation'[d] = IF d = c THEN v ELSE invocation[d]
      BY DEF AdmissionInv, AdmissionTypes
    <3> QED BY <3>1 DEF AdmissionInv
  <2> QED BY <2>1 DEF CalledInOrder, Principal, PassesNow, Holder
<1> QED BY <1>1, <1>2, <1>3 DEF AdmissionInv

(* A call is of what its server admitted, and asks for nothing or is asked. *)
LEMMA InvokedStep ==
  ASSUME AdmissionInv, NEW c \in Invocations, NEW i \in Servers,
         NEW who \in Principals \cup {Absent}, NEW k \in server[i].admitted, Invoked(c, i, k, who)
  PROVE  AdmissionInv'
<1> DEFINE capability == Listing(server[i].provided)[k]
           new == [phase |-> Enters(capability), server |-> i, capability |-> capability,
                   who |-> who, at |-> 1, ever |-> FALSE]
           v == [new EXCEPT !.ever = PassesNow(new, authority)]
<1>1. /\ server[i] \in ServerStates /\ server[i].phase = "live"
      /\ Sorted(server[i]) /\ definition \in ServedDefinitions
  BY DEF AdmissionInv, AdmissionTypes, BuiltInOrder, Invoked
<1>2. /\ capability \in Capability
      /\ server[i].who = Absent /\ capability.auth # Absent => capability.auth.anonymous = "allow"
  BY <1>1, Listed DEF Sorted, ServerStates
<1>3. /\ Enters(capability) \in {"own", "extra", "delivered"}
      /\ Enters(capability) = "own" => definition.authorize /\ capability.auth # Absent
      /\ Enters(capability) = "extra" => definition.authorize /\ capability.auth = Absent
      /\ Enters(capability) = "delivered" /\ definition.authorize =>
            capability.auth = Absent /\ definition.extras = <<>>
  BY DEF Enters
<1> HIDE DEF capability
<1>4. invocation' = [invocation EXCEPT ![c] = v]
  BY DEF Invoked, capability
<1>5. capability.auth = Absent => PassesNow(new, authority)
  BY DEF PassesNow
<1>6. PassesNow(new, authority) \in BOOLEAN
  BY DEF PassesNow
<1>7. v = [phase |-> Enters(capability), server |-> i, capability |-> capability,
           who |-> who, at |-> 1, ever |-> PassesNow(new, authority)]
  OBVIOUS
<1>8. PassesNow(v, authority) <=> PassesNow(new, authority)
  BY <1>7 DEF PassesNow
<1> HIDE DEF new
<1>9. v \in CallStates
  BY <1>2, <1>3, <1>6, <1>7 DEF CallStates
<1>10. CalledInOrder(v)
  <2> HIDE DEF v
  <2>1. /\ v.phase = Enters(capability) /\ v.server = i /\ v.capability = capability
        /\ v.ever = PassesNow(new, authority)
    BY <1>7
  <2> QED BY <1>1, <1>2, <1>3, <1>5, <1>8, <2>1 DEF CalledInOrder
<1> HIDE DEF v
<1> QED BY <1>4, <1>9, <1>10, CallsOne DEF Invoked

(* What its own check lets on passes now.                                   *)
LEMMA EnforceOwnStep ==
  ASSUME AdmissionInv, NEW c \in Invocations, EnforceOwn(c)
  PROVE  AdmissionInv'
<1> DEFINE old == invocation[c]
           auth == old.capability.auth
           verdict == Enforce(auth.check, auth.anonymous, Caller(old))
           phase == Outcome(verdict, IF definition.extras = <<>> THEN "delivered" ELSE "extra")
           v == [old EXCEPT !.phase = phase]
<1>1. old \in CallStates /\ old.phase = "own" /\ CalledInOrder(old)
  BY DEF AdmissionInv, AdmissionTypes, EnforceOwn
<1>2. invocation' = [invocation EXCEPT ![c] = v]
  BY DEF EnforceOwn
<1>3. /\ phase \in {"extra", "delivered", "step-up", "forbidden"}
      /\ phase \in {"extra", "delivered"} => verdict.allowed
      /\ phase = "delivered" => definition.extras = <<>>
  BY DEF Outcome
<1>4. verdict.allowed => PassesNow(old, authority)
  <2>1. Caller(old) = Asks(Principal(old.server, old.who), authority)
    BY HolderAsks DEF Caller
  <2>2. verdict.allowed => EvaluateAuth(auth, Asks(Principal(old.server, old.who), authority))
    BY <2>1 DEF Enforce, EvaluateAuth
  <2> QED BY <2>2, PassesAsks
<1> HIDE DEF phase, verdict
<1>5. /\ v \in CallStates /\ v.phase = phase /\ v.server = old.server /\ v.who = old.who
      /\ v.capability = old.capability /\ v.ever = old.ever
  BY <1>1, <1>3 DEF CallStates
<1> HIDE DEF v
<1>6. CalledInOrder(v)
  BY <1>1, <1>3, <1>4, <1>5 DEF CalledInOrder
<1> QED BY <1>2, <1>5, <1>6, CallsOne DEF EnforceOwn

(* What an extra check lets on has a principal.                             *)
LEMMA EnforceExtraStep ==
  ASSUME AdmissionInv, NEW c \in Invocations, EnforceExtra(c)
  PROVE  AdmissionInv'
<1> DEFINE old == invocation[c]
           last == old.at = Len(definition.extras)
           verdict == Enforce(definition.extras[old.at], "deny", Caller(old))
           phase == Outcome(verdict, IF last THEN "delivered" ELSE "extra")
           at == IF last THEN old.at ELSE old.at + 1
           v == [old EXCEPT !.phase = phase, !.at = at]
<1>1. old \in CallStates /\ old.phase = "extra" /\ CalledInOrder(old)
  BY DEF AdmissionInv, AdmissionTypes, EnforceExtra
<1>2. invocation' = [invocation EXCEPT ![c] = v]
  BY <1>1 DEF EnforceExtra, AdmissionInv, AdmissionTypes, CallStates
<1>3. /\ phase \in {"extra", "delivered", "step-up", "forbidden"}
      /\ phase = "delivered" => verdict.allowed
  BY DEF Outcome
<1>4. verdict.allowed => Principal(old.server, old.who) # Absent
  BY DEF Enforce, Caller, Holder
<1>5. at \in Nat
  BY <1>1 DEF CallStates
<1> HIDE DEF phase, verdict, at
<1>6. /\ v \in CallStates /\ v.phase = phase /\ v.server = old.server /\ v.who = old.who
      /\ v.capability = old.capability /\ v.ever = old.ever
  BY <1>1, <1>3, <1>5 DEF CallStates
<1> HIDE DEF v
<1>7. CalledInOrder(v)
  BY <1>1, <1>3, <1>4, <1>6 DEF CalledInOrder
<1> QED BY <1>2, <1>6, <1>7, CallsOne DEF EnforceExtra

(* A change of authority is noted by the calls that are under way.          *)
LEMMA ChangeStep ==
  ASSUME AdmissionInv, NEW p \in Principals, NEW answer \in Answers, Change(p, answer)
  PROVE  AdmissionInv'
<1>1. \A c \in Invocations : LET old == invocation[c] IN
        invocation'[c] = IF old.phase \in {"own", "extra"}
                         THEN [old EXCEPT !.ever = @ \/ PassesNow(old, authority')] ELSE old
  BY DEF Change
<1>2. AdmissionTypes'
  <2>1. authority' \in [Principals -> Answers] /\ changes' \in 0 .. MaxChanges
    BY AdmissionAssumption DEF Change, AdmissionInv, AdmissionTypes
  <2>2. invocation' \in [Invocations -> CallStates]
    <3> SUFFICES ASSUME NEW c \in Invocations PROVE invocation'[c] \in CallStates
      BY DEF Change
    <3>1. invocation[c] \in CallStates
      BY DEF AdmissionInv, AdmissionTypes
    <3> DEFINE ever == invocation[c].ever \/ PassesNow(invocation[c], authority')
    <3>2. ever \in BOOLEAN
      OBVIOUS
    <3> HIDE DEF ever
    <3>3. [invocation[c] EXCEPT !.ever = ever] \in CallStates
      BY <3>1, <3>2 DEF CallStates
    <3> QED BY <1>1, <3>1, <3>3 DEF ever
  <2> QED BY <2>1, <2>2 DEF AdmissionInv, AdmissionTypes, Change
<1>3. \A i \in Servers : BuiltInOrder(server[i])'
  BY DEF AdmissionInv, BuiltInOrder, InFull, Sorted, Listing, Change
<1>4. \A c \in Invocations : CalledInOrder(invocation[c])'
  <2> SUFFICES ASSUME NEW c \in Invocations PROVE CalledInOrder(invocation[c])'
    OBVIOUS
  <2> DEFINE old == invocation[c]
             ever == old.ever \/ PassesNow(old, authority')
             t == [old EXCEPT !.ever = ever]
  <2>1. old \in CallStates /\ CalledInOrder(old)
    BY DEF AdmissionInv, AdmissionTypes
  <2>2. server' = server /\ definition' = definition
    BY DEF Change
  <2>3. CASE old.phase \notin {"own", "extra"}
    <3>1. invocation'[c] = old
      BY <1>1, <2>3
    <3> QED BY <2>1, <2>2, <2>3, <3>1 DEF CalledInOrder, Principal
  <2>4. CASE old.phase \in {"own", "extra"}
    <3>1. invocation'[c] = t
      BY <1>1, <2>4
    <3> HIDE DEF ever
    <3>2. /\ t.phase = old.phase /\ t.server = old.server /\ t.who = old.who
          /\ t.capability = old.capability /\ t.ever = ever
      BY <2>1 DEF CallStates
    <3> HIDE DEF t
    <3>3. PassesNow(invocation[c], authority)' => PassesNow(old, authority')
      <4>1. PassesNow(invocation[c], authority)' <=>
              \/ t.capability.auth = Absent
              \/ EvaluateAuth(t.capability.auth, Asks(Principal(t.server, t.who), authority'))
        BY <2>2, <3>1, PassesAsks DEF PassesNow, Principal, Holder
      <4> QED BY <3>2, <4>1, PassesAsks
    <3>4. PassesNow(invocation[c], authority)' => ever
      BY <3>3 DEF ever
    <3>5. old.ever => ever
      BY DEF ever
    <3> QED BY <2>1, <2>2, <2>4, <3>1, <3>2, <3>4, <3>5 DEF CalledInOrder
  <2> QED BY <2>3, <2>4
<1> QED BY <1>2, <1>3, <1>4 DEF AdmissionInv

(* Every step keeps the order.                                              *)
LEMMA AdmissionStep == AdmissionInv /\ [AdmissionNext]_admissionVars => AdmissionInv'
<1> SUFFICES ASSUME AdmissionInv, [AdmissionNext]_admissionVars PROVE AdmissionInv'
  OBVIOUS
<1>1. CASE UNCHANGED admissionVars
  <2>1. AdmissionTypes'
    BY <1>1 DEF admissionVars, AdmissionInv, AdmissionTypes
  <2>2. \A i \in Servers : BuiltInOrder(server[i])'
    BY <1>1 DEF admissionVars, AdmissionInv, BuiltInOrder, InFull, Sorted, Listing
  <2>3. \A c \in Invocations : CalledInOrder(invocation[c])'
    BY <1>1, CallsKept DEF admissionVars, LiveKept
  <2> QED BY <2>1, <2>2, <2>3 DEF AdmissionInv
<1>2. CASE AdmissionNext
  BY <1>2, BuildStep, ProvideStep, AdmitStep, InstallStep, InvokedStep, EnforceOwnStep,
     EnforceExtraStep, ChangeStep DEF AdmissionNext
<1> QED BY <1>1, <1>2

(* Who may see and call what, for any number of servers, calls, principals  *)
(* and providers, whatever the checks say of whom and however often the host *)
(* changes its mind: under authorize() a call that is delivered passed the  *)
(* auth of its capability since it was made, an anonymous one reaches what  *)
(* lets it, and a server lists what every provider answered and the rules   *)
(* let through.                                                             *)
THEOREM AdmissionAlwaysHolds == AdmissionSpec => []AdmissionHolds
<1>1. AdmissionInv => AdmissionHolds
  <2> SUFFICES ASSUME AdmissionInv PROVE AdmissionHolds
    OBVIOUS
  <2>1. AdmissionTypeOK
    BY DEF AdmissionInv, AdmissionTypes, AdmissionTypeOK, ServerStates, CallStates, CalledInOrder
  <2>2. CallsReEnforced
    BY DEF AdmissionInv, CalledInOrder, CallsReEnforced
  <2>3. AnonymousIsDenied
    BY DEF AdmissionInv, CalledInOrder, AnonymousIsDenied
  <2>4. FailsClosed
    <3> SUFFICES ASSUME NEW i \in Servers, server[i].phase = "live"
                 PROVE  LET s == server[i]
                            offers == Listing(s.provided)
                        IN  /\ s.answered = definition.providers /\ ~s.threw
                            /\ \A k \in DOMAIN offers :
                                  Visible(offers[k], definition.rules) /\ offers[k].auth = Absent
                                    => k \in s.admitted
                            /\ \A k \in s.admitted : Visible(offers[k], definition.rules)
                            /\ \A j \in DOMAIN s.provided :
                                  s.provided[j].kind \in definition.declared
      BY DEF FailsClosed
    <3> QED BY DEF AdmissionInv, BuiltInOrder, InFull, Sorted
  <2> QED BY <2>1, <2>2, <2>3, <2>4 DEF AdmissionHolds
<1> QED BY <1>1, AdmissionBegins, AdmissionStep, PTL DEF AdmissionSpec
=============================================================================
