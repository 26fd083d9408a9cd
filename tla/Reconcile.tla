----------------------------- MODULE Reconcile -----------------------------
(* reconcile() of src/client/manager.ts over remove() and replace(), called *)
(* by several hosts at once, while connections come up, fail and park in an *)
(* authorization.  The lifecycle is reduced to what decides which step of   *)
(* the diff lands: the phase, the removal and the definition of an entry.   *)
EXTENDS Naturals, FiniteSets

CONSTANTS
    Ids,
    Defs,     \* definitions, up to sameDefinition
    Hosts,    \* concurrent calls of reconcile()
    Absent,
    MaxEntries, \* bound: registrations
    MaxHostConnects  \* bound: connects of the hosts besides reconcile()

ASSUME ReconcileAssumption ==
    /\ MaxEntries \in Nat \ {0} /\ MaxHostConnects \in Nat
    /\ Absent \notin Ids \cup Defs

VARIABLES
    entry,    \* per id [def, phase, number, removing], or Gone
    diff,     \* per host, the state of its reconcile() and the diff so far
    numbers,  \* entries made so far
    connects  \* connects made besides reconcile()

reconcileVars == <<entry, diff, numbers, connects>>

Gone == [def |-> Absent, phase |-> "down", number |-> 0, removing |-> FALSE]
EntryPhases == {"down", "connecting", "up", "parked", "stuck"}
Stages == {"next", "removing", "queued", "settling", "closing", "swapped", "reconnecting"}

ReconcileTypeOK ==
    /\ entry \in [Ids -> [def : Defs \cup {Absent}, phase : EntryPhases, number : 0 .. MaxEntries,
                          removing : BOOLEAN]]
    /\ diff \in [Hosts -> [phase : {"idle", "running", "done"}, want : [Ids -> Defs \cup {Absent}],
                           drop : SUBSET Ids, apply : SUBSET Ids,
                           id : Ids \cup {Absent}, number : 0 .. MaxEntries, stage : Stages,
                           live : BOOLEAN, added : SUBSET Ids, replaced : SUBSET Ids,
                           unchanged : SUBSET Ids, removed : SUBSET Ids, failed : SUBSET Ids]]
    /\ numbers \in 0 .. MaxEntries /\ connects \in 0 .. MaxHostConnects

Registered == {i \in Ids : entry[i] # Gone}
ReconcileInit ==
    /\ \E have \in [Ids -> Defs \cup {Absent}] :
         entry = [i \in Ids |-> IF have[i] = Absent THEN Gone
                                ELSE [def |-> have[i], phase |-> "down", number |-> 1, removing |-> FALSE]]
    /\ \E want \in [Hosts -> [Ids -> Defs \cup {Absent}]] :
         diff = [h \in Hosts |-> [phase |-> "idle", want |-> want[h], drop |-> {}, apply |-> {},
                                  id |-> Absent, number |-> 0, stage |-> "next", live |-> FALSE,
                                  added |-> {}, replaced |-> {}, unchanged |-> {},
                                  removed |-> {}, failed |-> {}]]
    /\ numbers = 1 /\ connects = 0

Onwards(c) == [c EXCEPT !.id = Absent, !.stage = "next"]
Failed_Silently(c) == Onwards(c)
Failed(c) == [Onwards(c) EXCEPT !.failed = @ \cup {c.id}]
Replaced(c) == [Onwards(c) EXCEPT !.replaced = @ \cup {c.id}]
At(h, stage) == diff[h].phase = "running" /\ diff[h].stage = stage
Becomes(h, c) == diff' = [diff EXCEPT ![h] = c]
Landed_AnyVerdict(h) == TRUE
Landed(h) == entry[diff[h].id].def = diff[h].want[diff[h].id]
Still(h) == entry[diff[h].id] # Gone /\ entry[diff[h].id].number = diff[h].number
-----------------------------------------------------------------------------
(* What happens to a connection besides: a host connects it, a connect ends.*)
HostConnects(i) ==
    /\ i \in Registered /\ entry[i].phase = "down" /\ ~entry[i].removing
    /\ connects < MaxHostConnects
    /\ connects' = connects + 1
    /\ entry' = [entry EXCEPT ![i].phase = "connecting"]
    /\ UNCHANGED <<diff, numbers>>
(* The swap that waits for the connect counts whether it comes up, fails or *)
(* parks: the definition has landed.  A connect that fails and is not       *)
(* cleaned up ("stuck") reports what a close before the swap does.          *)
Counted_Up(h, phase) == phase = "up"
Counted(h, phase) == phase = "up" \/ (phase \in {"down", "parked"} /\ Landed(h))
ConnectSettles(i, phase) ==
    /\ entry[i].phase = "connecting"
    /\ entry' = [entry EXCEPT ![i].phase = phase]
    /\ diff' = [h \in Hosts |-> IF At(h, "reconnecting") /\ diff[h].id = i /\ Still(h)
                                THEN IF Counted(h, phase) THEN Replaced(diff[h]) ELSE Failed(diff[h])
                                ELSE diff[h]]
    /\ UNCHANGED <<numbers, connects>>
-----------------------------------------------------------------------------
Begin(h) ==
    /\ diff[h].phase = "idle"
    /\ LET wanted == {i \in Ids : diff[h].want[i] # Absent}
       IN Becomes(h, [diff[h] EXCEPT !.phase = "running", !.drop = Registered \ wanted,
                                     !.apply = wanted])
    /\ UNCHANGED <<entry, numbers, connects>>

(* Removals come first.  remove() joins a removal under way, and throws when*)
(* somebody else has removed the id since the keys were read.               *)
Remove(h, i) ==
    /\ At(h, "next") /\ i \in diff[h].drop
    /\ LET c == [diff[h] EXCEPT !.drop = @ \ {i}, !.id = i, !.number = entry[i].number]
       IN IF entry[i] = Gone
          THEN Becomes(h, Failed(c)) /\ UNCHANGED entry
          ELSE /\ Becomes(h, [c EXCEPT !.stage = "removing"])
               /\ entry' = [entry EXCEPT ![i].removing = TRUE]
    /\ UNCHANGED <<numbers, connects>>

Waiting(i) == {h \in Hosts : At(h, "removing") /\ diff[h].id = i}
RemoveLands(i) ==
    /\ entry[i].removing /\ entry[i].phase # "connecting"
    /\ entry' = [entry EXCEPT ![i] = Gone]
    /\ diff' = [h \in Hosts |-> IF h \in Waiting(i)
                                THEN [Onwards(diff[h]) EXCEPT !.removed = @ \cup {i}] ELSE diff[h]]
    /\ UNCHANGED <<numbers, connects>>
RemoveFails(i) ==
    /\ entry[i].removing /\ entry[i].phase \in {"up", "parked", "stuck"}
    /\ entry' = [entry EXCEPT ![i].phase = "stuck", ![i].removing = FALSE]
    /\ diff' = [h \in Hosts |-> IF h \in Waiting(i) THEN Failed(diff[h]) ELSE diff[h]]
    /\ UNCHANGED <<numbers, connects>>

(* The definitions, once nothing is left to remove.                         *)
Apply(h, i) ==
    /\ At(h, "next") /\ diff[h].drop = {} /\ i \in diff[h].apply
    /\ LET c == [diff[h] EXCEPT !.apply = @ \ {i}, !.id = i, !.number = entry[i].number]
           same == entry[i].def = c.want[i]
       IN IF entry[i] = Gone
          THEN /\ numbers < MaxEntries /\ numbers' = numbers + 1
               /\ entry' = [entry EXCEPT ![i] = [Gone EXCEPT !.def = c.want[i], !.number = numbers + 1]]
               /\ Becomes(h, [Onwards(c) EXCEPT !.added = @ \cup {i}])
          ELSE /\ Becomes(h, IF same THEN [Onwards(c) EXCEPT !.unchanged = @ \cup {i}]
                             ELSE [c EXCEPT !.stage = "queued"])
               /\ UNCHANGED <<entry, numbers>>
    /\ UNCHANGED connects

(* replace(): swaps of one entry serialize, and each refuses what it must   *)
(* not swap.  A refusal says CONNECTION_AUTHORIZING of a parked connection, *)
(* which is also a verdict of the reconnect after a swap that landed.       *)
Swapping(h, i) == \E g \in Hosts \ {h} :
    /\ diff[g].id = i /\ diff[g].number = diff[h].number
    /\ diff[g].stage \in {"settling", "closing", "swapped", "reconnecting"}
Refused(h) == LET i == diff[h].id IN
    Becomes(h, IF entry[i].phase = "parked" /\ Landed(h) THEN Replaced(diff[h]) ELSE Failed(diff[h]))
Replace(h) ==
    /\ At(h, "queued") /\ ~Swapping(h, diff[h].id)
    /\ LET i == diff[h].id IN
       IF ~Still(h) THEN Becomes(h, Failed(diff[h]))
       ELSE IF entry[i].def = diff[h].want[i] THEN Becomes(h, Replaced(diff[h]))
       ELSE IF entry[i].phase \in {"stuck", "parked"} THEN Refused(h)
       ELSE IF entry[i].removing THEN Becomes(h, Failed(diff[h]))
       ELSE Becomes(h, [diff[h] EXCEPT !.stage = "settling"])
    /\ UNCHANGED <<entry, numbers, connects>>

(* A connect under way is awaited first; what it left decides the rest.     *)
Settle(h) ==
    /\ At(h, "settling")
    /\ Still(h) => entry[diff[h].id].phase # "connecting"
    /\ LET up == Still(h) /\ entry[diff[h].id].phase = "up"
           down == ~Still(h) \/ entry[diff[h].id].phase = "down"
       IN Becomes(h, [diff[h] EXCEPT !.live = up, !.stage = IF down THEN "swapped" ELSE "closing"])
    /\ UNCHANGED <<entry, numbers, connects>>
SwapCloses(h, fails) ==
    /\ At(h, "closing")
    /\ IF ~Still(h) THEN ~fails /\ Becomes(h, Failed(diff[h])) /\ UNCHANGED entry
       ELSE /\ entry[diff[h].id].phase # "connecting"
            /\ fails => entry[diff[h].id].phase # "down"
            /\ Becomes(h, IF fails THEN Failed(diff[h]) ELSE [diff[h] EXCEPT !.stage = "swapped"])
            /\ entry' = [entry EXCEPT ![diff[h].id].phase = IF fails THEN "stuck" ELSE "down"]
    /\ UNCHANGED <<numbers, connects>>

(* What connect() makes of the swapped entry is the end of a swap.          *)
Swap(h) ==
    /\ At(h, "swapped")
    /\ LET c == diff[h]
           e == entry[c.id]
           idle == ~c.live \/ e.phase = "parked" \/ (e.phase = "up" /\ ~e.removing)
           refused == c.live /\ e.phase # "parked" /\ (e.phase = "stuck" \/ e.removing)
       IN IF ~Still(h) THEN Becomes(h, Failed(c)) /\ UNCHANGED entry
          ELSE /\ entry' = [entry EXCEPT ![c.id].def = c.want[c.id],
                                         ![c.id].phase = IF ~idle /\ ~refused THEN "connecting" ELSE @]
               /\ Becomes(h, CASE idle -> Replaced(c)
                               [] refused -> Failed(c)
                               [] OTHER -> [c EXCEPT !.stage = "reconnecting"])
    /\ UNCHANGED <<numbers, connects>>

End(h) ==
    /\ At(h, "next") /\ diff[h].drop = {} /\ diff[h].apply = {}
    /\ Becomes(h, [diff[h] EXCEPT !.phase = "done"])
    /\ UNCHANGED <<entry, numbers, connects>>

ReconcileNext ==
    \/ \E i \in Ids : HostConnects(i) \/ RemoveLands(i) \/ RemoveFails(i)
    \/ \E i \in Ids, phase \in {"up", "down", "parked", "stuck"} : ConnectSettles(i, phase)
    \/ \E h \in Hosts : Begin(h) \/ Replace(h) \/ Settle(h) \/ Swap(h) \/ End(h)
    \/ \E h \in Hosts, i \in Ids : Remove(h, i) \/ Apply(h, i)
    \/ \E h \in Hosts, fails \in BOOLEAN : SwapCloses(h, fails)

ReconcileSpec == ReconcileInit /\ [][ReconcileNext]_reconcileVars
-----------------------------------------------------------------------------
(* A reconcile() that has ended gave every id one verdict.                  *)
EveryIdAnswered ==
    \A h \in Hosts : diff[h].phase = "done" =>
       /\ {i \in Ids : diff[h].want[i] # Absent}
            \subseteq diff[h].added \cup diff[h].replaced \cup diff[h].unchanged \cup diff[h].failed
       /\ diff[h].added \cap diff[h].replaced = {} /\ diff[h].removed \cap diff[h].failed = {}

(* Hosts that ask for the same set, all of which have ended with nothing    *)
(* refused, leave exactly that set registered.                              *)
SameWants == \A g, h \in Hosts : diff[g].want = diff[h].want
SameLeft ==
    SameWants /\ (\A h \in Hosts : diff[h].phase = "done" /\ diff[h].failed = {}) =>
        \A h \in Hosts, i \in Ids : entry[i].def = diff[h].want[i]

(* At the moment an id is counted as added, replaced or unchanged it is     *)
(* registered with the wanted definition, and the entry that is counted as  *)
(* removed is gone; a swap that was refused is never counted.               *)
CountedAsLanded ==
    \A h \in Hosts, i \in Ids :
        LET c == diff[h]
            d == diff'[h]
        IN /\ i \in (d.added \ c.added) \cup (d.replaced \ c.replaced) \cup (d.unchanged \ c.unchanged)
                => entry'[i].def = c.want[i]
           /\ i \in d.removed \ c.removed => entry'[i].number # c.number

(* And the other way: the swap of an id that is counted as failed has not   *)
(* landed, unless the connection is quarantined, replaced by another entry  *)
(* or about to be removed.                                                  *)
FailedHere(h, i) ==
    /\ i \in diff'[h].failed \ diff[h].failed /\ diff[h].want[i] # Absent
    /\ entry'[i].number = diff[h].number /\ ~entry'[i].removing
LandedIsCounted ==
    \A h \in Hosts, i \in Ids :
        FailedHere(h, i) => entry'[i].def # diff[h].want[i] \/ entry'[i].phase = "stuck"

(* The diff a reconcile() reports is the diff that landed, but for a swap   *)
(* whose connection is quarantined, and it is of every id; typed.           *)
DiffIsTrue ==
    /\ [](ReconcileTypeOK /\ EveryIdAnswered /\ SameLeft)
    /\ [][CountedAsLanded /\ LandedIsCounted]_reconcileVars

(* "it happens before the swap, so nothing was replaced"                    *)
(* (manager.ts:3481-3482), of a close that failed.  False: the reconnect after a *)
(* swap fails with the same code when its cleanup fails, and the swap is    *)
(* missing from `replaced`.                                                 *)
FailedIsNotReplaced ==
    [][\A h \in Hosts, i \in Ids : FailedHere(h, i) => entry'[i].def # diff[h].want[i]]_reconcileVars

(* manager.ts:675-676: a swap of a connection that is parked in an          *)
(* authorization is refused.  Violated: the phase is read before the connect*)
(* in flight is awaited, and that connect may park.                         *)
RoundsAreKept == [][\A h \in Hosts :
    (At(h, "closing") /\ ~At(h, "closing")') =>
        ~(Still(h) /\ entry[diff[h].id].phase = "parked" /\ entry'[diff[h].id].phase = "down")]_reconcileVars
=============================================================================
