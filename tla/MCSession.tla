----------------------------- MODULE MCSession -----------------------------
(* What ConnectionManager does around the lifecycle of its connections, for *)
(* TLC: the listen stream of a modern session, the upkeep of a legacy one   *)
(* (its claims, and its probes and errors) and reconcile().  The parts are  *)
(* independent of each other; a behaviour is one of one part.               *)
EXTENDS ListenStream, SessionUpkeep, Reconcile, TLC

CONSTANTS
    Parts,        \* the parts to explore
    k1, k2, u1, u2, o1, o2, t1, h1, h2

VARIABLE part

partVars == <<part, vars, upkeepVars, reconcileVars>>

SessionInit ==
    /\ part \in Parts
    /\ Init /\ UpkeepInit /\ ReconcileInit
    /\ part # "reconcile" =>
         /\ Registered = {}
         /\ \A h \in Hosts, i \in Ids : diff[h].want[i] = Absent

(* The claims of a session depend on its errors and on its probes only      *)
(* through the losses, which may happen at any time; the probes and the     *)
(* errors not at all on its claims.                                         *)
ClaimsAlone ==
    /\ made' <= 2 /\ raised' = raised /\ seen' = seen
    /\ \A t \in Transports \ {t1} : watch'[t] = 0
    /\ \A s \in Attempts : ~probe'[s].flying
ProbesAlone == op' = op

SessionNext ==
    /\ UNCHANGED part
    /\ \/ part = "listen" /\ Next /\ UNCHANGED <<upkeepVars, reconcileVars>>
       \/ part = "claims" /\ UpkeepNext /\ ClaimsAlone /\ UNCHANGED <<vars, reconcileVars>>
       \/ part = "probes" /\ UpkeepNext /\ ProbesAlone /\ UNCHANGED <<vars, reconcileVars>>
       \/ part = "reconcile" /\ ReconcileNext /\ UNCHANGED <<vars, upkeepVars>>

SessionSpec == SessionInit /\ [][SessionNext]_partVars

-----------------------------------------------------------------------------
(* Every call has a URI of its own.                                         *)
OwnUri == (k1 :> Kinds \X {u1}) @@ (k2 :> Kinds \X {u2})

(* The callers with their URIs are alike, and so are the operations and the *)
(* hosts: swapping all of them at once is a symmetry.                       *)
Firsts == {k1, u1, h1, o1}
Twin == [x \in Firsts |-> CASE x = k1 -> k2 [] x = u1 -> u2 [] x = h1 -> h2 [] x = o1 -> o2]
Twins == {f \in Permutations({k1, k2, u1, u2, h1, h2, o1, o2}) :
             \/ \A x \in Firsts : f[x] = x /\ f[Twin[x]] = Twin[x]
             \/ \A x \in Firsts : f[x] = Twin[x] /\ f[Twin[x]] = x}
=============================================================================
