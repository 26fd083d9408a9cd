------------------------- MODULE GenerationService -------------------------
(* What the connection manager promises of sessions, whatever it does to   *)
(* keep the promise.  A session comes up with a generation of its own,     *)
(* greater than all before it, and an entry has one at a time.  Operations *)
(* start only on a session that is up.  A session that is up may break     *)
(* under its operations; one that is taken down on purpose is not closed   *)
(* before they are over, and if it cannot be closed it is stuck: it takes  *)
(* no operation until it has been taken down again.                        *)
EXTENDS Naturals

CONSTANTS Entries, Ops

VARIABLES
  state,  \* of the session of each entry
  gen,    \* the generation of the session of each entry
  user,   \* the generation each operation runs on, 0 when it runs on none
  last    \* the greatest generation so far

vars == <<state, gen, user, last>>

Users(e) == {o \in Ops : user[o] = gen[e]}

Init ==
  /\ state = [e \in Entries |-> "none"]
  /\ gen = [e \in Entries |-> 0]
  /\ user = [o \in Ops |-> 0]
  /\ last = 0

Open(e) ==
  /\ state[e] = "none"
  /\ last' = last + 1
  /\ gen' = [gen EXCEPT ![e] = last + 1]
  /\ state' = [state EXCEPT ![e] = "up"]
  /\ UNCHANGED user

Admit(o, e) ==
  /\ user[o] = 0 /\ state[e] = "up"
  /\ user' = [user EXCEPT ![o] = gen[e]]
  /\ UNCHANGED <<state, gen, last>>

Finish(o) ==
  /\ user[o] # 0
  /\ user' = [user EXCEPT ![o] = 0]
  /\ UNCHANGED <<state, gen, last>>

(* From here on the sessions of S take no operation; close() takes down    *)
(* every session of the manager in one step.                               *)
Drain(S) ==
  /\ \A e \in S : state[e] \in {"up", "stuck"}
  /\ state' = [e \in Entries |-> IF e \in S THEN "draining" ELSE state[e]]
  /\ UNCHANGED <<gen, user, last>>

Closes(e, to) ==
  /\ state[e] = "draining" /\ Users(e) = {}
  /\ state' = [state EXCEPT ![e] = to]
  /\ UNCHANGED <<gen, user, last>>

Break(e) ==
  /\ state[e] \in {"up", "stuck"}
  /\ state' = [state EXCEPT ![e] = "none"]
  /\ UNCHANGED <<gen, user, last>>

(* An operation learns that its session is gone, and ends with it.         *)
Expire(o, e) ==
  /\ user[o] = gen[e] /\ state[e] = "up"
  /\ state' = [state EXCEPT ![e] = "none"]
  /\ user' = [user EXCEPT ![o] = 0]
  /\ UNCHANGED <<gen, last>>

Next ==
  \/ \E S \in SUBSET Entries : Drain(S)
  \/ \E e \in Entries :
       \/ Open(e) \/ Break(e)
       \/ \E to \in {"none", "stuck"} : Closes(e, to)
       \/ \E o \in Ops : Admit(o, e) \/ Expire(o, e)
  \/ \E o \in Ops : Finish(o)

Spec == Init /\ [][Next]_vars
=============================================================================
