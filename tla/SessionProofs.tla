--------------------------- MODULE SessionProofs ---------------------------
(* Proofs about SessionUpkeep: the probes of a usable session go on, its    *)
(* errors are reported once, and the subscriptions it claims are served.    *)
(* And about SessionAdoption: which attempt resumes the session recorded    *)
(* for its host, once, and how a generation is closed.  About Reconcile:    *)
(* the diff that reconcile() reports is the one that landed.  And about     *)
(* DefinitionEdits: what a definition is tells it from one that does more.  *)
EXTENDS SessionUpkeep, SessionAdoption, Reconcile, DefinitionEdits, FiniteSetTheorems, TLAPS

(* One session at a time, the one of the last attempt; only an attempt      *)
(* under way, a session or a failed close has one.                          *)
LifeOrder ==
    /\ session # 0 => session = made
    /\ phase \in {"offline", "connecting", "failed"} => session = 0
    /\ phase = "connecting" => made # 0
    /\ phase = "online" => session # 0 /\ keepalive = session

(* The window of errors is that of the attempt under way; a transport       *)
(* points at it or at none, and only the transport of that attempt does.    *)
WindowOrder ==
    /\ scope # 0 => scope = made /\ ended < made
    /\ scope = 0 => ended = made
    /\ \A t \in Transports :
          watch[t] # 0 => watch[t] = scope /\ wired[scope] = t

(* What was raised in its window was seen there, and published once.        *)
ReportOrder ==
    \A s \in Attempts :
        /\ raised[s] = seen[s]
        /\ \A e \in Errors : published[s][e] = IF e \in seen[s] THEN 1 ELSE 0

(* The calls under way are about different things, of this session while it *)
(* is usable; what the server took it has, until it takes the opposite.     *)
CallOrder ==
    /\ phase = "connecting" => Active = {}
    /\ \A o \in Active :
          /\ op[o].session \in Attempts /\ op[o].what \in Resources \cup {Level}
          /\ op[o].kind \in KindsOf(op[o].what)
          /\ phase = "online" => op[o].session = session
          /\ op[o].at = "taken" /\ op[o].kind # "unsubscribe"
                => op[o].what \in served[op[o].session]
          /\ \A other \in Active : op[other].what = op[o].what => other = o

(* All of it.                                                               *)
UpkeepInv ==
    /\ UpkeepTypeOK /\ LifeOrder /\ ChainUnbroken
    /\ WindowOrder /\ ReportOrder
    /\ CallOrder /\ SubscriptionsServed
(* An error raised by the client or the last transport of attempt s.        *)
RaisedBy(s, e, hearings) ==
    /\ \/ s <= made /\ hearings = Count(Hears(s))
       \/ \E t \in Transports :
             LastUser(t, s) /\ hearings = Count(Hears(watch[t])) + Count(Hears(s))
    /\ Raise(e, s, hearings)

(* A KeepaliveState, and a call.                                            *)
ProbeState == [timer : BOOLEAN, flying : BOOLEAN, failures : 0 .. Threshold]
CallState == [at : {"idle", "asked", "taken", "kept", "dropped"},
              kind : {"none", "subscribe", "unsubscribe", "level"},
              what : Resources \cup {Level, None}, session : 0 .. MaxAttempts]
-----------------------------------------------------------------------------
(* Stopping the timer of the last KeepaliveState.                           *)
LEMMA StoppedTyped ==
    ASSUME probe \in [Attempts -> ProbeState], keepalive \in 0 .. MaxAttempts
    PROVE  Stopped(probe) \in [Attempts -> ProbeState]
BY UpkeepAssumption DEF Stopped, ProbeState, Attempts

(* An error heard up to twice is reported once if it is new, else never.    *)
LEMMA ReportsIs ==
    ASSUME NEW e, NEW hearings \in 0 .. 2
    PROVE  Reports(e, hearings) =
             IF hearings = 0 \/ scope = 0 \/ e \in seen[scope] THEN 0 ELSE 1
<1> DEFINE H == {h \in 1 .. hearings : Fresh(e, h - 1)}
<1>1. CASE hearings = 0 \/ scope = 0
  BY <1>1 DEF Reports
<1>2. CASE hearings # 0 /\ scope # 0 /\ e \in seen[scope]
  <2>1. H = {}
    BY <1>2 DEF Fresh
  <2>2. Cardinality({}) = 0
    BY FS_EmptySet
  <2> QED BY <1>2, <2>1, <2>2 DEF Reports
<1>3. CASE hearings # 0 /\ scope # 0 /\ e \notin seen[scope]
  <2>1. H = {1}
    <3>1. \A h \in 1 .. hearings : Fresh(e, h - 1) <=> h = 1
      BY <1>3 DEF Fresh
    <3> QED BY <1>3, <3>1
  <2>2. Cardinality({1}) = 1
    BY FS_Singleton
  <2> QED BY <1>3, <2>1, <2>2 DEF Reports
<1> QED BY <1>1, <1>2, <1>3

(* What a step of the errors does to the windows and to what they report.   *)
LEMMA WindowClosed ==
    ASSUME UpkeepTypeOK, LifeOrder, WindowOrder, WindowCloses
    PROVE  /\ scope' = 0 /\ ended' = made /\ watch' = [t \in Transports |-> 0]
           /\ UNCHANGED <<wired, seen, published, raised>>
<1>1. \A t \in Transports : watch[t] = scope \/ watch[t] = 0
  BY DEF WindowOrder, UpkeepTypeOK
<1>2. Unpointed = [t \in Transports |-> 0]
  BY <1>1 DEF Unpointed
<1> QED BY <1>2 DEF WindowCloses

(* Types.                                                                   *)
LEMMA InitTyped == UpkeepInit => UpkeepTypeOK
<1> SUFFICES ASSUME UpkeepInit PROVE UpkeepTypeOK
  OBVIOUS
<1>1. probe \in [Attempts -> [timer : BOOLEAN, flying : BOOLEAN, failures : 0 .. Threshold]]
  BY UpkeepAssumption DEF UpkeepInit, NoProbe
<1>2. published \in [Attempts -> [Errors -> 0 .. 2]]
  BY DEF UpkeepInit
<1>3. op \in [Ops -> CallState]
  BY UpkeepAssumption DEF UpkeepInit, NoCall, CallState
<1>4. /\ watch \in [Transports -> 0 .. MaxAttempts] /\ wired \in [Attempts -> Transports \cup {None}]
      /\ seen \in [Attempts -> SUBSET Errors] /\ raised \in [Attempts -> SUBSET Errors]
      /\ served \in [Attempts -> SUBSET (Resources \cup {Level})]
  <2>1. watch \in [Transports -> 0 .. MaxAttempts]
    <3>1. 0 \in 0 .. MaxAttempts
      BY UpkeepAssumption
    <3>2. watch = [t \in Transports |-> 0]
      BY DEF UpkeepInit
    <3> QED BY <3>1, <3>2
  <2>2. wired \in [Attempts -> Transports \cup {None}]
    BY DEF UpkeepInit
  <2>3. seen \in [Attempts -> SUBSET Errors] /\ raised \in [Attempts -> SUBSET Errors]
    BY DEF UpkeepInit
  <2>4. served \in [Attempts -> SUBSET (Resources \cup {Level})]
    BY DEF UpkeepInit
  <2> QED BY <2>1, <2>2, <2>3, <2>4
<1>5. /\ phase \in {"offline", "connecting", "online", "draining", "quarantined", "failed"}
      /\ session \in 0 .. MaxAttempts /\ made \in 0 .. MaxAttempts
      /\ leaving \in BOOLEAN /\ level \in BOOLEAN
      /\ keepalive \in 0 .. MaxAttempts /\ scope \in 0 .. MaxAttempts
      /\ ended \in 0 .. MaxAttempts /\ subs \subseteq Resources /\ unsure \subseteq Resources
  <2>1. 0 \in 0 .. MaxAttempts
    BY UpkeepAssumption
  <2>2. /\ phase = "offline" /\ session = 0 /\ made = 0 /\ leaving = FALSE /\ level = FALSE
        /\ keepalive = 0 /\ scope = 0 /\ ended = 0 /\ subs = {} /\ unsure = {}
    BY DEF UpkeepInit
  <2> QED BY <2>1, <2>2
<1> QED BY <1>1, <1>2, <1>3, <1>4, <1>5 DEF UpkeepTypeOK, CallState

(* It holds before the first connect.                                       *)
LEMMA InitInv == UpkeepInit => UpkeepInv
<1> SUFFICES ASSUME UpkeepInit PROVE UpkeepInv
  OBVIOUS
<1>1. UpkeepTypeOK
  BY InitTyped
<1>2. LifeOrder /\ ChainUnbroken
  BY DEF UpkeepInit, LifeOrder, ChainUnbroken
<1>3. WindowOrder /\ ReportOrder
  BY DEF UpkeepInit, WindowOrder, ReportOrder
<1>4. Active = {}
  BY DEF UpkeepInit, Active, NoCall
<1>5. CallOrder /\ SubscriptionsServed
  BY <1>4 DEF UpkeepInit, CallOrder, SubscriptionsServed
<1> QED BY <1>1, <1>2, <1>3, <1>5 DEF UpkeepInv
-----------------------------------------------------------------------------
(* The lifecycle.                                                           *)
LEMMA LoseKeeps ==
    ASSUME UpkeepTypeOK, LifeOrder, WindowOrder, Lose
    PROVE  /\ phase' = "failed" /\ session' = 0 /\ made' = made /\ leaving' = leaving
           /\ keepalive' = keepalive
           /\ scope' = 0 /\ ended' = made /\ watch' = [t \in Transports |-> 0]
           /\ UNCHANGED <<wired, seen, published, raised>>
<1>1. WindowCloses
  BY DEF Lose
<1> QED BY <1>1, WindowClosed DEF Lose

(* Each step keeps the order of the lifecycle.                              *)
LEMMA LifeStep ==
    ASSUME UpkeepInv, [UpkeepNext]_upkeepVars
    PROVE  LifeOrder'
<1> USE DEF UpkeepInv, LifeOrder
<1>1. UNCHANGED <<phase, session, made, keepalive>> => LifeOrder'
  OBVIOUS
<1>2. ASSUME NEW t \in Transports, ConnectStarts(t) PROVE LifeOrder'
  BY <1>2 DEF ConnectStarts, UpkeepTypeOK
<1>3. CASE Adopt
  BY <1>3 DEF Adopt
<1>4. CASE ConnectFails
  BY <1>4 DEF ConnectFails, probeVars
<1>5. CASE TransportCloses
  BY <1>5, LoseKeeps DEF TransportCloses
<1>6. CASE Drain
  BY <1>6 DEF Drain
<1>7. CASE CloseDone
  BY <1>7 DEF CloseDone
<1>8. CASE CloseFails
  BY <1>8 DEF CloseFails
<1>9. ASSUME NEW s \in Attempts, ProbeFails(s) PROVE LifeOrder'
  <2>1. Lose \/ UNCHANGED <<phase, session, made, keepalive>>
    BY <1>9 DEF ProbeFails, lifeVars
  <2> QED BY <1>1, <2>1, LoseKeeps
<1>10. ASSUME NEW o \in Ops, NEW expired \in BOOLEAN, Fails(o, expired) PROVE LifeOrder'
  <2>1. Lose \/ UNCHANGED <<phase, session, made, keepalive>>
    BY <1>10 DEF Fails, lifeVars, probeVars
  <2> QED BY <1>1, <2>1, LoseKeeps
<1>11. CASE DisconnectAsked
  BY <1>1, <1>11 DEF DisconnectAsked, probeVars
<1>12. ASSUME NEW s \in Attempts, ProbeFires(s) \/ ProbeAnswered(s) PROVE LifeOrder'
  BY <1>1, <1>12 DEF ProbeFires, ProbeAnswered, lifeVars
<1>13. ASSUME NEW e, NEW s, NEW hearings, Raise(e, s, hearings) PROVE LifeOrder'
  BY <1>1, <1>13 DEF Raise, lifeVars, probeVars
<1>14. ASSUME NEW o \in Ops, ServerTakes(o) \/ Answered(o) PROVE LifeOrder'
  BY <1>1, <1>14 DEF ServerTakes, Answered, lifeVars, probeVars
<1>15. ASSUME NEW o, NEW what, NEW kind, Ask(o, what, kind) PROVE LifeOrder'
  BY <1>1, <1>15 DEF Ask, lifeVars, probeVars
<1>16. CASE UNCHANGED upkeepVars
  BY <1>1, <1>16 DEF upkeepVars, lifeVars, probeVars
<1> QED
  <2> HIDE DEF UpkeepInv, LifeOrder
  <2> QED BY <1>2, <1>3, <1>4, <1>5, <1>6, <1>7, <1>8, <1>9, <1>10, <1>11, <1>12, <1>13, <1>14,
          <1>15, <1>16 DEF UpkeepNext, TransportRaises, ClientRaises

(* Every step is one of these.                                              *)
LEMMA StepCases ==
    ASSUME [UpkeepNext]_upkeepVars
    PROVE  \/ \E t \in Transports : ConnectStarts(t)
           \/ Adopt \/ ConnectFails \/ TransportCloses
           \/ DisconnectAsked \/ Drain \/ CloseDone \/ CloseFails
           \/ \E s \in Attempts : ProbeFires(s) \/ ProbeAnswered(s) \/ ProbeFails(s)
           \/ \E s \in Attempts, e \in Errors, hearings \in 0 .. 2 : RaisedBy(s, e, hearings)
           \/ \E o \in Ops, what \in Resources \cup {Level} :
                 \E kind \in KindsOf(what) : Ask(o, what, kind)
           \/ \E o \in Ops : ServerTakes(o) \/ Answered(o)
           \/ \E o \in Ops, expired \in BOOLEAN : Fails(o, expired)
           \/ UNCHANGED upkeepVars
<1>1. \A holds \in BOOLEAN : Count(holds) \in 0 .. 1
  BY DEF Count
<1>2. ASSUME NEW t \in Transports, NEW e \in Errors, TransportRaises(t, e)
      PROVE  \E s \in Attempts, err \in Errors, hearings \in 0 .. 2 : RaisedBy(s, err, hearings)
  <2>1. PICK s \in Attempts : LastUser(t, s) /\ Raise(e, s, Count(Hears(watch[t])) + Count(Hears(s)))
    BY <1>2 DEF TransportRaises
  <2>2. Count(Hears(watch[t])) + Count(Hears(s)) \in 0 .. 2
    BY DEF Count
  <2> QED BY <2>1, <2>2 DEF RaisedBy
<1>3. ASSUME NEW s \in Attempts, NEW e \in Errors, ClientRaises(s, e)
      PROVE  \E x \in Attempts, err \in Errors, hearings \in 0 .. 2 : RaisedBy(x, err, hearings)
  <2>1. Raise(e, s, Count(Hears(s))) /\ Count(Hears(s)) \in 0 .. 2
    BY <1>3 DEF ClientRaises, Count
  <2> QED BY <1>3, <2>1 DEF RaisedBy, ClientRaises
<1> QED BY <1>2, <1>3 DEF UpkeepNext
-----------------------------------------------------------------------------
(* The error windows.                                                       *)
LEMMA RaiseIs ==
    ASSUME UpkeepTypeOK, LifeOrder, WindowOrder, ReportOrder,
           NEW s \in Attempts, NEW e \in Errors, NEW hearings \in 0 .. 2, RaisedBy(s, e, hearings)
    PROVE  /\ UNCHANGED <<lifeVars, probeVars, scope, watch, wired, ended, claimVars>>
           /\ \/ UNCHANGED <<seen, published, raised>>
              \/ /\ scope = s
                 /\ seen' = [seen EXCEPT ![s] = @ \cup {e}]
                 /\ raised' = [raised EXCEPT ![s] = @ \cup {e}]
                 /\ published' = [published EXCEPT ![s][e] = IF e \in seen[s] THEN @ ELSE 1]
<1>1. UNCHANGED <<lifeVars, probeVars, scope, watch, wired, ended, claimVars>>
  BY DEF RaisedBy, Raise
<1>2. s \in Nat \ {0} /\ s <= made
  BY UpkeepAssumption DEF RaisedBy, LastUser, Users, Attempts, UpkeepTypeOK
<1>3. hearings # 0 => scope = s
  <2>1. Count(Hears(s)) # 0 => scope = s
    BY DEF Count, Hears
  <2>2. ASSUME NEW t \in Transports, LastUser(t, s), Count(Hears(watch[t])) # 0
        PROVE  scope = s
    <3>1. watch[t] = scope /\ scope # 0 /\ wired[scope] = t /\ scope = made
      BY <2>2 DEF Count, Hears, WindowOrder, UpkeepTypeOK
    <3>2. made \in Users(t)
      BY <3>1, UpkeepAssumption DEF Users, UpkeepTypeOK
    <3> QED BY <1>2, <2>2, <3>1, <3>2 DEF LastUser, UpkeepTypeOK
  <2> QED BY <2>1, <2>2 DEF RaisedBy
<1>4. scope = s => hearings # 0
  <2>1. scope = s => Count(Hears(s)) = 1
    BY <1>2 DEF Count, Hears
  <2>2. \A t \in Transports : Count(Hears(watch[t])) \in 0 .. 1
    BY DEF Count
  <2> QED BY <2>1, <2>2 DEF RaisedBy
<1>5. Open(s) <=> scope = s
  BY <1>2 DEF Open, WindowOrder, UpkeepTypeOK
<1>6. CASE scope = s
  <2>1. hearings # 0 /\ scope # 0 /\ Open(s)
    BY <1>2, <1>4, <1>5, <1>6
  <2>2. /\ seen' = [seen EXCEPT ![s] = @ \cup {e}]
        /\ published' = [published EXCEPT ![s][e] = @ + Reports(e, hearings)]
        /\ raised' = [raised EXCEPT ![s] = @ \cup {e}]
    BY <1>6, <2>1 DEF RaisedBy, Raise, Heard
  <2>3. published[s][e] + Reports(e, hearings) = IF e \in seen[s] THEN published[s][e] ELSE 1
    BY <1>6, <2>1, ReportsIs DEF ReportOrder
  <2> QED BY <1>1, <1>6, <2>2, <2>3
<1>7. CASE scope # s
  <2>1. hearings = 0 /\ ~Open(s)
    BY <1>3, <1>5, <1>7
  <2>2. UNCHANGED <<seen, published, raised>>
    BY <2>1 DEF RaisedBy, Raise, Heard
  <2> QED BY <1>1, <2>2
<1> QED BY <1>6, <1>7

(* Of the error windows a step opens one, closes one or hears an error in   *)
(* one.                                                                     *)
LEMMA ErrorCases ==
    ASSUME UpkeepInv, [UpkeepNext]_upkeepVars
    PROVE  \/ UNCHANGED errorVars /\ made' = made
           \/ \E t \in Transports : ConnectStarts(t)
           \/ /\ scope' = 0 /\ ended' = made /\ made' = made
              /\ watch' = [t \in Transports |-> 0]
              /\ UNCHANGED <<wired, seen, published, raised>>
           \/ \E s \in Attempts, e \in Errors, hearings \in 0 .. 2 : RaisedBy(s, e, hearings)
<1> USE DEF UpkeepInv
<1>1. CASE WindowCloses /\ made' = made
  BY <1>1, WindowClosed
<1>2. CASE Lose
  BY <1>2, LoseKeeps
<1>3. CASE Adopt \/ DisconnectAsked \/ Drain
  BY <1>3 DEF Adopt, DisconnectAsked, Drain
<1>4. CASE ConnectFails \/ CloseDone \/ CloseFails
  BY <1>1, <1>4 DEF ConnectFails, CloseDone, CloseFails
<1>5. CASE TransportCloses
  BY <1>2, <1>5 DEF TransportCloses
<1>6. ASSUME NEW s \in Attempts, ProbeFires(s) \/ ProbeAnswered(s)
      PROVE  UNCHANGED errorVars /\ made' = made
  BY <1>6 DEF ProbeFires, ProbeAnswered, lifeVars
<1>7. ASSUME NEW s \in Attempts, ProbeFails(s)
      PROVE  (UNCHANGED errorVars /\ made' = made) \/ Lose
  BY <1>7 DEF ProbeFails, lifeVars
<1>8. ASSUME NEW o, NEW what, NEW kind, Ask(o, what, kind)
      PROVE  UNCHANGED errorVars /\ made' = made
  BY <1>8 DEF Ask, lifeVars
<1>9. ASSUME NEW o \in Ops, ServerTakes(o) \/ Answered(o)
      PROVE  UNCHANGED errorVars /\ made' = made
  BY <1>9 DEF ServerTakes, Answered, lifeVars
<1>10. ASSUME NEW o \in Ops, NEW expired \in BOOLEAN, Fails(o, expired)
       PROVE  (UNCHANGED errorVars /\ made' = made) \/ Lose
  BY <1>10 DEF Fails, lifeVars
<1>11. CASE UNCHANGED upkeepVars
  BY <1>11 DEF upkeepVars, lifeVars
<1> HIDE DEF UpkeepInv
<1> QED BY StepCases, <1>2, <1>3, <1>4, <1>5, <1>6, <1>7, <1>8, <1>9, <1>10, <1>11

(* Each step keeps the windows, and what was reported in them.              *)
LEMMA WindowStep ==
    ASSUME UpkeepInv, [UpkeepNext]_upkeepVars
    PROVE  WindowOrder' /\ ReportOrder'
<1>0. UpkeepTypeOK /\ LifeOrder /\ WindowOrder /\ ReportOrder
  BY DEF UpkeepInv
<1>1. CASE UNCHANGED errorVars /\ made' = made
  BY <1>0, <1>1 DEF errorVars, WindowOrder, ReportOrder
<1>2. ASSUME NEW t \in Transports, ConnectStarts(t)
      PROVE  WindowOrder' /\ ReportOrder'
  <2>1. /\ made' = made + 1 /\ scope' = made + 1 /\ ended' = ended
        /\ wired' = [wired EXCEPT ![made + 1] = t]
        /\ watch' = [Unpointed EXCEPT ![t] = made + 1]
        /\ UNCHANGED <<seen, published, raised>>
    BY <1>2 DEF ConnectStarts
  <2>2. made + 1 \in Attempts
    BY <1>0, <1>2, UpkeepAssumption DEF ConnectStarts, Attempts, UpkeepTypeOK
  <2>3. Unpointed = [x \in Transports |-> 0]
    BY <1>0 DEF Unpointed, WindowOrder, UpkeepTypeOK
  <2>4. \A x \in Transports : watch'[x] # 0 => x = t /\ watch'[x] = made + 1
    BY <2>1, <2>3
  <2>5. wired'[made + 1] = t
    BY <1>0, <2>1, <2>2 DEF UpkeepTypeOK
  <2>6. WindowOrder'
    BY <1>0, <2>1, <2>2, <2>4, <2>5 DEF WindowOrder, UpkeepTypeOK, Attempts
  <2> QED BY <1>0, <2>1, <2>6 DEF ReportOrder
<1>3. CASE /\ scope' = 0 /\ ended' = made /\ made' = made
           /\ watch' = [t \in Transports |-> 0]
           /\ UNCHANGED <<wired, seen, published, raised>>
  BY <1>0, <1>3 DEF WindowOrder, ReportOrder
<1>4. ASSUME NEW s \in Attempts, NEW e \in Errors, NEW hearings \in 0 .. 2, RaisedBy(s, e, hearings)
      PROVE  WindowOrder' /\ ReportOrder'
  <2>1. UNCHANGED <<lifeVars, scope, watch, wired, ended>>
    BY <1>0, <1>4, RaiseIs
  <2>2. WindowOrder'
    BY <1>0, <2>1 DEF WindowOrder, lifeVars
  <2>3. CASE UNCHANGED <<seen, published, raised>>
    BY <1>0, <2>2, <2>3 DEF ReportOrder
  <2>4. CASE /\ seen' = [seen EXCEPT ![s] = @ \cup {e}]
             /\ raised' = [raised EXCEPT ![s] = @ \cup {e}]
             /\ published' = [published EXCEPT ![s][e] = IF e \in seen[s] THEN @ ELSE 1]
    <3>1. \A x \in Attempts : raised'[x] = seen'[x]
      BY <1>0, <2>4 DEF ReportOrder, UpkeepTypeOK
    <3>2. ASSUME NEW x \in Attempts, NEW y \in Errors
          PROVE  published'[x][y] = IF y \in seen'[x] THEN 1 ELSE 0
      <4>1. published'[x][y] = IF x = s /\ y = e /\ e \notin seen[s] THEN 1 ELSE published[x][y]
        BY <1>0, <2>4 DEF UpkeepTypeOK
      <4>2. seen'[x] = IF x = s THEN seen[s] \cup {e} ELSE seen[x]
        BY <1>0, <2>4 DEF UpkeepTypeOK
      <4>3. published[x][y] = IF y \in seen[x] THEN 1 ELSE 0
        BY <1>0 DEF ReportOrder
      <4> QED BY <4>1, <4>2, <4>3
    <3> QED BY <2>2, <3>1, <3>2 DEF ReportOrder
  <2> QED BY <1>0, <1>4, <2>3, <2>4, RaiseIs
<1> QED BY <1>1, <1>2, <1>3, <1>4, ErrorCases
-----------------------------------------------------------------------------
(* Each step keeps the chain of probes.                                     *)
LEMMA ProbeStep ==
    ASSUME UpkeepInv, [UpkeepNext]_upkeepVars
    PROVE  probe' \in [Attempts -> ProbeState] /\ ChainUnbroken'
<1>0. /\ UpkeepTypeOK /\ LifeOrder /\ WindowOrder /\ ChainUnbroken
      /\ probe \in [Attempts -> ProbeState]
  BY DEF UpkeepInv, ChainUnbroken, UpkeepTypeOK, ProbeState
<1>1. Stopped(probe) \in [Attempts -> ProbeState]
  BY <1>0, StoppedTyped DEF UpkeepTypeOK
<1>2. CASE UNCHANGED <<probe, session>> /\ (phase' = phase \/ phase' # "online") /\ (leaving' = leaving \/ leaving')
  BY <1>0, <1>2 DEF ChainUnbroken
<1>3. CASE probe' = Stopped(probe) /\ phase' # "online"
  BY <1>1, <1>3 DEF ChainUnbroken
<1>4. ASSUME NEW t \in Transports, ConnectStarts(t)
      PROVE  probe' \in [Attempts -> ProbeState] /\ ChainUnbroken'
  BY <1>3, <1>4 DEF ConnectStarts
<1>5. CASE Adopt
  <2>1. made \in Attempts
    BY <1>0, <1>5 DEF Adopt, LifeOrder, UpkeepTypeOK, Attempts
  <2>2. [NoProbe EXCEPT !.timer = TRUE] \in ProbeState /\ [NoProbe EXCEPT !.timer = TRUE].timer
    <3>1. 0 \in 0 .. Threshold
      BY UpkeepAssumption
    <3>2. NoProbe \in ProbeState
      BY <3>1 DEF NoProbe, ProbeState
    <3> QED BY <3>2 DEF ProbeState
  <2>3. /\ probe' = [probe EXCEPT ![made] = [NoProbe EXCEPT !.timer = TRUE]]
        /\ session' = made
    BY <1>5 DEF Adopt
  <2> QED BY <1>0, <2>1, <2>2, <2>3 DEF ChainUnbroken
<1>6. CASE ConnectFails \/ DisconnectAsked
  BY <1>2, <1>6 DEF ConnectFails, DisconnectAsked, probeVars
<1>7. CASE TransportCloses
  BY <1>0, <1>3, <1>7, LoseKeeps DEF TransportCloses
<1>8. CASE Drain \/ CloseDone \/ CloseFails
  BY <1>3, <1>8 DEF Drain, CloseDone, CloseFails
<1>9. ASSUME NEW s \in Attempts, ProbeFires(s)
      PROVE  probe' \in [Attempts -> ProbeState] /\ ChainUnbroken'
  <2> DEFINE p == [probe EXCEPT ![s].timer = Probes(s) /\ probe[s].flying]
  <2>1. /\ probe[s] \in ProbeState /\ Probes(s) \in BOOLEAN
    BY <1>0 DEF Probes, Current
  <2>2. p \in [Attempts -> ProbeState] /\ p[s].flying = probe[s].flying
        /\ \A x \in Attempts \ {s} : p[x] = probe[x]
    BY <1>0, <2>1 DEF ProbeState
  <2>3. probe' = [p EXCEPT ![s].flying = probe[s].flying \/ Probes(s)]
        /\ UNCHANGED <<phase, session, leaving, keepalive>>
    BY <1>0, <1>9, <2>1 DEF ProbeFires, lifeVars, ProbeState
  <2> HIDE DEF p
  <2>4. /\ probe' \in [Attempts -> ProbeState] /\ (probe'[s].flying <=> (probe[s].flying \/ Probes(s)))
        /\ \A x \in Attempts \ {s} : probe'[x] = probe[x]
    BY <2>1, <2>2, <2>3 DEF ProbeState
  <2>5. phase = "online" => session \in Attempts /\ keepalive = session
    BY <1>0 DEF LifeOrder, UpkeepTypeOK, Attempts
  <2>6. ChainUnbroken'
    BY <1>0, <2>3, <2>4, <2>5 DEF ChainUnbroken, Probes, Current
  <2> QED BY <2>4, <2>6
<1>10. ASSUME NEW s \in Attempts, ProbeAnswered(s)
       PROVE  probe' \in [Attempts -> ProbeState] /\ ChainUnbroken'
  <2> DEFINE v == [timer |-> Again(s, TRUE), flying |-> FALSE,
                   failures |-> IF session = s THEN 0 ELSE probe[s].failures]
  <2>1. probe[s] \in ProbeState /\ Again(s, TRUE) \in BOOLEAN
    BY <1>0 DEF Again, Current
  <2>2. v \in ProbeState /\ v.timer = Again(s, TRUE)
    <3>1. (IF session = s THEN 0 ELSE probe[s].failures) \in 0 .. Threshold
      BY <2>1, UpkeepAssumption DEF ProbeState
    <3> QED BY <2>1, <3>1 DEF ProbeState
  <2>3. probe' = [probe EXCEPT ![s] = v] /\ UNCHANGED <<phase, session, leaving, keepalive>>
    BY <1>10 DEF ProbeAnswered, lifeVars
  <2> HIDE DEF v
  <2>4. probe' \in [Attempts -> ProbeState] /\ probe'[s] = v /\ \A x \in Attempts \ {s} : probe'[x] = probe[x]
    BY <1>0, <2>2, <2>3
  <2>5. phase = "online" => session \in Attempts /\ keepalive = session
    BY <1>0 DEF LifeOrder, UpkeepTypeOK, Attempts
  <2>6. ChainUnbroken'
    BY <1>0, <2>2, <2>3, <2>4, <2>5 DEF ChainUnbroken, Again, Current
  <2> QED BY <2>4, <2>6
<1>11. ASSUME NEW s \in Attempts, ProbeFails(s)
       PROVE  probe' \in [Attempts -> ProbeState] /\ ChainUnbroken'
  <2>0. phase = "online" => session \in Attempts /\ keepalive = session
    BY <1>0 DEF LifeOrder, UpkeepTypeOK, Attempts
  <2>1. CASE ~Current(s)
    <3>1. probe' = [probe EXCEPT ![s].flying = FALSE] /\ UNCHANGED <<phase, session, leaving>>
      BY <1>11, <2>1 DEF ProbeFails, lifeVars
    <3>2. probe' \in [Attempts -> ProbeState] /\ \A x \in Attempts \ {s} : probe'[x] = probe[x]
      BY <1>0, <3>1 DEF ProbeState
    <3>3. phase = "online" => session # s
      BY <2>0, <2>1 DEF Current
    <3> QED BY <1>0, <2>0, <3>1, <3>2, <3>3 DEF ChainUnbroken
  <2>2. CASE Current(s) /\ ~Struck(s)
    <3> DEFINE v == [timer |-> Again(s, FALSE), flying |-> FALSE, failures |-> probe[s].failures + 1]
    <3>1. probe[s] \in ProbeState /\ Again(s, FALSE) = TRUE
      BY <1>0, <2>2 DEF Again, Current
    <3>2. v \in ProbeState /\ v.timer = TRUE
      <4>1. probe[s].failures + 1 \in 0 .. Threshold
        BY <2>2, <3>1, UpkeepAssumption DEF ProbeState, Struck
      <4> QED BY <3>1, <4>1 DEF ProbeState
    <3>3. probe' = [probe EXCEPT ![s] = v] /\ UNCHANGED <<phase, session, leaving>>
      BY <1>11, <2>2 DEF ProbeFails, lifeVars
    <3> HIDE DEF v
    <3> QED BY <1>0, <2>2, <3>2, <3>3 DEF ChainUnbroken, Current
  <2>3. CASE Current(s) /\ Struck(s)
    <3>1. /\ probe' = [Stopped(probe) EXCEPT ![s].flying = FALSE, ![s].failures = Threshold]
          /\ IF Losable(s) THEN Lose ELSE UNCHANGED lifeVars
      BY <1>11, <2>3 DEF ProbeFails
    <3> DEFINE p == [Stopped(probe) EXCEPT ![s].flying = FALSE]
    <3>2. p \in [Attempts -> ProbeState]
      BY <1>1 DEF ProbeState
    <3>3. probe' = [p EXCEPT ![s].failures = Threshold]
      BY <3>1
    <3>4. Threshold \in 0 .. Threshold
      BY UpkeepAssumption
    <3> HIDE DEF p
    <3>5. probe' \in [Attempts -> ProbeState]
      BY <3>2, <3>3, <3>4 DEF ProbeState
    <3>6. phase' # "online"
      <4>1. CASE Losable(s)
        BY <1>0, <3>1, <4>1, LoseKeeps
      <4>2. CASE ~Losable(s)
        BY <1>0, <2>3, <3>1, <4>2 DEF Losable, Current, LifeOrder, lifeVars
      <4> QED BY <4>1, <4>2
    <3> QED BY <3>5, <3>6 DEF ChainUnbroken
  <2> QED BY <2>1, <2>2, <2>3
<1>12. ASSUME NEW s \in Attempts, NEW e \in Errors, NEW hearings \in 0 .. 2, RaisedBy(s, e, hearings)
       PROVE  probe' \in [Attempts -> ProbeState] /\ ChainUnbroken'
  BY <1>2, <1>12 DEF RaisedBy, Raise, lifeVars, probeVars
<1>13. ASSUME NEW o, NEW what, NEW kind, Ask(o, what, kind)
       PROVE  probe' \in [Attempts -> ProbeState] /\ ChainUnbroken'
  BY <1>2, <1>13 DEF Ask, lifeVars, probeVars
<1>14. ASSUME NEW o \in Ops, ServerTakes(o) \/ Answered(o)
       PROVE  probe' \in [Attempts -> ProbeState] /\ ChainUnbroken'
  BY <1>2, <1>14 DEF ServerTakes, Answered, lifeVars, probeVars
<1>15. ASSUME NEW o \in Ops, NEW expired \in BOOLEAN, Fails(o, expired)
       PROVE  probe' \in [Attempts -> ProbeState] /\ ChainUnbroken'
  <2>1. CASE Lose /\ probe' = Stopped(probe)
    BY <1>0, <1>3, <2>1, LoseKeeps
  <2>2. CASE UNCHANGED <<lifeVars, probeVars>>
    BY <1>2, <2>2 DEF lifeVars, probeVars
  <2> QED BY <1>15, <2>1, <2>2 DEF Fails
<1>16. CASE UNCHANGED upkeepVars
  BY <1>2, <1>16 DEF upkeepVars, lifeVars, probeVars
<1> QED BY StepCases, <1>4, <1>5, <1>6, <1>7, <1>8, <1>9, <1>10, <1>11, <1>12, <1>13, <1>14, <1>15, <1>16
-----------------------------------------------------------------------------
(* The claims.                                                              *)
ClaimTyped ==
    /\ level \in BOOLEAN /\ subs \subseteq Resources /\ unsure \subseteq Resources
    /\ served \in [Attempts -> SUBSET (Resources \cup {Level})]
    /\ op \in [Ops -> CallState]
(* The claims in order.                                                     *)
Claimed == ClaimTyped /\ CallOrder /\ SubscriptionsServed

(* The parts of the invariant the claims rest on.                           *)
LEMMA InvClaimed == ASSUME UpkeepInv PROVE UpkeepTypeOK /\ LifeOrder /\ WindowOrder /\ Claimed
BY DEF UpkeepInv, UpkeepTypeOK, Claimed, ClaimTyped, CallState

(* A step that leaves the calls alone, or ends the session, keeps them.     *)
LEMMA ClaimsStay ==
    ASSUME Claimed, UNCHANGED <<level, served, unsure, op>>, subs' = subs \/ subs' = {},
           \/ phase' = phase /\ session' = session
           \/ phase' \notin {"online", "connecting"}
    PROVE  Claimed'
<1>1. ClaimTyped' /\ Active' = Active
  BY DEF Claimed, ClaimTyped, Active
<1>2. CallOrder'
  BY <1>1 DEF Claimed, CallOrder
<1>3. SubscriptionsServed'
  BY DEF Claimed, SubscriptionsServed, Unsubscribing
<1> QED BY <1>1, <1>2, <1>3 DEF Claimed

(* A connect begins, or its session is adopted: no call is under way.       *)
LEMMA ClaimsOpen ==
    ASSUME UpkeepInv, (\E t \in Transports : ConnectStarts(t)) \/ Adopt
    PROVE  Claimed'
<1>0. UpkeepTypeOK /\ LifeOrder /\ WindowOrder /\ Claimed
  BY InvClaimed
<1>1. Active = {} /\ UNCHANGED <<level, served, op>>
  BY <1>0 DEF ConnectStarts, Adopt, claimVars, Claimed, CallOrder
<1>2. Active' = {}
  BY <1>1 DEF Active
<1>3. CallOrder'
  BY <1>2 DEF CallOrder
<1>4. CASE \E t \in Transports : ConnectStarts(t)
  BY <1>0, <1>3, <1>4 DEF ConnectStarts, claimVars, Claimed, ClaimTyped, SubscriptionsServed
<1>5. CASE Adopt
  BY <1>0, <1>1, <1>3, <1>5 DEF Adopt, Claims, Claimed, ClaimTyped, SubscriptionsServed
<1> QED BY <1>4, <1>5

(* The calls of the session are dropped.                                    *)
LEMMA ClaimsDrop ==
    ASSUME UpkeepInv, TransportCloses
    PROVE  Claimed'
<1>0. UpkeepTypeOK /\ LifeOrder /\ WindowOrder /\ Claimed
  BY InvClaimed
<1>1. /\ phase' = "failed" /\ UNCHANGED <<subs, level, served, unsure>>
      /\ op' = [o \in Ops |-> IF o \in Active THEN NoCall ELSE op[o]]
  BY <1>0, LoseKeeps DEF TransportCloses
<1>2. NoCall \in CallState
  BY UpkeepAssumption DEF NoCall, CallState
<1>3. op' \in [Ops -> CallState]
  BY <1>0, <1>1, <1>2 DEF Claimed, ClaimTyped
<1>4. Active' = {}
  BY <1>1 DEF Active, NoCall
<1> QED BY <1>0, <1>1, <1>3, <1>4 DEF Claimed, ClaimTyped, CallOrder, SubscriptionsServed

(* A call that changes alone.                                               *)
OnlyCall(o, v) == v \in CallState /\ op' = [op EXCEPT ![o] = v]

(* No other call changes with it.                                           *)
LEMMA OneCall ==
    ASSUME op \in [Ops -> CallState], NEW o \in Ops, NEW v, OnlyCall(o, v)
    PROVE  /\ op' \in [Ops -> CallState] /\ op'[o] = v
           /\ \A x \in Ops \ {o} : op'[x] = op[x]
           /\ Active' = IF v.at \in {"asked", "taken"} THEN Active \cup {o} ELSE Active \ {o}
<1>1. op' \in [Ops -> CallState] /\ op'[o] = v /\ \A x \in Ops \ {o} : op'[x] = op[x]
  BY DEF OnlyCall
<1> QED BY <1>1 DEF Active

(* A call is made.                                                          *)
LEMMA ClaimsAsk ==
    ASSUME UpkeepInv, NEW o \in Ops, NEW what \in Resources \cup {Level},
           NEW kind \in KindsOf(what), Ask(o, what, kind)
    PROVE  Claimed'
<1> DEFINE v == [at |-> "asked", kind |-> kind, what |-> what, session |-> session]
<1>0. UpkeepTypeOK /\ LifeOrder /\ WindowOrder /\ Claimed /\ op \in [Ops -> CallState]
  BY InvClaimed DEF Claimed, ClaimTyped
<1>1. v \in CallState
  BY <1>0 DEF CallState, KindsOf, UpkeepTypeOK
<1>2. OnlyCall(o, v) /\ UNCHANGED <<phase, session, subs, level, served, unsure>>
  BY <1>1 DEF Ask, OnlyCall, lifeVars
<1>3. session \in Attempts /\ phase = "online" /\ \A other \in Active : op[other].what # what
  BY <1>0 DEF Ask, UpkeepTypeOK, Attempts
<1>4. v.at = "asked" /\ v.kind = kind /\ v.what = what /\ v.session = session
  OBVIOUS
<1>8. o \notin Active
  BY DEF Ask, Active
<1> HIDE DEF v
<1>5. /\ op' \in [Ops -> CallState] /\ op'[o] = v /\ \A x \in Ops \ {o} : op'[x] = op[x]
      /\ Active' = Active \cup {o}
  BY <1>0, <1>2, <1>4, OneCall
<1>6. CallOrder'
  <2>1. \A x \in Active : x \in Ops \ {o} /\ op'[x] = op[x]
    BY <1>5, <1>8 DEF Active
  <2> QED BY <1>0, <1>2, <1>3, <1>4, <1>5, <2>1 DEF Claimed, CallOrder
<1>7. Unsubscribing' = Unsubscribing
  BY <1>4, <1>5, <1>8 DEF Unsubscribing, Active
<1> QED BY <1>0, <1>2, <1>5, <1>6, <1>7 DEF Claimed, ClaimTyped, SubscriptionsServed

(* The server takes a call.                                                 *)
LEMMA ClaimsTaken ==
    ASSUME UpkeepInv, NEW o \in Ops, ServerTakes(o)
    PROVE  Claimed'
<1> DEFINE v == [op[o] EXCEPT !.at = "taken"]
           s == op[o].session
           u == op[o].what
<1>0. UpkeepTypeOK /\ LifeOrder /\ WindowOrder /\ Claimed /\ op \in [Ops -> CallState]
  BY InvClaimed DEF Claimed, ClaimTyped
<1>1. op[o] \in CallState /\ op[o].at = "asked" /\ o \in Active
  BY <1>0 DEF ServerTakes, Active
<1>2. v \in CallState /\ v.at = "taken" /\ v.kind = op[o].kind /\ v.what = u /\ v.session = s
  BY <1>1 DEF CallState
<1>3. OnlyCall(o, v) /\ UNCHANGED <<phase, session, subs, level, unsure>>
  BY <1>2 DEF ServerTakes, OnlyCall, lifeVars
<1>4. s \in Attempts /\ u \in Resources \cup {Level} /\ op[o].kind \in KindsOf(u)
  BY <1>0, <1>1 DEF Claimed, CallOrder
<1>5. served' = [served EXCEPT ![s] = IF op[o].kind = "unsubscribe" THEN @ \ {u} ELSE @ \cup {u}]
  BY DEF ServerTakes
<1>6. /\ served' \in [Attempts -> SUBSET (Resources \cup {Level})]
      /\ served'[s] = IF op[o].kind = "unsubscribe" THEN served[s] \ {u} ELSE served[s] \cup {u}
      /\ \A x \in Attempts \ {s} : served'[x] = served[x]
  BY <1>0, <1>4, <1>5 DEF UpkeepTypeOK
<1> HIDE DEF v
<1>7. /\ op' \in [Ops -> CallState] /\ op'[o] = v /\ \A x \in Ops \ {o} : op'[x] = op[x]
      /\ Active' = Active
  <2>1. Active \cup {o} = Active
    BY <1>1
  <2> QED BY <1>0, <1>2, <1>3, <2>1, OneCall
<1>8. CallOrder'
  <2>1. \A x \in Active : op'[x].what = op[x].what /\ op'[x].kind = op[x].kind /\ op'[x].session = op[x].session
    BY <1>2, <1>7 DEF Active
  <2>2. phase' = "connecting" => Active' = {}
    BY <1>0, <1>3, <1>7 DEF Claimed, CallOrder
  <2>3. ASSUME NEW x \in Active, op'[x].at = "taken", op'[x].kind # "unsubscribe"
        PROVE  op'[x].what \in served'[op'[x].session]
    <3>1. CASE x = o
      BY <1>2, <1>6, <1>7, <2>3, <3>1
    <3>2. CASE x # o
      <4>1. /\ op'[x] = op[x] /\ op[x].what # u /\ op[x].what \in served[op[x].session]
            /\ op[x].session \in Attempts
        BY <1>0, <1>1, <1>7, <2>3, <3>2 DEF Claimed, CallOrder, Active
      <4> QED BY <1>6, <4>1
    <3> QED BY <3>1, <3>2
  <2> QED BY <1>0, <1>3, <1>7, <2>1, <2>2, <2>3 DEF Claimed, CallOrder
<1>9. SubscriptionsServed'
  <2>1. Unsubscribing' = IF op[o].kind = "unsubscribe" THEN Unsubscribing \cup {u} ELSE Unsubscribing
    BY <1>1, <1>2, <1>7 DEF Unsubscribing
  <2>2. phase = "online" => s = session
    BY <1>0, <1>1 DEF Claimed, CallOrder
  <2> QED BY <1>0, <1>3, <1>6, <2>1, <2>2 DEF Claimed, SubscriptionsServed
<1> QED BY <1>0, <1>3, <1>6, <1>7, <1>8, <1>9 DEF Claimed, ClaimTyped

(* A call ends: the claims of the others stay, and what it gave up is no    *)
(* longer claimed, or is unsure.                                            *)
LEMMA CallEnds ==
    ASSUME UpkeepInv, NEW o \in Active, NEW v, OnlyCall(o, v), v.at \notin {"asked", "taken"},
           UNCHANGED served,
           \/ phase' = phase /\ session' = session
           \/ phase' \notin {"online", "connecting"}
    PROVE  /\ CallOrder' /\ op' \in [Ops -> CallState]
           /\ Unsubscribing \ {op[o].what} \subseteq Unsubscribing'
           /\ ~(op[o].at = "taken" /\ op[o].kind = "unsubscribe") => Unsubscribing' = Unsubscribing
<1>0. UpkeepTypeOK /\ LifeOrder /\ WindowOrder /\ Claimed /\ op \in [Ops -> CallState] /\ o \in Ops
  BY InvClaimed DEF Claimed, ClaimTyped, Active
<1>1. /\ op' \in [Ops -> CallState] /\ op'[o] = v /\ \A x \in Ops \ {o} : op'[x] = op[x]
      /\ Active' = Active \ {o}
  BY <1>0, OneCall
<1>2. \A x \in Active \ {o} : x \in Ops \ {o} /\ op'[x] = op[x]
  BY <1>1 DEF Active
<1>3. CallOrder'
  BY <1>0, <1>1, <1>2 DEF Claimed, CallOrder
<1>4. Unsubscribing \ {op[o].what} \subseteq Unsubscribing'
  BY <1>1 DEF Unsubscribing
<1>5. ~(op[o].at = "taken" /\ op[o].kind = "unsubscribe") => Unsubscribing' = Unsubscribing
  BY <1>0, <1>1 DEF Unsubscribing
<1> QED BY <1>1, <1>3, <1>4, <1>5

(* The answer of a call arrives.                                            *)
LEMMA ClaimsAnswered ==
    ASSUME UpkeepInv, NEW o \in Ops, Answered(o)
    PROVE  Claimed'
<1> DEFINE v == [op[o] EXCEPT !.at = IF session = op[o].session THEN "kept" ELSE "dropped"]
           u == op[o].what
<1>0. UpkeepTypeOK /\ LifeOrder /\ WindowOrder /\ Claimed /\ op \in [Ops -> CallState]
  BY InvClaimed DEF Claimed, ClaimTyped
<1>1. op[o] \in CallState /\ op[o].at = "taken" /\ o \in Active
  BY <1>0 DEF Answered, Active
<1>2. v \in CallState /\ v.at \notin {"asked", "taken"}
  BY <1>1 DEF CallState
<1>3. OnlyCall(o, v) /\ UNCHANGED <<phase, session, served, unsure>>
  BY <1>2 DEF Answered, OnlyCall, lifeVars
<1> HIDE DEF v
<1>4. /\ CallOrder' /\ op' \in [Ops -> CallState]
      /\ Unsubscribing \ {u} \subseteq Unsubscribing'
      /\ op[o].kind # "unsubscribe" => Unsubscribing' = Unsubscribing
  BY <1>1, <1>2, <1>3, CallEnds
<1>5. /\ u \in Resources \cup {Level} /\ op[o].kind \in KindsOf(u)
      /\ phase = "online" => op[o].session = session
      /\ op[o].kind # "unsubscribe" => u \in served[op[o].session]
  BY <1>0, <1>1 DEF Claimed, CallOrder
<1>6. /\ subs' = IF session # op[o].session \/ op[o].kind = "level" THEN subs
                 ELSE IF op[o].kind = "subscribe" THEN subs \cup {u} ELSE subs \ {u}
      /\ level' = (level \/ op[o].kind = "level")
  BY DEF Answered
<1>7. subs' \subseteq Resources /\ level' \in BOOLEAN
  BY <1>0, <1>5, <1>6 DEF Claimed, ClaimTyped, KindsOf
<1>8. SubscriptionsServed'
  <2>1. CASE phase # "online"
    BY <1>3, <2>1 DEF SubscriptionsServed
  <2>2. CASE phase = "online" /\ op[o].kind = "unsubscribe"
    BY <1>0, <1>3, <1>4, <1>5, <1>6, <2>2 DEF Claimed, SubscriptionsServed
  <2>3. CASE phase = "online" /\ op[o].kind # "unsubscribe"
    <3>1. subs' \subseteq subs \cup {u} /\ u \in served[session] /\ Unsubscribing' = Unsubscribing
      BY <1>4, <1>5, <1>6, <2>3
    <3> QED BY <1>0, <1>3, <2>3, <3>1 DEF Claimed, SubscriptionsServed
  <2> QED BY <2>1, <2>2, <2>3
<1> QED BY <1>0, <1>3, <1>4, <1>7, <1>8 DEF Claimed, ClaimTyped

(* A call fails.                                                            *)
LEMMA ClaimsFail ==
    ASSUME UpkeepInv, NEW o \in Ops, NEW expired \in BOOLEAN, Fails(o, expired)
    PROVE  Claimed'
<1>0. UpkeepTypeOK /\ LifeOrder /\ WindowOrder /\ Claimed /\ op \in [Ops -> CallState]
  BY InvClaimed DEF Claimed, ClaimTyped
<1>1. o \in Active /\ NoCall \in CallState /\ NoCall.at \notin {"asked", "taken"}
  BY UpkeepAssumption DEF Fails, NoCall, CallState
<1>2. OnlyCall(o, NoCall) /\ UNCHANGED <<subs, level, served>>
  BY <1>1 DEF Fails, OnlyCall
<1>3. \/ phase' = phase /\ session' = session
      \/ phase' \notin {"online", "connecting"}
  BY <1>0, LoseKeeps DEF Fails, lifeVars
<1>4. unsure' = IF op[o].kind = "unsubscribe" /\ op[o].at = "taken"
                THEN unsure \cup {op[o].what} ELSE unsure
  BY DEF Fails
<1>5. /\ CallOrder' /\ op' \in [Ops -> CallState]
      /\ Unsubscribing \ {op[o].what} \subseteq Unsubscribing'
      /\ ~(op[o].at = "taken" /\ op[o].kind = "unsubscribe") => Unsubscribing' = Unsubscribing
  BY <1>1, <1>2, <1>3, CallEnds
<1>6. unsure' \subseteq Resources
  <2>1. op[o].kind \in KindsOf(op[o].what) /\ op[o].what \in Resources \cup {Level}
    BY <1>0, <1>1 DEF Claimed, CallOrder
  <2> QED BY <1>0, <1>4, <2>1 DEF Claimed, ClaimTyped, KindsOf
<1>7. unsure \cup Unsubscribing \subseteq unsure' \cup Unsubscribing'
  BY <1>4, <1>5
<1>8. SubscriptionsServed'
  BY <1>0, <1>2, <1>3, <1>7 DEF Claimed, SubscriptionsServed
<1> QED BY <1>0, <1>2, <1>5, <1>6, <1>8 DEF Claimed, ClaimTyped

(* Each step keeps the claims.                                              *)
LEMMA ClaimStep ==
    ASSUME UpkeepInv, [UpkeepNext]_upkeepVars
    PROVE  Claimed'
<1>0. UpkeepTypeOK /\ LifeOrder /\ WindowOrder /\ Claimed
  BY InvClaimed
<1>1. CASE Lose /\ UNCHANGED claimVars
  BY <1>0, <1>1, LoseKeeps, ClaimsStay DEF claimVars
<1>2. CASE UNCHANGED <<phase, session, claimVars>>
  BY <1>0, <1>2, ClaimsStay DEF claimVars
<1>3. CASE ConnectFails \/ DisconnectAsked \/ Drain \/ CloseDone \/ CloseFails
  <2>1. /\ UNCHANGED <<level, served, unsure, op>> /\ (subs' = subs \/ subs' = {})
        /\ (phase' = phase /\ session' = session) \/ phase' \notin {"online", "connecting"}
    BY <1>3 DEF ConnectFails, DisconnectAsked, Drain, CloseDone, CloseFails, claimVars
  <2> QED BY <1>0, <2>1, ClaimsStay
<1>4. ASSUME NEW s \in Attempts, ProbeFires(s) \/ ProbeAnswered(s) \/ ProbeFails(s)
      PROVE  Claimed'
  BY <1>1, <1>2, <1>4 DEF ProbeFires, ProbeAnswered, ProbeFails, lifeVars
<1>5. ASSUME NEW s \in Attempts, NEW e \in Errors, NEW hearings \in 0 .. 2, RaisedBy(s, e, hearings)
      PROVE  Claimed'
  BY <1>2, <1>5 DEF RaisedBy, Raise, lifeVars
<1>6. CASE UNCHANGED upkeepVars
  BY <1>2, <1>6 DEF upkeepVars, lifeVars
<1> QED BY StepCases, <1>3, <1>4, <1>5, <1>6, ClaimsOpen, ClaimsDrop, ClaimsAsk, ClaimsTaken,
          ClaimsAnswered, ClaimsFail
-----------------------------------------------------------------------------
(* Types, but for the probes and the claims.                                *)
LifeTyped ==
    /\ phase \in {"offline", "connecting", "online", "draining", "quarantined", "failed"}
    /\ session \in 0 .. MaxAttempts /\ made \in 0 .. MaxAttempts
    /\ leaving \in BOOLEAN /\ keepalive \in 0 .. MaxAttempts
ErrorTyped ==
    /\ scope \in 0 .. MaxAttempts /\ ended \in 0 .. MaxAttempts
    /\ watch \in [Transports -> 0 .. MaxAttempts]
    /\ wired \in [Attempts -> Transports \cup {None}]
    /\ seen \in [Attempts -> SUBSET Errors]
    /\ published \in [Attempts -> [Errors -> 0 .. 2]]
    /\ raised \in [Attempts -> SUBSET Errors]

(* Each step keeps the types of the lifecycle.                              *)
LEMMA LifeTypeStep ==
    ASSUME UpkeepInv, [UpkeepNext]_upkeepVars
    PROVE  LifeTyped'
<1>0. UpkeepTypeOK /\ LifeOrder /\ WindowOrder /\ LifeTyped
  BY DEF UpkeepInv, UpkeepTypeOK, LifeTyped
<1>12. 0 \in 0 .. MaxAttempts
  BY UpkeepAssumption
<1>1. CASE UNCHANGED <<phase, session, made, leaving, keepalive>>
  BY <1>0, <1>1 DEF LifeTyped
<1>2. CASE Lose
  BY <1>0, <1>2, <1>12, LoseKeeps DEF LifeTyped
<1>3. ASSUME NEW t \in Transports, ConnectStarts(t) PROVE LifeTyped'
  BY <1>0, <1>3, UpkeepAssumption DEF ConnectStarts, LifeTyped
<1>4. CASE Adopt \/ ConnectFails \/ DisconnectAsked \/ Drain \/ CloseDone \/ CloseFails
  <2>1. CASE Adopt
    BY <1>0, <2>1 DEF Adopt, LifeTyped
  <2>2. CASE ConnectFails \/ DisconnectAsked \/ Drain
    BY <1>0, <2>2 DEF ConnectFails, DisconnectAsked, Drain, LifeTyped, probeVars
  <2>3. CASE CloseDone \/ CloseFails
    BY <1>0, <1>12, <2>3 DEF CloseDone, CloseFails, LifeTyped
  <2> QED BY <1>4, <2>1, <2>2, <2>3
<1>5. CASE TransportCloses
  BY <1>2, <1>5 DEF TransportCloses
<1>6. ASSUME NEW s \in Attempts, ProbeFires(s) \/ ProbeAnswered(s) \/ ProbeFails(s)
      PROVE  LifeTyped'
  BY <1>1, <1>2, <1>6 DEF ProbeFires, ProbeAnswered, ProbeFails, lifeVars
<1>7. ASSUME NEW s \in Attempts, NEW e \in Errors, NEW hearings \in 0 .. 2, RaisedBy(s, e, hearings)
      PROVE  LifeTyped'
  BY <1>1, <1>7 DEF RaisedBy, Raise, lifeVars, probeVars
<1>8. ASSUME NEW o, NEW what, NEW kind, Ask(o, what, kind) PROVE LifeTyped'
  BY <1>1, <1>8 DEF Ask, lifeVars, probeVars
<1>9. ASSUME NEW o \in Ops, ServerTakes(o) \/ Answered(o) PROVE LifeTyped'
  BY <1>1, <1>9 DEF ServerTakes, Answered, lifeVars, probeVars
<1>10. ASSUME NEW o \in Ops, NEW expired \in BOOLEAN, Fails(o, expired) PROVE LifeTyped'
  BY <1>1, <1>2, <1>10 DEF Fails, lifeVars, probeVars
<1>11. CASE UNCHANGED upkeepVars
  BY <1>1, <1>11 DEF upkeepVars, lifeVars, probeVars
<1> QED BY StepCases, <1>3, <1>4, <1>5, <1>6, <1>7, <1>8, <1>9, <1>10, <1>11

(* Each step keeps the types of the error windows.                          *)
LEMMA ErrorTypeStep ==
    ASSUME UpkeepInv, [UpkeepNext]_upkeepVars
    PROVE  ErrorTyped'
<1>0. UpkeepTypeOK /\ LifeOrder /\ WindowOrder /\ ReportOrder /\ ErrorTyped
  BY DEF UpkeepInv, UpkeepTypeOK, ErrorTyped
<1>1. CASE UNCHANGED errorVars
  BY <1>0, <1>1 DEF ErrorTyped, errorVars
<1>2. ASSUME NEW t \in Transports, ConnectStarts(t) PROVE ErrorTyped'
  <2>1. made + 1 \in 0 .. MaxAttempts /\ made + 1 \in Attempts
    BY <1>0, <1>2, UpkeepAssumption DEF ConnectStarts, Attempts, UpkeepTypeOK
  <2>2. Unpointed \in [Transports -> 0 .. MaxAttempts]
    BY <1>0, UpkeepAssumption DEF Unpointed, ErrorTyped
  <2> QED BY <1>0, <1>2, <2>1, <2>2 DEF ConnectStarts, ErrorTyped
<1>3. CASE /\ scope' = 0 /\ ended' = made /\ watch' = [t \in Transports |-> 0]
           /\ UNCHANGED <<wired, seen, published, raised>>
  <2>1. 0 \in 0 .. MaxAttempts /\ made \in 0 .. MaxAttempts
    BY <1>0, UpkeepAssumption DEF UpkeepTypeOK
  <2> QED BY <1>0, <1>3, <2>1 DEF ErrorTyped
<1>4. ASSUME NEW s \in Attempts, NEW e \in Errors, NEW hearings \in 0 .. 2, RaisedBy(s, e, hearings)
      PROVE  ErrorTyped'
  <2>1. UNCHANGED <<scope, watch, wired, ended>>
    BY <1>0, <1>4, RaiseIs
  <2>2. CASE UNCHANGED <<seen, published, raised>>
    BY <1>0, <2>1, <2>2 DEF ErrorTyped
  <2>3. CASE /\ seen' = [seen EXCEPT ![s] = @ \cup {e}]
             /\ raised' = [raised EXCEPT ![s] = @ \cup {e}]
             /\ published' = [published EXCEPT ![s][e] = IF e \in seen[s] THEN @ ELSE 1]
    <3>1. seen' \in [Attempts -> SUBSET Errors] /\ raised' \in [Attempts -> SUBSET Errors]
      BY <1>0, <2>3 DEF ErrorTyped
    <3>2. (IF e \in seen[s] THEN published[s][e] ELSE 1) \in 0 .. 2
      BY <1>0 DEF ErrorTyped
    <3>3. published' \in [Attempts -> [Errors -> 0 .. 2]]
      BY <1>0, <2>3, <3>2 DEF ErrorTyped
    <3> QED BY <1>0, <2>1, <3>1, <3>3 DEF ErrorTyped
  <2> QED BY <1>0, <1>4, <2>2, <2>3, RaiseIs
<1> QED BY ErrorCases, <1>1, <1>2, <1>3, <1>4
-----------------------------------------------------------------------------
(* Each step keeps the whole invariant.                                     *)
LEMMA InvStep == UpkeepInv /\ [UpkeepNext]_upkeepVars => UpkeepInv'
<1> SUFFICES ASSUME UpkeepInv, [UpkeepNext]_upkeepVars PROVE UpkeepInv'
  OBVIOUS
<1>1. LifeOrder' /\ WindowOrder' /\ ReportOrder'
  BY LifeStep, WindowStep
<1>2. probe' \in [Attempts -> ProbeState] /\ ChainUnbroken'
  BY ProbeStep
<1>3. Claimed'
  BY ClaimStep
<1>4. LifeTyped' /\ ErrorTyped'
  BY LifeTypeStep, ErrorTypeStep
<1>5. UpkeepTypeOK'
  BY <1>2, <1>3, <1>4
    DEF UpkeepTypeOK, LifeTyped, ErrorTyped, Claimed, ClaimTyped, ProbeState, CallState
<1> QED BY <1>1, <1>2, <1>3, <1>5 DEF UpkeepInv, ChainUnbroken, Claimed

(* The inductive invariant of the upkeep holds in every state.              *)
THEOREM UpkeepInvAlways == UpkeepSpec => []UpkeepInv
BY InitInv, InvStep, PTL DEF UpkeepSpec

(* The keepalive of a usable session never stops: a probe waits for its     *)
(* timer or for its answer (#startKeepalive); and an error of a client or   *)
(* transport is published once in its attempt and never after it            *)
(* (#watchErrors, #reportError, #dropErrorScope).                           *)
THEOREM ProbesAlwaysGoOn == UpkeepSpec => []ProbesGoOn
<1>1. UpkeepInv => ReportedOnce
  BY DEF UpkeepInv, ReportOrder, ReportedOnce, Count
<1>2. UpkeepInv => ProbesGoOn
  BY <1>1 DEF UpkeepInv, ProbesGoOn
<1> QED BY <1>2, UpkeepInvAlways, PTL

(* What the snapshot shows as subscribed on a usable legacy connection, the *)
(* server of this session serves (subscribeResource, #performConnect).      *)
THEOREM SubscriptionsAlwaysServed == UpkeepSpec => []SubscriptionsServed
<1>1. UpkeepInv => SubscriptionsServed
  BY DEF UpkeepInv
<1> QED BY <1>1, UpkeepInvAlways, PTL

-----------------------------------------------------------------------------

(* The record: an attempt that resumes carries its session, and while it is *)
(* under way the record is as it found it; the record is there until it is  *)
(* spent.                                                                   *)
RecordOrder ==
  /\ pending = ~spent
  /\ attempt.resuming => attempt.carries
  /\ attempt.step \in {"opening", "connecting"} => attempt.resuming = pending
  /\ attempt.step \in {"connecting", "online"} /\ attempt.carries /\ pinned = Undefined =>
       ~attempt.strict

(* The end of a generation: how far the transport is, which of its sides    *)
(* was closed, and what the task that callers share can be waiting for.     *)
CloseOrder ==
  /\ closing = "none" => close.task = "none" /\ close.holds
  /\ ends.client = IF closing = "none" THEN 0 ELSE 1
  /\ ends.server = IF closing \in {"none", "client"} THEN 0 ELSE 1
  /\ closing \in {"client", "server", "spoiled"} => close.task = "transport"
  /\ close.task = "empty" => closing \in {"closed", "failed"}
  /\ ~close.holds => closing \in {"server", "closed", "failed"}
  /\ \A k \in Closers : close.by[k] = "closed" => closing \in {"closed", "failed"}

(* All of it.                                                               *)
AdoptionInv == AdoptionTypeOK /\ RecordOrder /\ CloseOrder

(* It holds before the first attempt.                                       *)
LEMMA AdoptionBegins == AdoptionInit => AdoptionInv
<1> SUFFICES ASSUME AdoptionInit PROVE AdoptionInv
  OBVIOUS
<1>1. 0 \in 0..MaxConnects
  BY AdoptionAssumption
<1>2. NoClose \in CloseTask /\ NoClose.task = "none" /\ NoClose.holds
      /\ \A k \in Closers : NoClose.by[k] = "none"
  BY DEF NoClose, CloseTask
<1>3. NoAttempt \in Attempt /\ NoAttempt.step = "none" /\ ~NoAttempt.resuming
  BY DEF NoAttempt, Attempt
<1>4. AdoptionTypeOK
  <2>1. pinned \in BOOLEAN \cup {Undefined} /\ sticky \in BOOLEAN /\ pending \in BOOLEAN
        /\ begun \in 0..MaxConnects /\ alive \in BOOLEAN /\ spent \in BOOLEAN
    BY <1>1 DEF AdoptionInit
  <2>2. attempt \in Attempt /\ close \in CloseTask
    BY <1>2, <1>3 DEF AdoptionInit
  <2>3. closing \in TransportEnds /\ ends \in Ends
    BY DEF AdoptionInit, Ends, TransportEnds
  <2> QED BY <2>1, <2>2, <2>3 DEF AdoptionTypeOK
<1>5. RecordOrder
  BY <1>3 DEF AdoptionInit, RecordOrder
<1>6. CloseOrder
  BY <1>2 DEF AdoptionInit, CloseOrder
<1> QED BY <1>4, <1>5, <1>6 DEF AdoptionInv

(* Attempts that leave the end of the generation before alone.              *)
LEMMA CloseOrderStays == CloseOrder /\ UNCHANGED closeVars => CloseOrder'
BY DEF CloseOrder, closeVars

(* An attempt begins, or ends without a session.                            *)
LEMMA AttemptKeeps ==
  ASSUME AdoptionInv, AttemptBegins \/ Create \/ DeclaredGone \/ Unreached \/ Expires \/ Over
  PROVE  AdoptionInv'
<1>0. AdoptionTypeOK /\ RecordOrder /\ CloseOrder
  BY DEF AdoptionInv
<1>1. UNCHANGED <<pinned, sticky, closing, close, ends>>
  BY DEF AttemptBegins, Create, DeclaredGone, Unreached, Expires, Over, resumeVars, closeVars
<1>2. CloseOrder'
  BY <1>0, <1>1, CloseOrderStays DEF closeVars
<1>3. CASE AttemptBegins
  <2>1. attempt' = [step |-> "opening", resuming |-> pending, carries |-> sticky \/ pending,
                    strict |-> TRUE]
    BY <1>3 DEF AttemptBegins, NoAttempt
  <2>2. attempt' \in Attempt
    BY <1>0, <2>1 DEF AdoptionTypeOK, Attempt
  <2>3. begun' \in 0..MaxConnects
    BY <1>0, <1>3, AdoptionAssumption DEF AttemptBegins, AdoptionTypeOK
  <2>4. AdoptionTypeOK'
    BY <1>0, <1>1, <1>3, <2>2, <2>3 DEF AttemptBegins, AdoptionTypeOK
  <2>5. RecordOrder'
    BY <1>0, <1>1, <1>3, <2>1 DEF AttemptBegins, RecordOrder
  <2> QED BY <1>2, <2>4, <2>5 DEF AdoptionInv
<1>4. CASE Create
  <2>1. attempt' = [attempt EXCEPT !.step = "connecting", !.strict = Strict(attempt.resuming)]
        /\ attempt.step = "opening" /\ UNCHANGED <<pending, begun, alive, spent>>
    BY <1>4 DEF Create, resumeVars
  <2>2. attempt \in Attempt
    BY <1>0 DEF AdoptionTypeOK
  <2>3. Strict(attempt.resuming) \in BOOLEAN
    BY DEF Strict
  <2>4. /\ attempt' \in Attempt /\ attempt'.step = "connecting"
        /\ attempt'.strict = Strict(attempt.resuming)
        /\ attempt'.resuming = attempt.resuming /\ attempt'.carries = attempt.carries
    BY <2>1, <2>2, <2>3 DEF Attempt
  <2>5. attempt.resuming = pending
    BY <1>0, <2>1 DEF RecordOrder
  <2>6. pinned = Undefined => ~Strict(attempt.resuming)
    BY <2>5 DEF Strict, Enforced
  <2>7. RecordOrder'
    BY <1>0, <1>1, <2>1, <2>4, <2>5, <2>6 DEF RecordOrder
  <2>8. AdoptionTypeOK'
    BY <1>0, <1>1, <2>1, <2>4 DEF AdoptionTypeOK
  <2> QED BY <1>2, <2>7, <2>8 DEF AdoptionInv
<1>5. CASE DeclaredGone \/ Unreached \/ Over
  <2>1. attempt' = NoAttempt /\ UNCHANGED <<begun, alive>>
    BY <1>5 DEF DeclaredGone, Unreached, Over, resumeVars
  <2>2. NoAttempt \in Attempt /\ NoAttempt.step = "none" /\ ~NoAttempt.resuming
    BY DEF NoAttempt, Attempt
  <2>3. pending' \in BOOLEAN /\ spent' \in BOOLEAN /\ pending' = ~spent'
    <3>1. CASE DeclaredGone
      <4>1. pending' = (pending /\ ~attempt.resuming) /\ spent' = TRUE /\ attempt.step = "connecting"
        BY <3>1 DEF DeclaredGone, Consumed
      <4> QED BY <1>0, <4>1 DEF RecordOrder
    <3>2. CASE Unreached \/ Over
      BY <1>0, <3>2 DEF Unreached, Over, resumeVars, RecordOrder, AdoptionTypeOK
    <3> QED BY <1>5, <3>1, <3>2
  <2>4. RecordOrder'
    BY <2>1, <2>2, <2>3 DEF RecordOrder
  <2>5. AdoptionTypeOK'
    BY <1>0, <1>1, <2>1, <2>2, <2>3 DEF AdoptionTypeOK
  <2> QED BY <1>2, <2>4, <2>5 DEF AdoptionInv
<1>6. CASE Expires
  <2>1. UNCHANGED <<pending, begun, attempt, spent>> /\ alive' \in BOOLEAN
    BY <1>6 DEF Expires
  <2> QED BY <1>0, <1>1, <1>2, <2>1 DEF AdoptionInv, AdoptionTypeOK, RecordOrder
<1> QED BY <1>3, <1>4, <1>5, <1>6

(* An attempt adopts its session.                                           *)
LEMMA AdoptsKeeps == ASSUME AdoptionInv, Adopts PROVE AdoptionInv'
<1>0. AdoptionTypeOK /\ RecordOrder /\ attempt \in Attempt
  BY DEF AdoptionInv, AdoptionTypeOK
<1>1. /\ attempt' \in Attempt /\ attempt'.step = "online" /\ attempt'.strict = attempt.strict
      /\ attempt'.resuming = attempt.resuming /\ attempt'.carries = attempt.carries
  BY <1>0 DEF Adopts, Attempt
<1>2. /\ attempt.step = "connecting" /\ UNCHANGED <<pinned, sticky, begun, alive>>
      /\ pending' = (pending /\ ~attempt.resuming) /\ spent' = (spent \/ attempt.carries)
      /\ closing' = "none" /\ close' = NoClose /\ ends' = [client |-> 0, server |-> 0]
  BY DEF Adopts, Consumed
<1>3. NoClose \in CloseTask /\ NoClose.task = "none" /\ NoClose.holds
      /\ \A k \in Closers : NoClose.by[k] = "none"
  BY DEF NoClose, CloseTask
<1>4. pending' = ~spent' /\ pending' \in BOOLEAN /\ spent' \in BOOLEAN
  <2>1. pending \in BOOLEAN /\ spent \in BOOLEAN /\ attempt.resuming \in BOOLEAN /\ attempt.carries \in BOOLEAN
    BY <1>0 DEF AdoptionTypeOK, Attempt
  <2>2. pending = ~spent /\ (attempt.resuming => attempt.carries) /\ attempt.resuming = pending
    BY <1>0, <1>2 DEF RecordOrder
  <2> QED BY <1>2, <2>1, <2>2
<1>5. AdoptionTypeOK'
  BY <1>0, <1>1, <1>2, <1>3, <1>4 DEF AdoptionTypeOK, TransportEnds, Ends
<1>6. RecordOrder'
  BY <1>0, <1>1, <1>2, <1>4 DEF RecordOrder
<1>7. CloseOrder'
  BY <1>2, <1>3 DEF CloseOrder
<1> QED BY <1>5, <1>6, <1>7 DEF AdoptionInv

(* Closing leaves the record and the attempt alone.                         *)
LEMMA RecordOrderStays ==
  RecordOrder /\ UNCHANGED <<resumeVars, attempt>> => RecordOrder'
BY DEF RecordOrder, resumeVars

(* A caller closes, or abandons, the generation.                            *)
LEMMA CloseBeginsKeeps ==
  ASSUME AdoptionInv, NEW k \in Closers, CloseBegins(k)
  PROVE  AdoptionInv'
<1> DEFINE closes == close.task = "none" /\ close.holds
           task == IF closes THEN "transport" ELSE IF close.task = "none" THEN "empty" ELSE close.task
<1>0. AdoptionTypeOK /\ CloseOrder /\ close \in CloseTask /\ ends \in Ends
  BY DEF AdoptionInv, AdoptionTypeOK
<1>1. RecordOrder' /\ UNCHANGED <<pinned, sticky, pending, begun, attempt, alive, spent>>
  BY RecordOrderStays DEF AdoptionInv, CloseBegins, resumeVars
<1>2. close' = [close EXCEPT !.by[k] = "waits", !.closed = TRUE, !.task = task]
  BY DEF CloseBegins
<1>3. task \in {"none", "transport", "empty"}
  BY <1>0 DEF CloseTask
<1> HIDE DEF task
<1>4. /\ close' \in CloseTask /\ close'.task = task /\ close'.holds = close.holds
      /\ \A j \in Closers : close'.by[j] = "closed" => close.by[j] = "closed"
  BY <1>0, <1>2, <1>3 DEF CloseTask
<1>5. CASE closes /\ closing = "none"
  <2>1. closing' = "client" /\ ends' = [ends EXCEPT !.client = @ + 1]
    BY <1>5 DEF CloseBegins, Opened
  <2>2. task = "transport" /\ close.holds
    BY <1>5 DEF task
  <2>3. ends.client = 0 /\ ends.server = 0
    BY <1>0, <1>5 DEF CloseOrder
  <2>4. ends' \in Ends /\ ends'.client = 1 /\ ends'.server = 0
    BY <1>0, <2>1, <2>3 DEF Ends
  <2>5. AdoptionTypeOK'
    BY <1>0, <1>1, <1>4, <2>1, <2>4 DEF AdoptionTypeOK, TransportEnds
  <2>6. CloseOrder'
    BY <1>0, <1>4, <1>5, <2>1, <2>2, <2>4 DEF CloseOrder
  <2> QED BY <1>1, <2>5, <2>6 DEF AdoptionInv
<1>6. CASE ~(closes /\ closing = "none")
  <2>1. closing' = closing /\ ends' = ends
    BY <1>6 DEF CloseBegins, Opened
  <2>2. closing # "none"
    BY <1>0, <1>6 DEF CloseOrder
  <2>3. task = "empty" => closing \in {"closed", "failed"}
    BY <1>0 DEF task, CloseOrder
  <2>4. closing \in {"client", "server", "spoiled"} => task = "transport"
    BY <1>0 DEF task, CloseOrder
  <2>5. AdoptionTypeOK'
    BY <1>0, <1>1, <1>4, <2>1 DEF AdoptionTypeOK
  <2>6. CloseOrder'
    BY <1>0, <1>4, <2>1, <2>2, <2>3, <2>4 DEF CloseOrder
  <2> QED BY <1>1, <2>5, <2>6 DEF AdoptionInv
<1> QED BY <1>5, <1>6

(* The transport ends the client side, then the server side.                *)
LEMMA EndsKeep == ASSUME AdoptionInv, ClientEnds \/ ServerEnds PROVE AdoptionInv'
<1>0. AdoptionTypeOK /\ CloseOrder /\ close \in CloseTask /\ ends \in Ends
  BY DEF AdoptionInv, AdoptionTypeOK
<1>1. RecordOrder' /\ UNCHANGED <<pinned, sticky, pending, begun, attempt, alive, spent>>
  BY RecordOrderStays DEF AdoptionInv, ClientEnds, ServerEnds, resumeVars
<1>2. CASE ClientEnds
  <2>1. /\ closing = "client" /\ closing' \in {"server", "spoiled"}
        /\ close' = close \/ (closing' = "server" /\ close' = [close EXCEPT !.holds = FALSE])
        /\ ends' = [ends EXCEPT !.server = @ + 1]
    BY <1>2 DEF ClientEnds
  <2>2. /\ close' \in CloseTask /\ close'.task = close.task /\ close'.by = close.by
        /\ close'.holds = close.holds \/ closing' = "server"
    BY <1>0, <2>1 DEF CloseTask
  <2>3. ends.client = 1 /\ ends.server = 0
    BY <1>0, <2>1 DEF CloseOrder
  <2>4. ends' \in Ends /\ ends'.client = 1 /\ ends'.server = 1
    BY <1>0, <2>1, <2>3 DEF Ends
  <2>5. AdoptionTypeOK'
    BY <1>0, <1>1, <2>1, <2>2, <2>4 DEF AdoptionTypeOK, TransportEnds
  <2>6. CloseOrder'
    BY <1>0, <2>1, <2>2, <2>4 DEF CloseOrder
  <2> QED BY <1>1, <2>5, <2>6 DEF AdoptionInv
<1>3. CASE ServerEnds
  <2>1. closing \in {"server", "spoiled"} /\ closing' \in {"closed", "failed"}
        /\ close' = close /\ ends' = ends
    BY <1>3 DEF ServerEnds
  <2>2. AdoptionTypeOK'
    BY <1>0, <1>1, <2>1 DEF AdoptionTypeOK, TransportEnds
  <2>3. CloseOrder'
    BY <1>0, <2>1 DEF CloseOrder
  <2> QED BY <1>1, <2>2, <2>3 DEF AdoptionInv
<1> QED BY <1>2, <1>3

(* The shared close task settles.                                           *)
LEMMA CloseSettlesKeeps == ASSUME AdoptionInv, CloseSettles PROVE AdoptionInv'
<1> DEFINE outcome == IF close.task = "empty" THEN "closed" ELSE closing
           by == [k \in Closers |-> IF close.by[k] = "waits" THEN outcome ELSE close.by[k]]
           task == IF outcome = "failed" THEN "none" ELSE close.task
<1>0. AdoptionTypeOK /\ CloseOrder /\ close \in CloseTask
  BY DEF AdoptionInv, AdoptionTypeOK
<1>1. RecordOrder' /\ UNCHANGED <<pinned, sticky, pending, begun, attempt, alive, spent, closing, ends>>
  BY RecordOrderStays DEF AdoptionInv, CloseSettles, resumeVars
<1>2. /\ outcome \in {"closed", "failed"}
      /\ close' = [close EXCEPT !.by = by, !.closed = outcome = "closed", !.task = task]
  BY DEF CloseSettles
<1>3. closing \in {"closed", "failed"}
  BY <1>0, <1>2 DEF CloseOrder
<1>4. by \in [Closers -> {"none", "waits", "closed", "failed"}] /\ task \in {"none", "transport", "empty"}
  BY <1>0, <1>2 DEF CloseTask
<1>5. task = "empty" => close.task = "empty"
  OBVIOUS
<1> HIDE DEF by, task, outcome
<1>6. close' \in CloseTask /\ close'.holds = close.holds /\ close'.task = task
  BY <1>0, <1>2, <1>4 DEF CloseTask
<1>7. AdoptionTypeOK'
  BY <1>0, <1>1, <1>6 DEF AdoptionTypeOK
<1>8. CloseOrder'
  BY <1>0, <1>1, <1>3, <1>5, <1>6 DEF CloseOrder
<1> QED BY <1>1, <1>7, <1>8 DEF AdoptionInv

(* Each step keeps the whole invariant.                                     *)
LEMMA AdoptionStep == AdoptionInv /\ [AdoptionNext]_adoptionVars => AdoptionInv'
<1> SUFFICES ASSUME AdoptionInv, [AdoptionNext]_adoptionVars PROVE AdoptionInv'
  OBVIOUS
<1>1. CASE AttemptBegins \/ Create \/ DeclaredGone \/ Unreached \/ Expires \/ Over
  BY <1>1, AttemptKeeps
<1>2. CASE Adopts
  BY <1>2, AdoptsKeeps
<1>3. ASSUME NEW k \in Closers, CloseBegins(k) PROVE AdoptionInv'
  BY <1>3, CloseBeginsKeeps
<1>4. CASE ClientEnds \/ ServerEnds
  BY <1>4, EndsKeep
<1>5. CASE CloseSettles
  BY <1>5, CloseSettlesKeeps
<1>6. CASE UNCHANGED adoptionVars
  BY <1>6 DEF adoptionVars, AdoptionInv, AdoptionTypeOK, RecordOrder, CloseOrder
<1> QED BY <1>1, <1>2, <1>3, <1>4, <1>5, <1>6 DEF AdoptionNext

(* A session is adopted once, and not lost to an attempt that fails; each   *)
(* side of a transport is closed once, whoever closes it how often, and     *)
(* nobody is told that it is closed before its server side is (consumeResume *)
(* and ownServerSide in src/client/connection.ts, #performConnect in        *)
(* src/client/manager.ts).                                                  *)
THEOREM SessionAlwaysResumesOnce == AdoptionSpec => []ResumesOnce
<1>1. AdoptionInv => ResumesOnce
  <2> SUFFICES ASSUME AdoptionInv PROVE ResumesOnce
    OBVIOUS
  <2>1. AdoptionTypeOK /\ AdoptedOnce
    BY DEF AdoptionInv, RecordOrder, AdoptedOnce
  <2>2. OwnedOnce
    BY DEF AdoptionInv, CloseOrder, OwnedOnce
  <2> QED BY <2>1, <2>2 DEF ResumesOnce
<1> QED BY <1>1, AdoptionBegins, AdoptionStep, PTL DEF AdoptionSpec

-----------------------------------------------------------------------------
(* An id that is registered has a definition and a number; a removed one    *)
(* has neither.                                                             *)
RegistryOrder ==
    /\ numbers # 0
    /\ \A i \in Ids :
          IF entry[i].def = Absent THEN entry[i] = Gone ELSE entry[i].number \in 1 .. numbers

(* The id in hand: what a host is about to do to it, which entry it has     *)
(* seen, and which of several swaps of one entry is under way.              *)
Swaps == {"settling", "closing", "swapped", "reconnecting"}
Removes(c) == c.stage = "removing" /\ c.id \in Ids /\ c.want[c.id] = Absent
Replaces(c) == c.stage \in Swaps \cup {"queued"} /\ c.id \in Ids /\ c.want[c.id] # Absent
InHand(c) ==
    \/ c.stage = "next" /\ c.id = Absent
    \/ c.phase = "running" /\ c.number \in 1 .. numbers /\ (Removes(c) \/ Replaces(c))
HandOrder ==
    \A h \in Hosts :
        /\ InHand(diff[h])
        /\ At(h, "reconnecting") /\ Still(h) => Landed(h)
        /\ \A g \in Hosts \ {h} :
              ~(/\ diff[g].stage \in Swaps /\ diff[h].stage \in Swaps
                /\ diff[g].id = diff[h].id /\ diff[g].number = diff[h].number)

(* The ids of a host: each is still to be dropped or applied, or in hand,   *)
(* or has a verdict.                                                        *)
WantedBy(c) == {i \in Ids : c.want[i] # Absent}
Counts(c) == c.added \cup c.replaced \cup c.unchanged
Left(c) == c.drop \cup c.apply \cup {c.id}
Verdicts(c) ==
    /\ c.apply \subseteq WantedBy(c) /\ c.drop \cap WantedBy(c) = {}
    /\ c.id \notin c.drop \cup c.apply
    /\ Left(c) \cap (Counts(c) \cup c.failed \cup c.removed) = {}
    /\ c.phase # "idle" => WantedBy(c) \subseteq c.apply \cup {c.id} \cup Counts(c) \cup c.failed
    /\ c.phase = "idle" => Counts(c) \cup c.failed \cup c.removed = {}
    /\ c.phase = "done" => c.drop = {} /\ c.apply = {}
    /\ c.added \cap c.replaced = {} /\ c.removed \cap c.failed = {}
VerdictOrder == \A h \in Hosts : Verdicts(diff[h])

(* Where all hosts want the same, what one has brought about stays.         *)
Stays(c) ==
    \A i \in Ids :
        IF c.want[i] = Absent
        THEN c.phase = "idle" \/ i \in c.drop \cup {c.id} \cup c.failed \/ entry[i] = Gone
        ELSE ~entry[i].removing /\ (i \in Counts(c) => entry[i].def = c.want[i])
AgreeOrder == SameWants => \A h \in Hosts : Stays(diff[h])

(* All of it.                                                               *)
ReconcileInv == ReconcileTypeOK /\ RegistryOrder /\ HandOrder /\ VerdictOrder /\ AgreeOrder

(* An entry, and what a host knows of its reconcile().                      *)
Entry == [def : Defs \cup {Absent}, phase : EntryPhases, number : 0 .. MaxEntries, removing : BOOLEAN]
HostDiff ==
    [phase : {"idle", "running", "done"}, want : [Ids -> Defs \cup {Absent}],
     drop : SUBSET Ids, apply : SUBSET Ids,
     id : Ids \cup {Absent}, number : 0 .. MaxEntries, stage : Stages,
     live : BOOLEAN, added : SUBSET Ids, replaced : SUBSET Ids,
     unchanged : SUBSET Ids, removed : SUBSET Ids, failed : SUBSET Ids]

(* The type invariant by these sets.                                        *)
LEMMA ReconcileTypes ==
    ReconcileTypeOK <=> /\ entry \in [Ids -> Entry] /\ diff \in [Hosts -> HostDiff]
                        /\ numbers \in 0 .. MaxEntries /\ connects \in 0 .. MaxHostConnects
BY DEF ReconcileTypeOK, Entry, HostDiff

(* The same of the next state.                                              *)
LEMMA ReconcileTypesNext ==
    ReconcileTypeOK' <=> /\ entry' \in [Ids -> Entry] /\ diff' \in [Hosts -> HostDiff]
                         /\ numbers' \in 0 .. MaxEntries /\ connects' \in 0 .. MaxHostConnects
BY DEF ReconcileTypeOK, Entry, HostDiff

(* What a removed id is.                                                    *)
LEMMA GoneIs ==
    Gone \in Entry /\ Gone.def = Absent /\ Gone.number = 0 /\ ~Gone.removing /\ Gone.phase = "down"
BY ReconcileAssumption DEF Gone, Entry, EntryPhases

(* An id whose swap or removal failed has a verdict.                        *)
LEMMA FailedIs ==
    ASSUME NEW c \in HostDiff, Verdicts(c), c.id \in Ids, c.phase = "running"
    PROVE  /\ Failed(c) \in HostDiff /\ Verdicts(Failed(c))
           /\ Failed(c).stage = "next" /\ Failed(c).id = Absent
           /\ Failed(c).phase = c.phase /\ Failed(c).want = c.want
           /\ Failed(c).drop = c.drop /\ Failed(c).apply = c.apply
           /\ Failed(c).added = c.added /\ Failed(c).replaced = c.replaced
           /\ Failed(c).unchanged = c.unchanged /\ Failed(c).removed = c.removed
           /\ Failed(c).failed = c.failed \cup {c.id}
<1> USE DEF Failed, Onwards
<1>1. Failed(c) \in HostDiff
  BY DEF HostDiff, Stages
<1>2. /\ Failed(c).stage = "next" /\ Failed(c).id = Absent
      /\ Failed(c).phase = c.phase /\ Failed(c).want = c.want
      /\ Failed(c).drop = c.drop /\ Failed(c).apply = c.apply
      /\ Failed(c).added = c.added /\ Failed(c).replaced = c.replaced
      /\ Failed(c).unchanged = c.unchanged /\ Failed(c).removed = c.removed
      /\ Failed(c).failed = c.failed \cup {c.id}
  BY DEF HostDiff
<1> HIDE DEF Failed, Onwards
<1>3. Verdicts(Failed(c))
  BY <1>2, ReconcileAssumption DEF Verdicts, Left, Counts, WantedBy, HostDiff
<1> QED BY <1>1, <1>2, <1>3

(* And so has one whose swap landed.                                        *)
LEMMA ReplacedIs ==
    ASSUME NEW c \in HostDiff, Verdicts(c), c.id \in Ids, c.phase = "running"
    PROVE  /\ Replaced(c) \in HostDiff /\ Verdicts(Replaced(c))
           /\ Replaced(c).stage = "next" /\ Replaced(c).id = Absent
           /\ Replaced(c).phase = c.phase /\ Replaced(c).want = c.want
           /\ Replaced(c).drop = c.drop /\ Replaced(c).apply = c.apply
           /\ Replaced(c).added = c.added /\ Replaced(c).replaced = c.replaced \cup {c.id}
           /\ Replaced(c).unchanged = c.unchanged /\ Replaced(c).removed = c.removed
           /\ Replaced(c).failed = c.failed
<1> USE DEF Replaced, Onwards
<1>1. Replaced(c) \in HostDiff
  BY DEF HostDiff, Stages
<1>2. /\ Replaced(c).stage = "next" /\ Replaced(c).id = Absent
      /\ Replaced(c).phase = c.phase /\ Replaced(c).want = c.want
      /\ Replaced(c).drop = c.drop /\ Replaced(c).apply = c.apply
      /\ Replaced(c).added = c.added /\ Replaced(c).replaced = c.replaced \cup {c.id}
      /\ Replaced(c).unchanged = c.unchanged /\ Replaced(c).removed = c.removed
      /\ Replaced(c).failed = c.failed
  BY DEF HostDiff
<1> HIDE DEF Replaced, Onwards
<1>3. Verdicts(Replaced(c))
  BY <1>2, ReconcileAssumption DEF Verdicts, Left, Counts, WantedBy, HostDiff
<1> QED BY <1>1, <1>2, <1>3

(* It holds before the first reconcile().                                   *)
LEMMA ReconcileBegins == ReconcileInit => ReconcileInv
<1> SUFFICES ASSUME ReconcileInit PROVE ReconcileInv
  OBVIOUS
<1>1. PICK have \in [Ids -> Defs \cup {Absent}] :
         entry = [i \in Ids |-> IF have[i] = Absent THEN Gone
                                ELSE [def |-> have[i], phase |-> "down", number |-> 1, removing |-> FALSE]]
  BY DEF ReconcileInit
<1>2. PICK want \in [Hosts -> [Ids -> Defs \cup {Absent}]] :
         diff = [h \in Hosts |-> [phase |-> "idle", want |-> want[h], drop |-> {}, apply |-> {},
                                  id |-> Absent, number |-> 0, stage |-> "next", live |-> FALSE,
                                  added |-> {}, replaced |-> {}, unchanged |-> {},
                                  removed |-> {}, failed |-> {}]]
  BY DEF ReconcileInit
<1>3. numbers = 1 /\ connects = 0 /\ MaxEntries \in Nat /\ MaxHostConnects \in Nat /\ MaxEntries # 0
  BY ReconcileAssumption DEF ReconcileInit
<1>4. ASSUME NEW i \in Ids
      PROVE  entry[i] \in Entry /\ ~entry[i].removing
             /\ IF entry[i].def = Absent THEN entry[i] = Gone ELSE entry[i].number = 1
  BY <1>1, <1>3, GoneIs DEF Entry, EntryPhases
<1>5. ASSUME NEW h \in Hosts
      PROVE  /\ diff[h] \in HostDiff
             /\ diff[h].phase = "idle" /\ diff[h].stage = "next" /\ diff[h].id = Absent
             /\ diff[h].drop = {} /\ diff[h].apply = {} /\ Counts(diff[h]) = {}
             /\ diff[h].added = {} /\ diff[h].removed = {} /\ diff[h].failed = {}
  BY <1>2, <1>3 DEF HostDiff, Stages, Counts
<1>6. ReconcileTypeOK
  <2>1. entry \in [Ids -> Entry]
    BY <1>1, <1>4
  <2>2. diff \in [Hosts -> HostDiff]
    BY <1>2, <1>5
  <2> QED BY <2>1, <2>2, <1>3, ReconcileTypes
<1>7. RegistryOrder
  BY <1>3, <1>4 DEF RegistryOrder
<1>8. HandOrder
  BY <1>5 DEF HandOrder, InHand, At, Swaps
<1>9. VerdictOrder
  BY <1>5, ReconcileAssumption DEF VerdictOrder, Verdicts, Left
<1>10. AgreeOrder
  BY <1>4, <1>5 DEF AgreeOrder, Stays
<1> QED BY <1>6, <1>7, <1>8, <1>9, <1>10 DEF ReconcileInv

-----------------------------------------------------------------------------
(* How a host goes on where no definition comes or goes: to the next id, or *)
(* to the next await about the one in hand.  Who begins a swap finds no     *)
(* other host swapping that entry.                                          *)
Joins(h) ==
    diff'[h].stage \in Swaps =>
        \/ /\ diff[h].stage \in Swaps
           /\ diff'[h].id = diff[h].id /\ diff'[h].number = diff[h].number
        \/ \A g \in Hosts \ {h} :
              /\ diff'[g] = diff[g]
              /\ ~(/\ diff[g].stage \in Swaps
                   /\ diff[g].id = diff'[h].id /\ diff[g].number = diff'[h].number)
Answers(c, d) ==
    \A i \in Ids :
        IF c.want[i] = Absent
        THEN (c.phase = "idle" \/ i \in c.drop \cup {c.id} \cup c.failed)
                => (d.phase = "idle" \/ i \in d.drop \cup {d.id} \cup d.failed \/ entry'[i] = Gone)
        ELSE i \in Counts(d) => i \in Counts(c) \/ entry'[i].def = c.want[i]
Lands(c, d) ==
    \A i \in Ids :
        /\ i \in (d.added \ c.added) \cup (d.replaced \ c.replaced) \cup (d.unchanged \ c.unchanged)
             => entry'[i].def = c.want[i]
        /\ i \in d.removed \ c.removed => entry'[i].number # c.number
Proceeds(h) ==
    /\ InHand(diff'[h]) /\ Joins(h) /\ Verdicts(diff'[h])
    /\ diff'[h].stage = "reconnecting" =>
         /\ diff[h].stage = "reconnecting" /\ diff[h].phase = "running"
         /\ diff'[h].id = diff[h].id /\ diff'[h].number = diff[h].number
    /\ diff'[h].want = diff[h].want
    /\ Answers(diff[h], diff'[h]) /\ Lands(diff[h], diff'[h])
Gentle ==
    /\ numbers' = numbers
    /\ \A i \in Ids :
         /\ entry'[i].def = entry[i].def /\ entry'[i].number = entry[i].number
         /\ entry[i] = Gone => entry'[i] = Gone
         /\ entry'[i].removing => entry[i].removing \/ \E h \in Hosts : diff[h].want[i] = Absent

(* A host that stands still proceeds.                                       *)
LEMMA StillProceeds ==
    ASSUME ReconcileInv, NEW h \in Hosts, diff'[h] = diff[h]
    PROVE  Proceeds(h)
<1>1. InHand(diff[h]) /\ Verdicts(diff[h])
  BY DEF ReconcileInv, HandOrder, VerdictOrder
<1>2. diff[h].stage = "reconnecting" => diff[h].phase = "running"
  BY <1>1 DEF InHand
<1> QED BY <1>1, <1>2 DEF Proceeds, Joins, Answers, Lands

(* No two hosts come to swap one entry.                                     *)
LEMMA SwapsStayApart ==
    ASSUME ReconcileInv, \A h \in Hosts : Joins(h)
    PROVE  \A h \in Hosts : \A g \in Hosts \ {h} :
              ~(/\ diff'[g].stage \in Swaps /\ diff'[h].stage \in Swaps
                /\ diff'[g].id = diff'[h].id /\ diff'[g].number = diff'[h].number)
BY DEF ReconcileInv, HandOrder, Joins

(* Where no definition comes or goes, the invariant stays.                  *)
LEMMA GentleKeeps ==
    ASSUME ReconcileInv, Gentle, \A h \in Hosts : Proceeds(h),
           entry' \in [Ids -> Entry], diff' \in [Hosts -> HostDiff], connects' \in 0 .. MaxHostConnects
    PROVE  ReconcileInv' /\ CountedAsLanded
<1>0. entry \in [Ids -> Entry] /\ diff \in [Hosts -> HostDiff] /\ numbers \in 0 .. MaxEntries
  BY ReconcileTypes DEF ReconcileInv
<1>1. ReconcileTypeOK'
  BY <1>0, ReconcileTypesNext DEF Gentle
<1>2. RegistryOrder'
  BY DEF ReconcileInv, RegistryOrder, Gentle
<1>3. \A h \in Hosts : InHand(diff[h])'
  BY DEF Proceeds, InHand, Gentle, Removes, Replaces
<1>4. ASSUME NEW h \in Hosts, At(h, "reconnecting")', Still(h)' PROVE Landed(h)'
  <2>1. /\ At(h, "reconnecting") /\ diff'[h].id = diff[h].id /\ diff'[h].number = diff[h].number
        /\ diff'[h].want = diff[h].want
    BY <1>4 DEF At, Proceeds
  <2>2. diff[h].id \in Ids
    BY <2>1, ReconcileAssumption DEF ReconcileInv, HandOrder, InHand, Removes, Replaces, At
  <2>3. Still(h)
    BY <1>4, <2>1, <2>2 DEF Still, Gentle
  <2>4. Landed(h)
    BY <2>1, <2>3 DEF ReconcileInv, HandOrder
  <2> QED BY <2>1, <2>2, <2>4 DEF Landed, Gentle
<1>5. HandOrder'
  BY <1>3, <1>4, SwapsStayApart DEF HandOrder, Proceeds
<1>6. VerdictOrder'
  BY DEF VerdictOrder, Proceeds
<1>7. AgreeOrder'
  <2> SUFFICES ASSUME SameWants', NEW h \in Hosts PROVE Stays(diff[h])'
    BY DEF AgreeOrder
  <2>1. SameWants
    BY DEF SameWants, Proceeds
  <2>2. Stays(diff[h])
    BY <2>1 DEF ReconcileInv, AgreeOrder
  <2>3. ASSUME NEW i \in Ids, diff[h].want[i] # Absent PROVE ~entry[i].removing /\ ~entry'[i].removing
    BY <2>1, <2>2, <2>3 DEF Stays, Gentle, SameWants
  <2> QED BY <2>2, <2>3 DEF Stays, Proceeds, Answers, Gentle
<1>8. CountedAsLanded
  BY DEF CountedAsLanded, Proceeds, Lands
<1> QED BY <1>1, <1>2, <1>5, <1>6, <1>7, <1>8 DEF ReconcileInv

(* One host goes on, the others stand still.                                *)
LEMMA OneProceeds ==
    ASSUME ReconcileInv, Gentle, NEW h \in Hosts, NEW d \in HostDiff, Becomes(h, d),
           Proceeds(h), entry' \in [Ids -> Entry], connects' = connects
    PROVE  ReconcileInv' /\ CountedAsLanded
<1>0. diff \in [Hosts -> HostDiff] /\ connects \in 0 .. MaxHostConnects
  BY ReconcileTypes DEF ReconcileInv
<1>1. diff' \in [Hosts -> HostDiff] /\ \A g \in Hosts \ {h} : diff'[g] = diff[g]
  BY <1>0 DEF Becomes
<1>2. \A g \in Hosts : Proceeds(g)
  BY <1>1, StillProceeds
<1> QED BY <1>0, <1>1, <1>2, GentleKeeps

(* What is known of the host that goes on.                                  *)
LEMMA HostIs ==
    ASSUME ReconcileInv, NEW h \in Hosts
    PROVE  /\ diff[h] \in HostDiff /\ Verdicts(diff[h]) /\ InHand(diff[h])
           /\ entry \in [Ids -> Entry] /\ diff \in [Hosts -> HostDiff]
           /\ \A d : Becomes(h, d) => diff'[h] = d
BY ReconcileTypes DEF ReconcileInv, HandOrder, VerdictOrder, Becomes

(* Where the registry rests.                                                *)
LEMMA RegistryRests == ASSUME ReconcileInv, UNCHANGED <<entry, numbers>> PROVE Gentle /\ entry' \in [Ids -> Entry]
BY ReconcileTypes DEF Gentle, ReconcileInv

(* A host reads the keys.                                                   *)
LEMMA BeginKeeps == ASSUME ReconcileInv, NEW h \in Hosts, Begin(h) PROVE ReconcileInv' /\ CountedAsLanded
<1> DEFINE d == [diff[h] EXCEPT !.phase = "running", !.drop = Registered \ WantedBy(diff[h]),
                                !.apply = WantedBy(diff[h])]
<1>1. diff[h].phase = "idle" /\ Becomes(h, d) /\ UNCHANGED <<entry, numbers, connects>>
  BY DEF Begin, WantedBy
<1>2. d \in HostDiff
  BY HostIs DEF HostDiff, WantedBy, Registered
<1>3. /\ d.phase = "running" /\ d.drop = Registered \ WantedBy(d) /\ d.apply = WantedBy(d)
      /\ d.stage = diff[h].stage /\ d.id = diff[h].id /\ d.number = diff[h].number /\ d.want = diff[h].want
      /\ d.added = diff[h].added /\ d.replaced = diff[h].replaced /\ d.unchanged = diff[h].unchanged
      /\ d.failed = diff[h].failed /\ d.removed = diff[h].removed
  BY HostIs DEF HostDiff, WantedBy
<1>4. diff'[h] = d
  BY <1>1, HostIs
<1> HIDE DEF d
<1>5. diff[h].stage = "next" /\ diff[h].id = Absent
  BY <1>1, HostIs DEF InHand
<1>6. Verdicts(d)
  BY <1>1, <1>3, <1>5, HostIs, ReconcileAssumption DEF Verdicts, Left, Counts, WantedBy, Registered
<1>7. Answers(diff[h], d) /\ Lands(diff[h], d)
  BY <1>1, <1>3 DEF Lands, Answers, Counts, WantedBy, Registered
<1>8. Proceeds(h)
  BY <1>3, <1>4, <1>5, <1>6, <1>7 DEF Proceeds, InHand, Joins, Swaps
<1> QED BY <1>1, <1>2, <1>8, RegistryRests, OneProceeds

(* A removal joins the one under way, or finds the id gone.                 *)
LEMMA RemoveKeeps == ASSUME ReconcileInv, NEW h \in Hosts, NEW i \in Ids, Remove(h, i) PROVE ReconcileInv' /\ CountedAsLanded
<1> DEFINE c == [diff[h] EXCEPT !.drop = diff[h].drop \ {i}, !.id = i, !.number = entry[i].number]
           d == IF entry[i] = Gone THEN Failed(c) ELSE [c EXCEPT !.stage = "removing"]
<1>1. /\ At(h, "next") /\ i \in diff[h].drop /\ Becomes(h, d) /\ UNCHANGED <<numbers, connects>>
      /\ entry' = IF entry[i] = Gone THEN entry ELSE [entry EXCEPT ![i].removing = TRUE]
  BY DEF Remove
<1>2. entry[i] \in Entry
  BY HostIs
<1>3. /\ c \in HostDiff /\ c.phase = "running" /\ c.drop = diff[h].drop \ {i} /\ c.apply = diff[h].apply
      /\ c.id = i /\ c.number = entry[i].number /\ c.want = diff[h].want /\ c.want[i] = Absent
      /\ c.added = diff[h].added /\ c.replaced = diff[h].replaced /\ c.unchanged = diff[h].unchanged
      /\ c.failed = diff[h].failed /\ c.removed = diff[h].removed
  <2>1. diff[h] \in HostDiff /\ entry[i].number \in 0 .. MaxEntries /\ diff[h].phase = "running"
    BY <1>1, <1>2, HostIs DEF Entry, At
  <2>2. diff[h].want[i] = Absent
    BY <1>1, HostIs DEF Verdicts, WantedBy
  <2>3. c \in HostDiff
    BY <2>1 DEF HostDiff
  <2> QED BY <2>1, <2>2, <2>3 DEF HostDiff
<1>4. diff[h].id = Absent /\ diff[h].phase = "running" /\ diff[h].stage = "next"
  BY <1>1, HostIs DEF InHand, At, Removes, Replaces, Swaps
<1> HIDE DEF c
<1>5. Verdicts(c)
  BY <1>1, <1>3, <1>4, HostIs, ReconcileAssumption DEF Verdicts, Left, Counts, WantedBy
<1>6. Gentle /\ entry' \in [Ids -> Entry]
  <2>1. CASE entry[i] = Gone
    BY <1>1, <2>1, RegistryRests
  <2>2. CASE entry[i] # Gone
    <3>1. entry' \in [Ids -> Entry] /\ \A j \in Ids \ {i} : entry'[j] = entry[j]
      BY <1>1, <1>2, <2>2, HostIs DEF Entry
    <3>2. entry'[i].def = entry[i].def /\ entry'[i].number = entry[i].number
      BY <1>1, <1>2, <2>2, HostIs DEF Entry
    <3>3. diff[h].want[i] = Absent
      BY <1>3
    <3> QED BY <1>1, <2>2, <3>1, <3>2, <3>3 DEF Gentle
  <2> QED BY <2>1, <2>2
<1>7. CASE entry[i] = Gone
  <2>1. d = Failed(c) /\ Failed(c) \in HostDiff /\ diff'[h] = Failed(c)
    BY <1>1, <1>3, <1>5, <1>7, FailedIs, HostIs
  <2>2. Answers(diff[h], Failed(c)) /\ Lands(diff[h], Failed(c))
    BY <1>3, <1>4, <1>5, FailedIs DEF Lands, Answers, Counts
  <2>3. Proceeds(h)
    BY <1>3, <1>5, <2>1, <2>2, FailedIs DEF Proceeds, InHand, Joins, Swaps
  <2> QED BY <1>1, <1>6, <2>1, <2>3, OneProceeds
<1>8. CASE entry[i] # Gone
  <2> DEFINE e == [c EXCEPT !.stage = "removing"]
  <2>1. d = e /\ e \in HostDiff /\ diff'[h] = e
    BY <1>1, <1>3, <1>8, HostIs DEF HostDiff, Stages
  <2>2. /\ e.stage = "removing" /\ e.phase = c.phase /\ e.drop = c.drop /\ e.apply = c.apply
        /\ e.id = c.id /\ e.number = c.number /\ e.want = c.want
        /\ e.added = c.added /\ e.replaced = c.replaced /\ e.unchanged = c.unchanged
        /\ e.failed = c.failed /\ e.removed = c.removed
    BY <1>3 DEF HostDiff
  <2> HIDE DEF e
  <2>3. Verdicts(e)
    BY <1>5, <2>2 DEF Verdicts, Left, Counts, WantedBy
  <2>4. Answers(diff[h], e) /\ Lands(diff[h], e)
    <3>1. /\ Counts(e) = Counts(diff[h]) /\ e.failed = diff[h].failed /\ diff[h].id = Absent
          /\ e.id = i /\ e.drop = diff[h].drop \ {i} /\ Absent \notin Ids
      BY <1>3, <1>4, <2>2, ReconcileAssumption DEF Counts
    <3>2. diff[h].phase = "running"
      BY <1>4
    <3>3. e.added = diff[h].added /\ e.replaced = diff[h].replaced /\ e.unchanged = diff[h].unchanged
          /\ e.removed = diff[h].removed
      BY <1>3, <2>2
    <3> QED BY <3>1, <3>2, <3>3 DEF Answers, Lands
  <2>5. InHand(e)
    BY <1>2, <1>3, <1>8, <2>2 DEF InHand, Removes, ReconcileInv, RegistryOrder
  <2>6. Proceeds(h)
    BY <1>3, <2>1, <2>2, <2>3, <2>4, <2>5 DEF Proceeds, Joins, Swaps
  <2> QED BY <1>1, <1>6, <2>1, <2>6, OneProceeds
<1> QED BY <1>7, <1>8

(* The last id has its verdict.                                             *)
LEMMA EndKeeps == ASSUME ReconcileInv, NEW h \in Hosts, End(h) PROVE ReconcileInv' /\ CountedAsLanded
<1> DEFINE d == [diff[h] EXCEPT !.phase = "done"]
<1>1. At(h, "next") /\ diff[h].drop = {} /\ diff[h].apply = {} /\ Becomes(h, d) /\ UNCHANGED <<entry, numbers, connects>>
  BY DEF End
<1>2. d \in HostDiff /\ diff'[h] = d
  BY <1>1, HostIs DEF HostDiff
<1>3. /\ d.phase = "done" /\ d.drop = diff[h].drop /\ d.apply = diff[h].apply
      /\ d.stage = diff[h].stage /\ d.id = diff[h].id /\ d.number = diff[h].number /\ d.want = diff[h].want
      /\ d.added = diff[h].added /\ d.replaced = diff[h].replaced /\ d.unchanged = diff[h].unchanged
      /\ d.failed = diff[h].failed /\ d.removed = diff[h].removed
  BY HostIs DEF HostDiff
<1> HIDE DEF d
<1>4. diff[h].phase = "running" /\ diff[h].stage = "next" /\ diff[h].id = Absent
  BY <1>1, HostIs DEF At, InHand, Removes, Replaces, Swaps
<1>5. Verdicts(d)
  BY <1>1, <1>3, <1>4, HostIs DEF Verdicts, Left, Counts, WantedBy
<1>6. Answers(diff[h], d) /\ Lands(diff[h], d)
  BY <1>3, <1>4 DEF Lands, Answers, Counts
<1>7. Proceeds(h)
  BY <1>2, <1>3, <1>4, <1>5, <1>6 DEF Proceeds, InHand, Joins, Swaps
<1> QED BY <1>1, <1>2, <1>7, RegistryRests, OneProceeds

(* A host moves on with the id in hand, from one await to the next.         *)
LEMMA AdvancesKeeps ==
    ASSUME ReconcileInv, NEW h \in Hosts, NEW stage \in {"settling", "closing", "swapped"}, NEW live \in BOOLEAN,
           Becomes(h, [diff[h] EXCEPT !.stage = stage, !.live = live]),
           diff[h].stage \in Swaps \cup {"queued"}, diff[h].phase = "running",
           diff[h].stage \in Swaps \/ ~Swapping(h, diff[h].id),
           Gentle, entry' \in [Ids -> Entry], connects' = connects
    PROVE  ReconcileInv' /\ CountedAsLanded
<1> DEFINE d == [diff[h] EXCEPT !.stage = stage, !.live = live]
<1>1. d \in HostDiff /\ diff'[h] = d /\ \A g \in Hosts \ {h} : diff'[g] = diff[g]
  <2>0. diff[h] \in HostDiff /\ stage \in Stages
    BY HostIs DEF Stages
  <2>1. d \in HostDiff
    BY <2>0 DEF HostDiff
  <2>2. diff' = [diff EXCEPT ![h] = d] /\ diff \in [Hosts -> HostDiff]
    BY HostIs DEF Becomes
  <2> QED BY <2>1, <2>2
<1>2. /\ d.stage = stage /\ d.phase = diff[h].phase /\ d.drop = diff[h].drop /\ d.apply = diff[h].apply
      /\ d.id = diff[h].id /\ d.number = diff[h].number /\ d.want = diff[h].want
      /\ d.added = diff[h].added /\ d.replaced = diff[h].replaced /\ d.unchanged = diff[h].unchanged
      /\ d.failed = diff[h].failed /\ d.removed = diff[h].removed
  BY HostIs DEF HostDiff
<1>3. Becomes(h, d)
  OBVIOUS
<1> HIDE DEF d
<1>4. Verdicts(d) /\ Answers(diff[h], d) /\ Lands(diff[h], d)
  BY <1>2, HostIs DEF Verdicts, Left, Counts, WantedBy, Answers, Lands
<1>5. InHand(d)
  BY <1>2, HostIs DEF InHand, Removes, Replaces, Swaps
<1>6. Joins(h)
  BY <1>1, <1>2 DEF Joins, Swapping, Swaps
<1>7. Proceeds(h)
  BY <1>1, <1>2, <1>4, <1>5, <1>6 DEF Proceeds
<1> QED BY <1>1, <1>3, <1>7, OneProceeds

(* The id in hand has failed.                                               *)
LEMMA FailedProceeds ==
    ASSUME ReconcileInv, NEW h \in Hosts, diff'[h] = Failed(diff[h]), diff[h].stage # "next"
    PROVE  Failed(diff[h]) \in HostDiff /\ Proceeds(h)
<1>1. diff[h].id \in Ids /\ diff[h].phase = "running"
  BY HostIs DEF InHand, Removes, Replaces
<1>2. Answers(diff[h], Failed(diff[h])) /\ Lands(diff[h], Failed(diff[h]))
  BY <1>1, FailedIs, HostIs DEF Answers, Counts, Lands
<1> QED BY <1>1, <1>2, FailedIs, HostIs DEF Proceeds, InHand, Joins, Swaps

(* The id in hand counts as replaced, and its definition is there.          *)
LEMMA ReplacedProceeds ==
    ASSUME ReconcileInv, NEW h \in Hosts, diff'[h] = Replaced(diff[h]),
           diff[h].stage \in Swaps \cup {"queued"}, entry'[diff[h].id].def = diff[h].want[diff[h].id]
    PROVE  Replaced(diff[h]) \in HostDiff /\ Proceeds(h)
<1>1. diff[h].id \in Ids /\ diff[h].phase = "running" /\ diff[h].want[diff[h].id] # Absent
  BY HostIs DEF InHand, Removes, Replaces, Swaps
<1>2. Answers(diff[h], Replaced(diff[h])) /\ Lands(diff[h], Replaced(diff[h]))
  BY <1>1, ReplacedIs, HostIs DEF Answers, Counts, Lands
<1> QED BY <1>1, <1>2, ReplacedIs, HostIs DEF Proceeds, InHand, Joins, Swaps

(* Where nothing else happens, the invariant stays.                         *)
LEMMA FailsKeeps ==
    ASSUME ReconcileInv, NEW h \in Hosts, Becomes(h, Failed(diff[h])),
           diff[h].stage # "next", Gentle, entry' \in [Ids -> Entry], connects' = connects
    PROVE  ReconcileInv' /\ CountedAsLanded
BY HostIs, FailedProceeds, OneProceeds

(* And so where the id counts.                                              *)
LEMMA ReplacesKeeps ==
    ASSUME ReconcileInv, NEW h \in Hosts, Becomes(h, Replaced(diff[h])),
           diff[h].stage \in Swaps \cup {"queued"}, Landed(h), UNCHANGED <<entry, numbers, connects>>
    PROVE  ReconcileInv' /\ CountedAsLanded
BY HostIs, ReplacedProceeds, RegistryRests, OneProceeds DEF Landed

(* replace() refuses, finds its work done, or begins.                       *)
LEMMA ReplaceKeeps == ASSUME ReconcileInv, NEW h \in Hosts, Replace(h) PROVE ReconcileInv' /\ CountedAsLanded
<1>1. At(h, "queued") /\ ~Swapping(h, diff[h].id) /\ UNCHANGED <<entry, numbers, connects>>
  BY DEF Replace
<1>2. \/ Becomes(h, Failed(diff[h]))
      \/ Becomes(h, Replaced(diff[h])) /\ Landed(h)
      \/ Becomes(h, [diff[h] EXCEPT !.stage = "settling"])
  BY DEF Replace, Refused, Landed
<1>3. CASE Becomes(h, Failed(diff[h]))
  BY <1>1, <1>3, RegistryRests, FailsKeeps DEF At
<1>4. CASE Becomes(h, Replaced(diff[h])) /\ Landed(h)
  BY <1>1, <1>4, ReplacesKeeps DEF At
<1>5. CASE Becomes(h, [diff[h] EXCEPT !.stage = "settling"])
  <2>1. [diff[h] EXCEPT !.stage = "settling"] = [diff[h] EXCEPT !.stage = "settling", !.live = diff[h].live]
        /\ diff[h].live \in BOOLEAN
    BY HostIs DEF HostDiff
  <2>2. Becomes(h, [diff[h] EXCEPT !.stage = "settling", !.live = diff[h].live])
    BY <1>5, <2>1
  <2> QED BY <1>1, <2>1, <2>2, RegistryRests, AdvancesKeeps DEF At
<1> QED BY <1>2, <1>3, <1>4, <1>5

(* The connect under way has settled.                                       *)
LEMMA SettleKeeps == ASSUME ReconcileInv, NEW h \in Hosts, Settle(h) PROVE ReconcileInv' /\ CountedAsLanded
<1>1. PICK up \in BOOLEAN, stage \in {"closing", "swapped"} :
         Becomes(h, [diff[h] EXCEPT !.live = up, !.stage = stage])
  BY DEF Settle
<1>2. [diff[h] EXCEPT !.live = up, !.stage = stage] = [diff[h] EXCEPT !.stage = stage, !.live = up]
  BY HostIs DEF HostDiff
<1>3. Becomes(h, [diff[h] EXCEPT !.stage = stage, !.live = up])
  BY <1>1, <1>2
<1>4. At(h, "settling") /\ UNCHANGED <<entry, numbers, connects>>
  BY DEF Settle
<1> QED BY <1>3, <1>4, RegistryRests, AdvancesKeeps DEF At, Swaps

(* Only the phase of an entry moves.                                        *)
LEMMA PhaseIsGentle ==
    ASSUME ReconcileInv, NEW i \in Ids, entry[i] # Gone, NEW to \in EntryPhases,
           entry' = [entry EXCEPT ![i].phase = to], numbers' = numbers
    PROVE  /\ Gentle /\ entry' \in [Ids -> Entry]
           /\ entry'[i].def = entry[i].def /\ \A j \in Ids \ {i} : entry'[j] = entry[j]
<1>1. entry \in [Ids -> Entry] /\ entry[i] \in Entry
  BY HostIs, ReconcileTypes DEF ReconcileInv
<1>2. entry'[i] = [entry[i] EXCEPT !.phase = to] /\ \A j \in Ids \ {i} : entry'[j] = entry[j]
  BY <1>1
<1>3. entry'[i].def = entry[i].def /\ entry'[i].number = entry[i].number /\ entry'[i].removing = entry[i].removing
      /\ entry'[i] \in Entry
  BY <1>1, <1>2 DEF Entry
<1>4. entry' \in [Ids -> Entry]
  BY <1>1, <1>2, <1>3
<1> QED BY <1>2, <1>3, <1>4 DEF Gentle

(* A host connects an entry.                                                *)
LEMMA HostConnectsKeeps == ASSUME ReconcileInv, NEW i \in Ids, HostConnects(i) PROVE ReconcileInv' /\ CountedAsLanded
<1>1. /\ entry[i] # Gone /\ connects < MaxHostConnects /\ connects' = connects + 1 /\ UNCHANGED <<diff, numbers>>
      /\ entry' = [entry EXCEPT ![i].phase = "connecting"]
  BY DEF HostConnects, Registered
<1>2. diff \in [Hosts -> HostDiff] /\ connects \in 0 .. MaxHostConnects /\ MaxHostConnects \in Nat
  BY ReconcileTypes, ReconcileAssumption DEF ReconcileInv
<1>3. diff' \in [Hosts -> HostDiff] /\ connects' \in 0 .. MaxHostConnects
  BY <1>1, <1>2
<1>4. Gentle /\ entry' \in [Ids -> Entry]
  BY <1>1, PhaseIsGentle DEF EntryPhases
<1>5. \A h \in Hosts : Proceeds(h)
  BY <1>1, StillProceeds
<1> QED BY <1>3, <1>4, <1>5, GentleKeeps

(* A connect ends, for the swaps that waited for it.                        *)
LEMMA ConnectSettlesKeeps ==
    ASSUME ReconcileInv, NEW i \in Ids, NEW to \in {"up", "down", "parked", "stuck"}, ConnectSettles(i, to)
    PROVE  ReconcileInv' /\ CountedAsLanded
<1> DEFINE settles(h) == At(h, "reconnecting") /\ diff[h].id = i /\ Still(h)
<1>1. /\ entry[i].phase = "connecting" /\ entry' = [entry EXCEPT ![i].phase = to] /\ UNCHANGED <<numbers, connects>>
      /\ diff' = [h \in Hosts |-> IF settles(h)
                                  THEN IF Counted(h, to) THEN Replaced(diff[h]) ELSE Failed(diff[h])
                                  ELSE diff[h]]
  BY DEF ConnectSettles
<1>2. Gentle /\ entry' \in [Ids -> Entry] /\ entry'[i].def = entry[i].def
  BY <1>1, GoneIs, PhaseIsGentle DEF EntryPhases
<1>3. \A h \in Hosts : settles(h) => Landed(h)
  BY DEF ReconcileInv, HandOrder
<1>4. ASSUME NEW h \in Hosts PROVE diff'[h] \in HostDiff /\ Proceeds(h)
  <2>1. CASE settles(h)
    <3>1. /\ diff'[h] = Replaced(diff[h]) \/ diff'[h] = Failed(diff[h])
          /\ Landed(h) /\ diff[h].id = i /\ diff[h].stage = "reconnecting"
      BY <1>1, <1>3, <2>1 DEF At
    <3>2. diff[h].stage \in Swaps \cup {"queued"} /\ entry'[diff[h].id].def = diff[h].want[diff[h].id]
      BY <1>2, <3>1 DEF Swaps, Landed
    <3> QED BY <3>1, <3>2, ReplacedProceeds, FailedProceeds
  <2>2. CASE ~settles(h)
    <3>1. diff'[h] = diff[h]
      BY <1>1, <2>2
    <3> QED BY <3>1, HostIs, StillProceeds
  <2> QED BY <2>1, <2>2
<1>5. diff' \in [Hosts -> HostDiff] /\ connects' \in 0 .. MaxHostConnects
  BY <1>1, <1>4, ReconcileTypes DEF ReconcileInv
<1> QED BY <1>2, <1>4, <1>5, GentleKeeps

(* A removal fails, for everyone who waits for it.                          *)
LEMMA RemoveFailsKeeps == ASSUME ReconcileInv, NEW i \in Ids, RemoveFails(i) PROVE ReconcileInv' /\ CountedAsLanded
<1>1. /\ entry[i].removing /\ UNCHANGED <<numbers, connects>>
      /\ entry' = [entry EXCEPT ![i].phase = "stuck", ![i].removing = FALSE]
      /\ diff' = [h \in Hosts |-> IF h \in Waiting(i) THEN Failed(diff[h]) ELSE diff[h]]
  BY DEF RemoveFails
<1>2. entry[i] # Gone /\ entry[i] \in Entry /\ entry \in [Ids -> Entry]
  BY <1>1, GoneIs, ReconcileTypes DEF ReconcileInv
<1>3. Gentle /\ entry' \in [Ids -> Entry]
  <2> DEFINE held == [entry[i] EXCEPT !.phase = "stuck", !.removing = FALSE]
  <2>1. held.def = entry[i].def /\ held.number = entry[i].number /\ ~held.removing /\ held \in Entry
    BY <1>2 DEF Entry, EntryPhases
  <2>2. entry'[i] = held /\ \A j \in Ids \ {i} : entry'[j] = entry[j]
    BY <1>1, <1>2
  <2> HIDE DEF held
  <2>3. entry' \in [Ids -> Entry]
    BY <1>1, <1>2, <2>1, <2>2
  <2> QED BY <1>1, <1>2, <2>1, <2>2, <2>3 DEF Gentle
<1>4. ASSUME NEW h \in Hosts PROVE diff'[h] \in HostDiff /\ Proceeds(h)
  <2>1. CASE h \in Waiting(i)
    <3>1. diff'[h] = Failed(diff[h]) /\ diff[h].stage # "next"
      BY <1>1, <2>1 DEF Waiting, At
    <3> QED BY <3>1, FailedProceeds
  <2>2. CASE h \notin Waiting(i)
    <3>1. diff'[h] = diff[h]
      BY <1>1, <2>2
    <3> QED BY <3>1, HostIs, StillProceeds
  <2> QED BY <2>1, <2>2
<1>5. diff' \in [Hosts -> HostDiff] /\ connects' \in 0 .. MaxHostConnects
  BY <1>1, <1>4, ReconcileTypes DEF ReconcileInv
<1> QED BY <1>3, <1>4, <1>5, GentleKeeps

(* The transport of the connection that is swapped closes.                  *)
LEMMA SwapClosesKeeps ==
    ASSUME ReconcileInv, NEW h \in Hosts, NEW fails \in BOOLEAN, SwapCloses(h, fails)
    PROVE  ReconcileInv' /\ CountedAsLanded
<1>1. At(h, "closing") /\ UNCHANGED <<numbers, connects>>
  BY DEF SwapCloses
<1>2. diff[h].id \in Ids /\ diff[h].stage # "next" /\ diff[h].stage \in Swaps /\ diff[h].phase = "running"
  BY <1>1, HostIs DEF InHand, Removes, Replaces, At, Swaps
<1>3. CASE ~Still(h)
  BY <1>1, <1>2, <1>3, RegistryRests, FailsKeeps DEF SwapCloses
<1>4. CASE Still(h)
  <2> DEFINE to == IF fails THEN "stuck" ELSE "down"
  <2>1. /\ to \in EntryPhases /\ entry' = [entry EXCEPT ![diff[h].id].phase = to]
        /\ Becomes(h, IF fails THEN Failed(diff[h]) ELSE [diff[h] EXCEPT !.stage = "swapped"])
    BY <1>4 DEF SwapCloses, EntryPhases
  <2>2. Gentle /\ entry' \in [Ids -> Entry]
    BY <1>1, <1>2, <1>4, <2>1, PhaseIsGentle DEF Still
  <2>3. CASE fails
    BY <1>1, <1>2, <2>1, <2>2, <2>3, FailsKeeps
  <2>4. CASE ~fails
    <3>1. [diff[h] EXCEPT !.stage = "swapped"] = [diff[h] EXCEPT !.stage = "swapped", !.live = diff[h].live]
          /\ diff[h].live \in BOOLEAN
      BY HostIs DEF HostDiff
    <3>2. Becomes(h, [diff[h] EXCEPT !.stage = "swapped", !.live = diff[h].live])
      BY <2>1, <2>4, <3>1
    <3> QED BY <1>1, <1>2, <2>2, <3>1, <3>2, AdvancesKeeps
  <2> QED BY <2>3, <2>4
<1> QED BY <1>3, <1>4

(* A removal lands, for everyone who waits for it.                          *)
LEMMA RemovedIs ==
    ASSUME NEW c \in HostDiff, Verdicts(c), c.id \in Ids, c.want[c.id] = Absent, c.phase = "running", NEW d \in {[Onwards(c) EXCEPT !.removed = c.removed \cup {c.id}]}
    PROVE  /\ d \in HostDiff /\ Verdicts(d) /\ d.stage = "next" /\ d.id = Absent
           /\ d.phase = c.phase /\ d.want = c.want /\ d.drop = c.drop /\ d.apply = c.apply
           /\ d.added = c.added /\ d.replaced = c.replaced /\ d.unchanged = c.unchanged
           /\ d.removed = c.removed \cup {c.id} /\ d.failed = c.failed
<1>0. d = [Onwards(c) EXCEPT !.removed = c.removed \cup {c.id}]
  OBVIOUS
<1>1. d \in HostDiff
  BY <1>0 DEF HostDiff, Stages, Onwards
<1>2. /\ d.stage = "next" /\ d.id = Absent
      /\ d.phase = c.phase /\ d.want = c.want /\ d.drop = c.drop /\ d.apply = c.apply
      /\ d.added = c.added /\ d.replaced = c.replaced /\ d.unchanged = c.unchanged
      /\ d.removed = c.removed \cup {c.id} /\ d.failed = c.failed
  BY <1>0 DEF HostDiff, Onwards
<1>3. Verdicts(d)
  BY <1>2, ReconcileAssumption DEF Verdicts, Left, Counts, WantedBy, HostDiff
<1> QED BY <1>1, <1>2, <1>3

LEMMA RemoveLandsKeeps == ASSUME ReconcileInv, NEW i \in Ids, RemoveLands(i) PROVE ReconcileInv' /\ CountedAsLanded
<1>1. /\ entry[i].removing /\ entry' = [entry EXCEPT ![i] = Gone] /\ UNCHANGED <<numbers, connects>>
      /\ diff' = [h \in Hosts |-> IF h \in Waiting(i)
                                  THEN [Onwards(diff[h]) EXCEPT !.removed = @ \cup {i}] ELSE diff[h]]
  BY DEF RemoveLands
<1>2. entry \in [Ids -> Entry] /\ diff \in [Hosts -> HostDiff] /\ numbers \in 0 .. MaxEntries /\ connects \in 0 .. MaxHostConnects
  BY ReconcileTypes DEF ReconcileInv
<1>3. entry' \in [Ids -> Entry] /\ entry'[i] = Gone /\ \A j \in Ids \ {i} : entry'[j] = entry[j]
  BY <1>1, <1>2, GoneIs
<1>4. ASSUME NEW h \in Hosts, h \in Waiting(i)
      PROVE  /\ diff'[h] \in HostDiff /\ Verdicts(diff'[h]) /\ diff'[h].stage = "next" /\ diff'[h].id = Absent
             /\ diff'[h].phase = "running" /\ diff'[h].want = diff[h].want /\ diff'[h].drop = diff[h].drop
             /\ diff'[h].added = diff[h].added /\ diff'[h].replaced = diff[h].replaced
             /\ diff'[h].unchanged = diff[h].unchanged /\ diff'[h].failed = diff[h].failed
             /\ diff'[h].removed = diff[h].removed \cup {i}
             /\ diff[h].id = i /\ diff[h].phase = "running" /\ diff[h].number \in 1 .. numbers
  <2>1. diff[h].id = i /\ diff[h].phase = "running" /\ diff[h].stage = "removing"
    BY <1>4 DEF Waiting, At
  <2>2. diff[h].number \in 1 .. numbers
    BY <2>1, HostIs DEF InHand
  <2>3. diff'[h] = [Onwards(diff[h]) EXCEPT !.removed = diff[h].removed \cup {diff[h].id}]
    <3>1. Onwards(diff[h]).removed = diff[h].removed
      BY <1>2 DEF Onwards, HostDiff
    <3> QED BY <1>1, <1>4, <2>1, <3>1
  <2>4. diff[h].want[diff[h].id] = Absent /\ diff[h] \in HostDiff /\ Verdicts(diff[h])
    BY <2>1, HostIs DEF InHand, Removes, Replaces, Swaps
  <2>5. diff[h].id \in Ids /\ diff'[h] \in {[Onwards(diff[h]) EXCEPT !.removed = diff[h].removed \cup {diff[h].id}]}
    BY <2>1, <2>3
  <2>6. /\ diff'[h] \in HostDiff /\ Verdicts(diff'[h]) /\ diff'[h].stage = "next" /\ diff'[h].id = Absent
        /\ diff'[h].phase = diff[h].phase /\ diff'[h].want = diff[h].want /\ diff'[h].drop = diff[h].drop
        /\ diff'[h].added = diff[h].added /\ diff'[h].replaced = diff[h].replaced
        /\ diff'[h].unchanged = diff[h].unchanged /\ diff'[h].failed = diff[h].failed
        /\ diff'[h].removed = diff[h].removed \cup {diff[h].id}
    BY <2>1, <2>4, <2>5, RemovedIs
  <2> QED BY <2>1, <2>2, <2>6
<1>5. ASSUME NEW h \in Hosts, h \notin Waiting(i) PROVE diff'[h] = diff[h]
  BY <1>1, <1>5
<1>6. diff' \in [Hosts -> HostDiff]
  BY <1>1, <1>2, <1>4, <1>5
<1>7. ReconcileTypeOK'
  BY <1>1, <1>2, <1>3, <1>6, ReconcileTypesNext
<1>8. RegistryOrder'
  BY <1>1, <1>3, GoneIs DEF ReconcileInv, RegistryOrder
<1>9. HandOrder'
  <2>1. \A h \in Hosts : InHand(diff[h])'
    <3> SUFFICES ASSUME NEW h \in Hosts PROVE InHand(diff[h])'
      OBVIOUS
    <3>1. CASE h \in Waiting(i)
      BY <1>4, <3>1 DEF InHand
    <3>2. CASE h \notin Waiting(i)
      BY <1>1, <1>5, <3>2, HostIs DEF InHand, Removes, Replaces
    <3> QED BY <3>1, <3>2
  <2>2. ASSUME NEW h \in Hosts, At(h, "reconnecting")', Still(h)' PROVE Landed(h)'
    <3>1. h \notin Waiting(i)
      BY <1>4, <2>2 DEF At
    <3>2. diff'[h] = diff[h] /\ At(h, "reconnecting")
      BY <1>5, <2>2, <3>1 DEF At
    <3>3. diff[h].id \in Ids
      BY <3>2, HostIs DEF InHand, Removes, Replaces, At
    <3>4. diff[h].id # i /\ Still(h)
      BY <1>3, <2>2, <3>2, <3>3 DEF Still
    <3>5. Landed(h)
      BY <3>2, <3>4 DEF ReconcileInv, HandOrder
    <3> QED BY <1>3, <3>2, <3>3, <3>4, <3>5 DEF Landed
  <2>3. \A h \in Hosts : diff'[h].stage \in Swaps => diff'[h] = diff[h]
    BY <1>4, <1>5 DEF Swaps
  <2>4. \A h \in Hosts : Joins(h)
    BY <2>3 DEF Joins
  <2> QED BY <2>1, <2>2, <2>4, SwapsStayApart DEF HandOrder
<1>10. VerdictOrder'
  BY <1>4, <1>5, HostIs DEF VerdictOrder
<1>11. AgreeOrder'
  <2> SUFFICES ASSUME SameWants', NEW h \in Hosts, NEW j \in Ids
               PROVE  IF diff'[h].want[j] = Absent
                      THEN diff'[h].phase = "idle" \/ j \in diff'[h].drop \cup {diff'[h].id} \cup diff'[h].failed \/ entry'[j] = Gone
                      ELSE ~entry'[j].removing /\ (j \in Counts(diff'[h]) => entry'[j].def = diff'[h].want[j])
    BY DEF AgreeOrder, Stays
  <2>1. \A g \in Hosts : diff'[g].want = diff[g].want
    BY <1>4, <1>5
  <2>2. SameWants
    BY <2>1 DEF SameWants
  <2>3. Stays(diff[h])
    BY <2>2 DEF ReconcileInv, AgreeOrder
  <2>4. diff[h].want[i] = Absent
    BY <1>1, <2>3 DEF Stays
  <2>5. CASE j = i
    BY <1>3, <2>1, <2>4, <2>5
  <2>6. CASE j # i
    <3>1. entry'[j] = entry[j] /\ Counts(diff'[h]) = Counts(diff[h])
      BY <1>3, <1>4, <1>5, <2>6 DEF Counts
    <3>2. \/ diff'[h] = diff[h]
          \/ /\ diff[h].id = i /\ diff'[h].drop = diff[h].drop /\ diff'[h].failed = diff[h].failed
             /\ diff[h].phase = "running"
      BY <1>4, <1>5
    <3> QED BY <2>1, <2>3, <2>6, <3>1, <3>2 DEF Stays
  <2> QED BY <2>5, <2>6
<1>12. CountedAsLanded
  BY <1>3, <1>4, <1>5, GoneIs DEF CountedAsLanded
<1> QED BY <1>7, <1>8, <1>9, <1>10, <1>11, <1>12 DEF ReconcileInv

(* A definition is added, found unchanged, or queued for its swap.          *)
LEMMA ApplyKeeps == ASSUME ReconcileInv, NEW h \in Hosts, NEW i \in Ids, Apply(h, i) PROVE ReconcileInv' /\ CountedAsLanded
<1> DEFINE c == [diff[h] EXCEPT !.apply = diff[h].apply \ {i}, !.id = i, !.number = entry[i].number]
           more == [Onwards(c) EXCEPT !.added = c.added \cup {i}]
           same == [Onwards(c) EXCEPT !.unchanged = c.unchanged \cup {i}]
           waits == [c EXCEPT !.stage = "queued"]
<1>1. At(h, "next") /\ diff[h].drop = {} /\ i \in diff[h].apply /\ UNCHANGED connects
  BY DEF Apply
<1>2. /\ diff[h] \in HostDiff /\ diff[h].phase = "running" /\ diff[h].stage = "next" /\ diff[h].id = Absent
      /\ diff[h].want[i] # Absent /\ diff[h].want \in [Ids -> Defs \cup {Absent}]
  <2>1. diff[h] \in HostDiff /\ diff[h].phase = "running" /\ diff[h].stage = "next"
    BY <1>1, HostIs DEF At
  <2>2. diff[h].id = Absent
    BY <2>1, HostIs DEF InHand, Removes, Replaces, Swaps
  <2>3. diff[h].want[i] # Absent
    BY <1>1, HostIs DEF Verdicts, WantedBy
  <2> QED BY <2>1, <2>2, <2>3 DEF HostDiff
<1>3. /\ entry \in [Ids -> Entry] /\ entry[i] \in Entry /\ diff \in [Hosts -> HostDiff]
      /\ numbers \in 0 .. MaxEntries /\ connects \in 0 .. MaxHostConnects
  BY ReconcileTypes DEF ReconcileInv
<1>4. /\ c \in HostDiff /\ c.phase = "running" /\ c.drop = diff[h].drop /\ c.apply = diff[h].apply \ {i}
      /\ c.id = i /\ c.number = entry[i].number /\ c.want = diff[h].want /\ c.stage = "next"
      /\ c.added = diff[h].added /\ c.replaced = diff[h].replaced /\ c.unchanged = diff[h].unchanged
      /\ c.failed = diff[h].failed /\ c.removed = diff[h].removed
  <2>1. entry[i].number \in 0 .. MaxEntries
    BY <1>3 DEF Entry
  <2> QED BY <1>2, <2>1 DEF HostDiff
<1>5. \/ /\ entry[i] = Gone /\ numbers < MaxEntries /\ numbers' = numbers + 1
         /\ entry' = [entry EXCEPT ![i] = [Gone EXCEPT !.def = diff[h].want[i], !.number = numbers + 1]]
         /\ Becomes(h, more)
      \/ entry[i] # Gone /\ entry[i].def = diff[h].want[i] /\ Becomes(h, same) /\ UNCHANGED <<entry, numbers>>
      \/ entry[i] # Gone /\ Becomes(h, waits) /\ UNCHANGED <<entry, numbers>>
  <2>1. c.want[i] = diff[h].want[i] /\ Onwards(c).added = c.added /\ Onwards(c).unchanged = c.unchanged
    BY <1>4 DEF Onwards, HostDiff
  <2> QED BY <2>1 DEF Apply
<1> HIDE DEF c
<1>6. Verdicts(c)
  BY <1>1, <1>2, <1>4, HostIs, ReconcileAssumption DEF Verdicts, Left, Counts, WantedBy
<1>7. CASE /\ entry[i] = Gone /\ numbers < MaxEntries /\ numbers' = numbers + 1
           /\ entry' = [entry EXCEPT ![i] = [Gone EXCEPT !.def = diff[h].want[i], !.number = numbers + 1]]
           /\ Becomes(h, more)
  <2>1. /\ more.stage = "next" /\ more.id = Absent /\ more.phase = c.phase /\ more.want = c.want
        /\ more.drop = c.drop /\ more.apply = c.apply /\ more.added = c.added \cup {i}
        /\ more.replaced = c.replaced /\ more.unchanged = c.unchanged /\ more.removed = c.removed
        /\ more.failed = c.failed /\ more \in HostDiff
    <3>1. more \in HostDiff
      BY <1>4 DEF HostDiff, Stages, Onwards
    <3> QED BY <1>4, <3>1 DEF HostDiff, Onwards
  <2>2. diff'[h] = more /\ (\A g \in Hosts \ {h} : diff'[g] = diff[g]) /\ diff' \in [Hosts -> HostDiff]
    BY <1>3, <1>7, <2>1 DEF Becomes
  <2> DEFINE fresh == [Gone EXCEPT !.def = diff[h].want[i], !.number = numbers + 1]
  <2>3. /\ fresh \in Entry /\ fresh.def = diff[h].want[i] /\ fresh.number = numbers + 1 /\ ~fresh.removing
        /\ numbers + 1 \in 0 .. MaxEntries
    <3>1. numbers + 1 \in 0 .. MaxEntries /\ diff[h].want[i] \in Defs \cup {Absent}
      BY <1>2, <1>3, <1>7, ReconcileAssumption
    <3> QED BY <3>1, GoneIs DEF Entry
  <2>4. entry' \in [Ids -> Entry] /\ entry'[i] = fresh /\ \A j \in Ids \ {i} : entry'[j] = entry[j]
    BY <1>3, <1>7, <2>3
  <2> HIDE DEF more, fresh
  <2>5. Verdicts(more)
    BY <1>4, <1>6, <2>1, ReconcileAssumption DEF Verdicts, Left, Counts, WantedBy, HostDiff
  <2>6. ReconcileTypeOK'
    BY <1>1, <1>3, <1>7, <2>2, <2>3, <2>4, ReconcileTypesNext
  <2>7. RegistryOrder'
    BY <1>2, <1>3, <1>7, <2>3, <2>4 DEF ReconcileInv, RegistryOrder
  <2>8. HandOrder'
    <3>1. \A g \in Hosts : InHand(diff[g])'
      <4>1. InHand(diff[h])'
        BY <2>1, <2>2 DEF InHand
      <4>2. ASSUME NEW g \in Hosts \ {h} PROVE InHand(diff[g])'
        <5>1. InHand(diff[g]) /\ diff'[g] = diff[g]
          BY <2>2, HostIs
        <5> QED BY <5>1, <1>3, <1>7 DEF InHand, Removes, Replaces
      <4> QED BY <4>1, <4>2
    <3>2. ASSUME NEW g \in Hosts, At(g, "reconnecting")', Still(g)' PROVE Landed(g)'
      <4>1. g # h /\ diff'[g] = diff[g] /\ At(g, "reconnecting")
        BY <2>1, <2>2, <3>2 DEF At
      <4>2. diff[g].id \in Ids /\ diff[g].number \in 1 .. numbers
        BY <4>1, HostIs DEF InHand, Removes, Replaces, At
      <4>3. diff[g].id # i
        BY <1>3, <2>3, <2>4, <3>2, <4>1, <4>2 DEF Still
      <4>4. Still(g) /\ Landed(g)
        BY <2>4, <3>2, <4>1, <4>2, <4>3 DEF Still, ReconcileInv, HandOrder
      <4> QED BY <2>4, <4>1, <4>2, <4>3, <4>4 DEF Landed
    <3>3. \A g \in Hosts : diff'[g].stage \in Swaps => diff'[g] = diff[g]
      BY <2>1, <2>2 DEF Swaps
    <3>4. \A g \in Hosts : Joins(g)
      BY <3>3 DEF Joins
    <3> QED BY <3>1, <3>2, <3>4, SwapsStayApart DEF HandOrder
  <2>9. VerdictOrder'
    BY <2>2, <2>5, HostIs DEF VerdictOrder
  <2>10. AgreeOrder'
    <3> SUFFICES ASSUME SameWants', NEW g \in Hosts PROVE Stays(diff[g])'
      BY DEF AgreeOrder
    <3>1. \A f \in Hosts : diff'[f].want = diff[f].want
      BY <1>4, <2>1, <2>2
    <3>2. SameWants /\ Stays(diff[g])
      BY <3>1 DEF SameWants, ReconcileInv, AgreeOrder
    <3>3. diff[g].want = diff[h].want
      BY <3>2 DEF SameWants
    <3>4. ASSUME NEW j \in Ids \ {i}
          PROVE  /\ entry'[j] = entry[j]
                 /\ diff[g].phase = "idle" \/ j \in diff[g].drop \cup {diff[g].id} \cup diff[g].failed
                      => diff'[g].phase = "idle" \/ j \in diff'[g].drop \cup {diff'[g].id} \cup diff'[g].failed
                 /\ j \in Counts(diff'[g]) => j \in Counts(diff[g])
      <4>1. CASE g = h
        BY <1>2, <1>4, <2>1, <2>2, <2>4, <4>1, ReconcileAssumption DEF Counts
      <4>2. CASE g # h
        BY <2>2, <2>4, <4>2
      <4> QED BY <4>1, <4>2
    <3>5. /\ diff'[g].want[i] # Absent /\ ~entry'[i].removing /\ entry'[i].def = diff'[g].want[i]
      BY <1>2, <2>3, <2>4, <3>1, <3>3
    <3> QED BY <3>1, <3>2, <3>4, <3>5 DEF Stays
  <2>11. CountedAsLanded
    BY <1>4, <2>1, <2>2, <2>3, <2>4 DEF CountedAsLanded
  <2> QED BY <2>6, <2>7, <2>8, <2>9, <2>10, <2>11 DEF ReconcileInv
<1>8. CASE entry[i] # Gone /\ entry[i].def = diff[h].want[i] /\ Becomes(h, same) /\ UNCHANGED <<entry, numbers>>
  <2>1. /\ same.stage = "next" /\ same.id = Absent /\ same.phase = c.phase /\ same.want = c.want
        /\ same.drop = c.drop /\ same.apply = c.apply /\ same.unchanged = c.unchanged \cup {i}
        /\ same.replaced = c.replaced /\ same.added = c.added /\ same.removed = c.removed
        /\ same.failed = c.failed /\ same \in HostDiff
    <3>1. same \in HostDiff
      BY <1>4 DEF HostDiff, Stages, Onwards
    <3> QED BY <1>4, <3>1 DEF HostDiff, Onwards
  <2>2. diff'[h] = same
    BY <1>8, HostIs
  <2> HIDE DEF same
  <2>3. Verdicts(same)
    BY <1>4, <1>6, <2>1, ReconcileAssumption DEF Verdicts, Left, Counts, WantedBy, HostDiff
  <2>4. Answers(diff[h], same) /\ Lands(diff[h], same)
    BY <1>2, <1>4, <1>8, <2>1, ReconcileAssumption DEF Answers, Counts, Lands
  <2>5. Proceeds(h)
    BY <1>4, <2>1, <2>2, <2>3, <2>4 DEF Proceeds, InHand, Joins, Swaps
  <2> QED BY <1>1, <1>8, <2>1, <2>5, RegistryRests, OneProceeds
<1>9. CASE entry[i] # Gone /\ Becomes(h, waits) /\ UNCHANGED <<entry, numbers>>
  <2>1. /\ waits.stage = "queued" /\ waits.id = i /\ waits.phase = c.phase /\ waits.want = c.want
        /\ waits.drop = c.drop /\ waits.apply = c.apply /\ waits.unchanged = c.unchanged
        /\ waits.replaced = c.replaced /\ waits.added = c.added /\ waits.removed = c.removed
        /\ waits.failed = c.failed /\ waits.number = c.number /\ waits \in HostDiff
    <3>1. waits \in HostDiff
      BY <1>4 DEF HostDiff, Stages
    <3> QED BY <1>4, <3>1 DEF HostDiff
  <2>2. diff'[h] = waits
    BY <1>9, HostIs
  <2> HIDE DEF waits
  <2>3. Verdicts(waits)
    BY <1>4, <1>6, <2>1 DEF Verdicts, Left, Counts, WantedBy
  <2>4. Answers(diff[h], waits) /\ Lands(diff[h], waits)
    BY <1>2, <1>4, <2>1, ReconcileAssumption DEF Answers, Counts, Lands
  <2>5. InHand(waits)
    BY <1>2, <1>4, <1>9, <2>1 DEF InHand, Replaces, ReconcileInv, RegistryOrder
  <2>6. Proceeds(h)
    BY <1>4, <2>1, <2>2, <2>3, <2>4, <2>5 DEF Proceeds, Joins, Swaps
  <2> QED BY <1>1, <1>9, <2>1, <2>6, RegistryRests, OneProceeds
<1> QED BY <1>5, <1>7, <1>8, <1>9

(* A swap lands: the definition of the entry changes, and nobody else swaps *)
(* that entry.                                                              *)
LEMMA SwapKeeps == ASSUME ReconcileInv, NEW h \in Hosts, Swap(h) PROVE ReconcileInv' /\ CountedAsLanded
<1> DEFINE i == diff[h].id
           waits == [diff[h] EXCEPT !.stage = "reconnecting"]
<1>1. At(h, "swapped") /\ UNCHANGED <<numbers, connects>>
  BY DEF Swap
<1>2. /\ i \in Ids /\ diff[h].stage = "swapped" /\ diff[h].phase = "running" /\ diff[h].want[i] # Absent
      /\ diff[h] \in HostDiff /\ Verdicts(diff[h]) /\ diff[h].number \in 1 .. numbers
  BY <1>1, HostIs DEF InHand, Removes, Replaces, At, Swaps
<1>3. /\ entry \in [Ids -> Entry] /\ entry[i] \in Entry /\ diff \in [Hosts -> HostDiff]
      /\ numbers \in 0 .. MaxEntries /\ connects \in 0 .. MaxHostConnects
  BY <1>2, ReconcileTypes DEF ReconcileInv
<1>4. CASE ~Still(h)
  BY <1>1, <1>2, <1>4, RegistryRests, FailsKeeps DEF Swap
<1>5. CASE Still(h)
  <2>1. PICK to \in EntryPhases :
           entry' = [entry EXCEPT ![i].def = diff[h].want[i], ![i].phase = to]
    <3>1. entry[i].phase \in EntryPhases /\ "connecting" \in EntryPhases
      BY <1>3 DEF Entry, EntryPhases
    <3> QED BY <1>5, <3>1 DEF Swap
  <2> DEFINE swapped == [entry[i] EXCEPT !.def = diff[h].want[i], !.phase = to]
  <2>2. /\ swapped.def = diff[h].want[i] /\ swapped.number = entry[i].number
        /\ swapped.removing = entry[i].removing /\ swapped \in Entry
    BY <1>2, <1>3 DEF Entry, HostDiff
  <2>3. entry'[i] = swapped /\ \A j \in Ids \ {i} : entry'[j] = entry[j]
    BY <1>2, <1>3, <2>1
  <2> HIDE DEF swapped
  <2>4. entry' \in [Ids -> Entry]
    BY <1>3, <2>1, <2>2, <2>3
  <2>5. entry[i].number = diff[h].number /\ entry[i] # Gone
    BY <1>5 DEF Still
  <2>6. PICK d \in HostDiff :
          /\ Becomes(h, d) /\ Verdicts(d) /\ InHand(d) /\ d.want = diff[h].want
          /\ d.phase = "running" /\ d.drop = diff[h].drop
          /\ \/ d.stage = "next"
             \/ d.stage = "reconnecting" /\ d.id = i /\ d.number = diff[h].number
          /\ diff[h].failed \subseteq d.failed /\ i \in {d.id} \cup d.failed \cup Counts(d)
          /\ Counts(d) \subseteq Counts(diff[h]) \cup {i}
          /\ d.added \subseteq diff[h].added /\ d.unchanged \subseteq diff[h].unchanged
          /\ d.removed \subseteq diff[h].removed /\ d.replaced \subseteq diff[h].replaced \cup {i}
    <3>1. Becomes(h, Replaced(diff[h])) \/ Becomes(h, Failed(diff[h])) \/ Becomes(h, waits)
      BY <1>5 DEF Swap
    <3>2. CASE Becomes(h, Replaced(diff[h]))
      BY <1>2, <3>2, ReplacedIs DEF InHand, Counts
    <3>3. CASE Becomes(h, Failed(diff[h]))
      BY <1>2, <3>3, FailedIs DEF InHand, Counts
    <3>4. CASE Becomes(h, waits)
      <4>1. /\ waits.stage = "reconnecting" /\ waits.id = i /\ waits.phase = diff[h].phase
            /\ waits.want = diff[h].want /\ waits.number = diff[h].number
            /\ waits.drop = diff[h].drop /\ waits.apply = diff[h].apply /\ waits.unchanged = diff[h].unchanged
            /\ waits.replaced = diff[h].replaced /\ waits.added = diff[h].added
            /\ waits.removed = diff[h].removed /\ waits.failed = diff[h].failed /\ waits \in HostDiff
        <5>1. waits \in HostDiff
          BY <1>2 DEF HostDiff, Stages
        <5> QED BY <1>2, <5>1 DEF HostDiff
      <4> HIDE DEF waits
      <4>2. Verdicts(waits)
        BY <1>2, <4>1 DEF Verdicts, Left, Counts, WantedBy
      <4>3. InHand(waits)
        BY <1>2, <4>1 DEF InHand, Replaces, Swaps
      <4> QED BY <1>2, <3>4, <4>1, <4>2, <4>3 DEF Counts
    <3> QED BY <3>1, <3>2, <3>3, <3>4
  <2>7. diff'[h] = d /\ (\A g \in Hosts \ {h} : diff'[g] = diff[g]) /\ diff' \in [Hosts -> HostDiff]
    BY <1>3, <2>6 DEF Becomes
  <2>8. ReconcileTypeOK'
    BY <1>1, <1>3, <2>4, <2>7, ReconcileTypesNext
  <2>9. RegistryOrder'
    BY <1>1, <1>2, <2>2, <2>3, <2>5 DEF ReconcileInv, RegistryOrder
  <2>10. HandOrder'
    <3>1. \A g \in Hosts : InHand(diff[g])'
      <4>1. ASSUME NEW g \in Hosts PROVE InHand(diff'[g])
        BY <2>6, <2>7, HostIs
      <4> QED BY <1>1, <4>1 DEF InHand, Removes, Replaces
    <3>2. ASSUME NEW g \in Hosts, At(g, "reconnecting")', Still(g)' PROVE Landed(g)'
      <4>1. CASE g = h
        <5>1. diff'[h].id = i /\ diff'[h].want = diff[h].want
          BY <2>6, <2>7, <3>2, <4>1 DEF At
        <5> QED BY <2>2, <2>3, <4>1, <5>1 DEF Landed
      <4>2. CASE g # h
        <5>1. diff'[g] = diff[g] /\ At(g, "reconnecting")
          BY <2>7, <3>2, <4>2 DEF At
        <5>2. diff[g].id \in Ids
          BY <5>1, HostIs DEF InHand, Removes, Replaces, At
        <5>3. diff[g].id # i
          <6> SUFFICES ASSUME diff[g].id = i PROVE FALSE
            OBVIOUS
          <6>1. diff[g].number = diff[h].number
            BY <2>2, <2>3, <2>5, <3>2, <5>1 DEF Still
          <6> QED BY <1>2, <4>2, <5>1, <6>1 DEF ReconcileInv, HandOrder, At, Swaps
        <5>4. Still(g) /\ Landed(g)
          BY <2>3, <3>2, <5>1, <5>2, <5>3 DEF Still, ReconcileInv, HandOrder
        <5> QED BY <2>3, <5>1, <5>2, <5>3, <5>4 DEF Landed
      <4> QED BY <4>1, <4>2
    <3>3. \A g \in Hosts : Joins(g)
      BY <1>2, <2>6, <2>7 DEF Joins, Swaps
    <3> QED BY <3>1, <3>2, <3>3, SwapsStayApart DEF HandOrder
  <2>11. VerdictOrder'
    BY <2>6, <2>7, HostIs DEF VerdictOrder
  <2>12. AgreeOrder'
    <3> SUFFICES ASSUME SameWants', NEW g \in Hosts PROVE Stays(diff[g])'
      BY DEF AgreeOrder
    <3>1. \A f \in Hosts : diff'[f].want = diff[f].want
      BY <2>6, <2>7
    <3>2. SameWants /\ Stays(diff[g])
      BY <3>1 DEF SameWants, ReconcileInv, AgreeOrder
    <3>3. diff[g].want = diff[h].want
      BY <3>2 DEF SameWants
    <3>4. ASSUME NEW j \in Ids \ {i}
          PROVE  /\ entry'[j] = entry[j]
                 /\ diff[g].phase = "idle" \/ j \in diff[g].drop \cup {diff[g].id} \cup diff[g].failed
                      => diff'[g].phase = "idle" \/ j \in diff'[g].drop \cup {diff'[g].id} \cup diff'[g].failed
                 /\ j \in Counts(diff'[g]) => j \in Counts(diff[g])
      <4>1. CASE g = h
        BY <1>2, <2>3, <2>6, <2>7, <4>1
      <4>2. CASE g # h
        BY <2>3, <2>7, <4>2
      <4> QED BY <4>1, <4>2
    <3>5. /\ diff'[g].want[i] # Absent /\ ~entry'[i].removing /\ entry'[i].def = diff'[g].want[i]
      BY <1>2, <2>2, <2>3, <3>1, <3>2, <3>3 DEF Stays
    <3> QED BY <1>2, <3>1, <3>2, <3>4, <3>5 DEF Stays
  <2>13. CountedAsLanded
    <3>1. ASSUME NEW g \in Hosts, g # h PROVE diff'[g] = diff[g]
      BY <2>7, <3>1
    <3> QED BY <2>2, <2>3, <2>6, <2>7, <3>1 DEF CountedAsLanded
  <2> QED BY <2>8, <2>9, <2>10, <2>11, <2>12, <2>13 DEF ReconcileInv
<1> QED BY <1>4, <1>5

(* A swap that is refused because its entry has gone is not of the entry    *)
(* that is there.                                                           *)
LEMMA GoneElsewhere ==
    ASSUME ReconcileInv, NEW h \in Hosts, ~Still(h), diff[h].stage \in Swaps \cup {"queued"}, entry' = entry
    PROVE  diff[h].id \in Ids /\ entry'[diff[h].id].number # diff[h].number
BY HostIs, GoneIs DEF Still, InHand, Removes, Replaces, Swaps, ReconcileInv, RegistryOrder

(* No swap that has landed on a connection in use is counted as failed.     *)
LEMMA SwapsCount ==
    ASSUME ReconcileInv, ReconcileNext
    PROVE  LandedIsCounted
<1> SUFFICES ASSUME NEW h \in Hosts, NEW i \in Ids, FailedHere(h, i)
             PROVE  entry'[i].def # diff[h].want[i] \/ entry'[i].phase = "stuck"
  BY DEF LandedIsCounted
<1>1. /\ i \in diff'[h].failed /\ i \notin diff[h].failed /\ diff[h].want[i] # Absent
      /\ entry'[i].number = diff[h].number /\ ~entry'[i].removing
  BY DEF FailedHere
<1>2. /\ diff[h] \in HostDiff /\ Verdicts(diff[h]) /\ InHand(diff[h]) /\ diff \in [Hosts -> HostDiff]
      /\ entry \in [Ids -> Entry]
  BY HostIs
<1>3. \A c \in HostDiff : Replaced(c).failed = c.failed /\ Onwards(c).failed = c.failed
                           /\ Failed(c).failed = c.failed \cup {c.id}
  BY DEF Replaced, Onwards, Failed, HostDiff
<1>4. ASSUME NEW g \in Hosts, NEW d, Becomes(g, d), d.failed \subseteq diff[g].failed PROVE FALSE
  BY <1>1, <1>2, <1>4 DEF Becomes
<1>5. ASSUME NEW g \in Hosts, Becomes(g, Failed(diff[g]))
      PROVE  g = h /\ i = diff[h].id
  BY <1>1, <1>2, <1>3, <1>5 DEF Becomes
<1>6. CASE \E k \in Ids : HostConnects(k)
  BY <1>1, <1>6 DEF HostConnects
<1>7. ASSUME NEW k \in Ids, RemoveLands(k) PROVE FALSE
  <2>1. diff'[h] = [Onwards(diff[h]) EXCEPT !.removed = @ \cup {k}] \/ diff'[h] = diff[h]
    BY <1>2, <1>7 DEF RemoveLands
  <2> QED BY <1>1, <1>2, <2>1 DEF Onwards, HostDiff
<1>8. ASSUME NEW k \in Ids, RemoveFails(k) PROVE FALSE
  <2>1. diff'[h] = diff[h] \/ (h \in Waiting(k) /\ diff'[h] = Failed(diff[h]))
    BY <1>2, <1>8 DEF RemoveFails
  <2>2. h \in Waiting(k) /\ i = diff[h].id
    BY <1>1, <1>2, <1>3, <2>1
  <2> QED BY <1>1, <1>2, <2>2 DEF Waiting, At, InHand, Removes, Replaces, Swaps
<1>9. ASSUME NEW k \in Ids, NEW to \in {"up", "down", "parked", "stuck"}, ConnectSettles(k, to)
      PROVE  entry'[i].phase = "stuck"
  <2>1. /\ diff'[h] = diff[h] \/ diff'[h] = Replaced(diff[h]) \/ diff'[h] = Failed(diff[h])
        /\ diff'[h] # diff[h] => /\ At(h, "reconnecting") /\ diff[h].id = k /\ Still(h)
                                 /\ Counted(h, to) => diff'[h] = Replaced(diff[h])
    BY <1>2, <1>9 DEF ConnectSettles
  <2>2. diff'[h] = Failed(diff[h]) /\ i = k /\ diff[h].id = k /\ At(h, "reconnecting") /\ Still(h) /\ ~Counted(h, to)
    BY <1>1, <1>2, <1>3, <2>1
  <2>3. Landed(h)
    BY <2>2 DEF ReconcileInv, HandOrder
  <2>4. to = "stuck"
    BY <2>2, <2>3 DEF Counted
  <2> QED BY <1>2, <1>9, <2>2, <2>4 DEF ConnectSettles, Entry
<1>10. ASSUME NEW g \in Hosts, Begin(g) \/ Settle(g) \/ End(g) PROVE FALSE
  <2>1. PICK d : Becomes(g, d) /\ d.failed = diff[g].failed
    <3>1. diff[g] \in HostDiff
      BY <1>2
    <3>2. CASE Begin(g)
      <4> DEFINE d == [diff[g] EXCEPT !.phase = "running", !.drop = Registered \ WantedBy(diff[g]),
                                      !.apply = WantedBy(diff[g])]
      <4>1. Becomes(g, d)
        BY <3>2 DEF Begin, WantedBy
      <4>2. d.failed = diff[g].failed
        BY <3>1 DEF HostDiff
      <4> QED BY <4>1, <4>2
    <3>3. CASE Settle(g)
      <4>1. PICK up \in BOOLEAN, stage \in {"closing", "swapped"} :
               Becomes(g, [diff[g] EXCEPT !.live = up, !.stage = stage])
        BY <3>3 DEF Settle
      <4>2. [diff[g] EXCEPT !.live = up, !.stage = stage].failed = diff[g].failed
        BY <3>1 DEF HostDiff
      <4> QED BY <4>1, <4>2
    <3>4. CASE End(g)
      BY <3>1, <3>4 DEF End, HostDiff
    <3> QED BY <1>10, <3>2, <3>3, <3>4
  <2> QED BY <1>4, <2>1
<1>11. ASSUME NEW g \in Hosts, Replace(g)
       PROVE  entry'[i].def # diff[h].want[i]
  <2>1. At(g, "queued") /\ diff[g] \in HostDiff /\ entry' = entry
    BY <1>2, <1>11 DEF Replace
  <2>2. CASE Becomes(g, Failed(diff[g]))
    <3>1. g = h /\ i = diff[h].id
      BY <1>5, <2>2
    <3>2. CASE ~Still(h)
      BY <1>1, <2>1, <3>1, <3>2, GoneElsewhere DEF At
    <3>3. CASE Still(h)
      <4>1. CASE entry[i].def = diff[h].want[i]
        <5>1. Becomes(h, Replaced(diff[h]))
          BY <1>11, <3>1, <3>3, <4>1 DEF Replace
        <5> QED BY <1>2, <1>3, <1>4, <5>1
      <4> QED BY <2>1, <4>1
    <3> QED BY <3>2, <3>3
  <2>3. CASE Becomes(g, Replaced(diff[g]))
    BY <1>3, <1>4, <2>1, <2>3
  <2>4. CASE Becomes(g, [diff[g] EXCEPT !.stage = "settling"])
    BY <1>4, <2>1, <2>4 DEF HostDiff
  <2> QED BY <1>11, <2>2, <2>3, <2>4 DEF Replace, Refused
<1>12. ASSUME NEW g \in Hosts, Swap(g)
       PROVE  entry'[i].phase = "stuck"
  <2>1. At(g, "swapped") /\ diff[g] \in HostDiff
    BY <1>2, <1>12 DEF Swap
  <2>2. CASE Becomes(g, Failed(diff[g]))
    <3>1. g = h /\ i = diff[h].id
      BY <1>5, <2>2
    <3>2. CASE ~Still(h)
      BY <1>1, <1>12, <2>1, <3>1, <3>2, GoneElsewhere DEF At, Swap, Swaps
    <3>3. CASE Still(h)
      <4> DEFINE idle == ~diff[h].live \/ entry[i].phase = "parked" \/ (entry[i].phase = "up" /\ ~entry[i].removing)
                 refused == diff[h].live /\ entry[i].phase # "parked" /\ (entry[i].phase = "stuck" \/ entry[i].removing)
      <4>1. /\ entry' = [entry EXCEPT ![i].def = diff[h].want[i],
                                      ![i].phase = IF ~idle /\ ~refused THEN "connecting" ELSE @]
            /\ Becomes(h, CASE idle -> Replaced(diff[h])
                             [] refused -> Failed(diff[h])
                             [] OTHER -> [diff[h] EXCEPT !.stage = "reconnecting"])
        BY <1>12, <3>1, <3>3 DEF Swap
      <4>2. ~idle
        <5> SUFFICES ASSUME idle PROVE FALSE
          OBVIOUS
        <5>1. ~refused
          OBVIOUS
        <5>2. Becomes(h, Replaced(diff[h]))
          BY <4>1, <5>1
        <5> QED BY <1>2, <1>3, <1>4, <5>2
      <4>3. refused
        <5> SUFFICES ASSUME ~refused PROVE FALSE
          OBVIOUS
        <5>1. Becomes(h, [diff[h] EXCEPT !.stage = "reconnecting"])
          BY <4>1, <4>2
        <5> QED BY <1>2, <1>4, <5>1 DEF HostDiff
      <4>4. entry'[i].phase = entry[i].phase /\ entry'[i].removing = entry[i].removing
        BY <1>2, <4>1, <4>3 DEF Entry
      <4> QED BY <1>1, <4>3, <4>4
    <3> QED BY <3>2, <3>3
  <2>3. CASE Becomes(g, Replaced(diff[g]))
    BY <1>3, <1>4, <2>1, <2>3
  <2>4. CASE Becomes(g, [diff[g] EXCEPT !.stage = "reconnecting"])
    BY <1>4, <2>1, <2>4 DEF HostDiff
  <2> QED BY <1>12, <2>2, <2>3, <2>4 DEF Swap
<1>13. ASSUME NEW g \in Hosts, NEW k \in Ids, Remove(g, k) PROVE FALSE
  <2> DEFINE c == [diff[g] EXCEPT !.drop = diff[g].drop \ {k}, !.id = k, !.number = entry[k].number]
  <2>1. diff[g] \in HostDiff /\ k \in diff[g].drop /\ Verdicts(diff[g])
    BY <1>2, <1>13, HostIs DEF Remove
  <2>2. c \in HostDiff /\ c.failed = diff[g].failed /\ c.id = k
    BY <1>2, <2>1 DEF HostDiff, Entry
  <2>3. Becomes(g, Failed(c)) \/ Becomes(g, [c EXCEPT !.stage = "removing"])
    BY <1>13 DEF Remove
  <2> HIDE DEF c
  <2>4. CASE Becomes(g, Failed(c))
    <3>1. g = h /\ i = k
      BY <1>1, <1>2, <1>3, <2>2, <2>4 DEF Becomes
    <3> QED BY <1>1, <2>1, <3>1 DEF Verdicts, WantedBy
  <2>5. CASE Becomes(g, [c EXCEPT !.stage = "removing"])
    <3>1. [c EXCEPT !.stage = "removing"].failed = diff[g].failed
      BY <2>2 DEF HostDiff
    <3> QED BY <1>4, <2>5, <3>1
  <2> QED BY <2>3, <2>4, <2>5
<1>14. ASSUME NEW g \in Hosts, NEW k \in Ids, Apply(g, k) PROVE FALSE
  <2>1. PICK d : Becomes(g, d) /\ d.failed = diff[g].failed
    <3>1. diff[g] \in HostDiff
      BY <1>2
    <3> DEFINE c == [diff[g] EXCEPT !.apply = diff[g].apply \ {k}, !.id = k, !.number = entry[k].number]
               added == [Onwards(c) EXCEPT !.added = c.added \cup {k}]
               same == [Onwards(c) EXCEPT !.unchanged = c.unchanged \cup {k}]
               waits == [c EXCEPT !.stage = "queued"]
    <3>3. added.failed = diff[g].failed /\ same.failed = diff[g].failed /\ waits.failed = diff[g].failed
      BY <3>1 DEF Onwards, HostDiff
    <3>4. Onwards(c).added = c.added /\ Onwards(c).unchanged = c.unchanged
      BY <3>1 DEF Onwards, HostDiff
    <3>5. Becomes(g, added) \/ Becomes(g, same) \/ Becomes(g, waits)
      BY <1>14, <3>4 DEF Apply
    <3> QED BY <3>3, <3>5
  <2> QED BY <1>4, <2>1
<1>15. ASSUME NEW g \in Hosts, NEW fails \in BOOLEAN, SwapCloses(g, fails)
       PROVE  entry'[i].phase = "stuck"
  <2>1. At(g, "closing") /\ diff[g] \in HostDiff
    BY <1>2, <1>15 DEF SwapCloses
  <2>2. CASE Becomes(g, Failed(diff[g]))
    <3>1. g = h /\ i = diff[h].id
      BY <1>5, <2>2
    <3>2. CASE ~Still(h)
      BY <1>1, <1>15, <2>1, <3>1, <3>2, GoneElsewhere DEF At, SwapCloses, Swaps
    <3>3. CASE Still(h)
      <4>1. fails
        <5> SUFFICES ASSUME ~fails PROVE FALSE
          OBVIOUS
        <5>1. Becomes(h, [diff[h] EXCEPT !.stage = "swapped"])
          BY <1>15, <3>1, <3>3 DEF SwapCloses
        <5> QED BY <1>2, <1>4, <5>1 DEF HostDiff
      <4> QED BY <1>2, <1>15, <3>1, <3>3, <4>1 DEF SwapCloses, Entry
    <3> QED BY <3>2, <3>3
  <2>3. CASE Becomes(g, [diff[g] EXCEPT !.stage = "swapped"])
    BY <1>4, <2>1, <2>3 DEF HostDiff
  <2> QED BY <1>15, <2>2, <2>3 DEF SwapCloses
<1> QED BY <1>6, <1>7, <1>8, <1>9, <1>10, <1>11, <1>12, <1>13, <1>14, <1>15 DEF ReconcileNext

(* Every step keeps the invariant, and counts what has landed.              *)
LEMMA ReconcileStep ==
    ASSUME ReconcileInv, [ReconcileNext]_reconcileVars
    PROVE  ReconcileInv' /\ [CountedAsLanded /\ LandedIsCounted]_reconcileVars
<1>1. CASE ReconcileNext
  <2>0. LandedIsCounted
    BY <1>1, SwapsCount
  <2>1. CASE \E i \in Ids : HostConnects(i) \/ RemoveLands(i) \/ RemoveFails(i)
    BY <2>0, <2>1, HostConnectsKeeps, RemoveLandsKeeps, RemoveFailsKeeps
  <2>2. CASE \E i \in Ids, to \in {"up", "down", "parked", "stuck"} : ConnectSettles(i, to)
    BY <2>0, <2>2, ConnectSettlesKeeps
  <2>3. CASE \E h \in Hosts : Begin(h) \/ Replace(h) \/ Settle(h) \/ Swap(h) \/ End(h)
    BY <2>0, <2>3, BeginKeeps, ReplaceKeeps, SettleKeeps, SwapKeeps, EndKeeps
  <2>4. CASE \E h \in Hosts, i \in Ids : Remove(h, i) \/ Apply(h, i)
    BY <2>0, <2>4, RemoveKeeps, ApplyKeeps
  <2>5. CASE \E h \in Hosts, fails \in BOOLEAN : SwapCloses(h, fails)
    BY <2>0, <2>5, SwapClosesKeeps
  <2> QED BY <1>1, <2>1, <2>2, <2>3, <2>4, <2>5 DEF ReconcileNext
<1>2. CASE UNCHANGED reconcileVars
  <2>1. UNCHANGED <<entry, diff, numbers, connects>>
    BY <1>2 DEF reconcileVars
  <2>2. \A h \in Hosts : Proceeds(h)
    BY <2>1, StillProceeds
  <2>3. diff' \in [Hosts -> HostDiff] /\ connects' \in 0 .. MaxHostConnects
    BY <2>1, ReconcileTypes DEF ReconcileInv
  <2> QED BY <1>2, <2>1, <2>2, <2>3, RegistryRests, GentleKeeps
<1> QED BY <1>1, <1>2

(* What the invariant says of the ends of the calls.                        *)
LEMMA ReconcileSays == ReconcileInv => ReconcileTypeOK /\ EveryIdAnswered /\ SameLeft
<1> SUFFICES ASSUME ReconcileInv PROVE ReconcileTypeOK /\ EveryIdAnswered /\ SameLeft
  OBVIOUS
<1>1. ASSUME NEW h \in Hosts, diff[h].phase = "done"
      PROVE  /\ diff[h].id = Absent /\ diff[h].drop = {} /\ diff[h].apply = {} /\ Verdicts(diff[h])
             /\ diff[h] \in HostDiff
  BY <1>1, HostIs DEF InHand, Verdicts
<1>2. EveryIdAnswered
  BY <1>1, ReconcileAssumption DEF EveryIdAnswered, Verdicts, WantedBy, Counts
<1>3. SameLeft
  <2> SUFFICES ASSUME SameWants, \A h \in Hosts : diff[h].phase = "done" /\ diff[h].failed = {},
                      NEW h \in Hosts, NEW i \in Ids
               PROVE  entry[i].def = diff[h].want[i]
    BY DEF SameLeft
  <2>1. Stays(diff[h])
    BY DEF ReconcileInv, AgreeOrder
  <2>2. diff[h].phase = "done" /\ diff[h].failed = {} /\ diff[h].id = Absent /\ diff[h].drop = {} /\ diff[h].apply = {}
    BY <1>1
  <2>3. CASE diff[h].want[i] = Absent
    BY <2>1, <2>2, <2>3, GoneIs, ReconcileAssumption DEF Stays
  <2>4. CASE diff[h].want[i] # Absent
    <3>1. i \in Counts(diff[h])
      BY <1>1, <2>2, <2>4, ReconcileAssumption DEF Verdicts, WantedBy
    <3> QED BY <2>1, <2>4, <3>1 DEF Stays
  <2> QED BY <2>3, <2>4
<1> QED BY <1>2, <1>3 DEF ReconcileInv

(* The diff a reconcile() reports is the diff that landed, in both          *)
(* directions but for a quarantined connection, and it is of every id,      *)
(* however many hosts reconcile at once.                                    *)
THEOREM DiffAlwaysTrue == ReconcileSpec => DiffIsTrue
<1>1. ReconcileInit => ReconcileInv
  BY ReconcileBegins
<1>2. ReconcileInv /\ [ReconcileNext]_reconcileVars => ReconcileInv' /\ [CountedAsLanded /\ LandedIsCounted]_reconcileVars
  BY ReconcileStep
<1>3. ReconcileInv => ReconcileTypeOK /\ EveryIdAnswered /\ SameLeft
  BY ReconcileSays
<1> QED BY <1>1, <1>2, <1>3, PTL DEF ReconcileSpec, DiffIsTrue

-----------------------------------------------------------------------------
(* What is not refused is well defined, whatever the options.               *)
LEMMA NotRefused ==
  ASSUME NEW o \in Definitions!Options
  PROVE  Definitions!WellDefined(o)
<1> DEFINE d == Definitions!Definition(o)
<1> SUFFICES ASSUME ~Definitions!Refused(o)
             PROVE
        /\ d.auth # "none" =>
              {n \in o.headers \cup o.init : Definitions!Lower(n) = "authorization"} = {}
        /\ (d.auth # "none" /\ d.cache.store) => d.cache.partition # Omitted
        /\ \A c \in {<<"elicitation", "elicitation/create">>, <<"roots", "roots/list">>,
                     <<"sampling", "sampling/createMessage">>} :
             (c[1] \in d.capabilities) = (c[2] \in d.serves)
        /\ d.serves # {} => d.rounds = 1
        /\ d.kind = "sse" => d.negotiation = "legacy"
        /\ (d.kind = "in-process" /\ o.era = "legacy") => d.negotiation = "legacy"
        /\ (d.kind = "in-process" /\ o.era = "modern") => d.negotiation # "legacy"
  BY DEF Definitions!WellDefined
<1>0. /\ ~Definitions!Overridden(o) /\ ~Definitions!Unpartitioned(o)
      /\ ~Definitions!HandlersRefused(o) /\ ~Definitions!VersionRefused(o)
  BY DEF Definitions!Refused
<1>1. /\ d.kind = o.kind /\ d.rounds = o.rounds
      /\ d.auth = IF Definitions!Http(o) THEN o.auth ELSE "none"
      /\ d.negotiation = Definitions!Negotiation(o)
      /\ d.capabilities = Definitions!Capabilities(o) /\ d.serves = Definitions!Served(o)
      /\ d.cache = IF Definitions!Http(o)
                   THEN [store |-> o.store \/ o.client.store, partition |-> o.partition]
                   ELSE [store |-> o.client.store, partition |-> Omitted]
  BY DEF Definitions!Definition
<1> HIDE DEF d
<1>2. d.auth # "none" =>
        {n \in o.headers \cup o.init : Definitions!Lower(n) = "authorization"} = {}
  BY <1>0, <1>1 DEF Definitions!Overridden, Definitions!Supplied
<1>3. (d.auth # "none" /\ d.cache.store) => d.cache.partition # Omitted
  <2> SUFFICES ASSUME d.auth # "none", d.cache.store PROVE d.cache.partition # Omitted
    OBVIOUS
  <2>2. Definitions!Http(o) /\ d.auth = o.auth
    BY <1>1
  <2> DEFINE both == o.store \/ o.client.store
  <2>3. both \in BOOLEAN /\ d.cache = [store |-> both, partition |-> o.partition]
    BY <1>1, <2>2
  <2> HIDE DEF both
  <2>4. d.cache.partition = o.partition /\ d.cache.store = both
    BY <2>3
  <2>5. o.store \/ o.client.store
    BY <2>3, <2>4 DEF both
  <2> QED BY <1>0, <2>2, <2>4, <2>5 DEF Definitions!Unpartitioned
<1>4. \A c \in {<<"elicitation", "elicitation/create">>, <<"roots", "roots/list">>,
                <<"sampling", "sampling/createMessage">>} :
        (c[1] \in d.capabilities) = (c[2] \in d.serves)
  <2>1. "elicitation" \in Definitions!Capabilities(o) <=> "elicitation/create" \in o.handlers
    BY DEF Definitions!Capabilities
  <2>2. "sampling" \in Definitions!Capabilities(o) <=> "sampling/createMessage" \in o.handlers
    BY DEF Definitions!Capabilities
  <2>3. "roots" \in Definitions!Capabilities(o) <=>
          "roots/list" \in o.handlers \/ o.roots # Omitted
    BY DEF Definitions!Capabilities
  <2>4. /\ "elicitation/create" \in Definitions!Served(o) <=> "elicitation/create" \in o.handlers
        /\ "sampling/createMessage" \in Definitions!Served(o)
             <=> "sampling/createMessage" \in o.handlers
        /\ "roots/list" \in Definitions!Served(o) <=>
             "roots/list" \in o.handlers \/ o.roots # Omitted
    BY DEF Definitions!Served
  <2> QED BY <1>1, <2>1, <2>2, <2>3, <2>4
<1>5. d.serves # {} => d.rounds = 1
  BY <1>0, <1>1 DEF Definitions!Served, Definitions!HandlersRefused, Definitions!Options
<1>6. /\ d.kind = "sse" => d.negotiation = "legacy"
      /\ (d.kind = "in-process" /\ o.era = "legacy") => d.negotiation = "legacy"
      /\ (d.kind = "in-process" /\ o.era = "modern") => d.negotiation # "legacy"
  BY <1>0, <1>1 DEF Definitions!Negotiation, Definitions!VersionRefused
<1> QED BY <1>2, <1>3, <1>4, <1>5, <1>6

(* Two fingerprints that are equal stand for one behaviour.                 *)
LEMMA FingerprintTells ==
  ASSUME NEW o \in Definitions!Options, NEW p \in Definitions!Options
  PROVE  Definitions!SameShape(o, p)
<1> SUFFICES ASSUME o.client = p.client, o.kind = "custom" => o.target = p.target,
                    Definitions!Comparable(o), Definitions!Comparable(p),
                    Definitions!Fingerprint(o) = Definitions!Fingerprint(p)
             PROVE  Definitions!Definition(o) = Definitions!Definition(p)
  BY DEF Definitions!SameShape, Definitions!Same
<1>1. /\ o.kind = p.kind /\ o.policy = p.policy /\ o.tasks = p.tasks /\ o.url = p.url
      /\ o.rounds = p.rounds /\ o.roots = p.roots /\ o.handlers = p.handlers
      /\ Definitions!Extensions(o) = Definitions!Extensions(p)
      /\ Definitions!Resumed(o) = Definitions!Resumed(p)
      /\ (Definitions!Http(o) /\ o.auth = "authorization_code")
           = (Definitions!Http(p) /\ p.auth = "authorization_code")
      /\ Definitions!Transport(o) = Definitions!Transport(p)
      /\ o.kind # "sse" => o.version = p.version
  BY DEF Definitions!Fingerprint
<1>2. o.kind \in {"streamable-http", "sse", "in-process", "custom"}
  BY DEF Definitions!Options, Definitions!Kinds
<1>3. o.kind = "in-process" => o.era = p.era /\ o.target = p.target
  BY <1>1 DEF Definitions!Transport
<1>4. Definitions!Http(o) =>
        /\ o.target = p.target /\ Definitions!Supplied(o) = Definitions!Supplied(p)
        /\ o.auth = p.auth /\ o.partition = p.partition /\ o.store = p.store
  BY <1>1, <1>2 DEF Definitions!Transport, Definitions!Http, Definitions!AuthShape
<1>5. Definitions!Http(o) = Definitions!Http(p) /\ o.target = p.target
  BY <1>1, <1>2, <1>3, <1>4 DEF Definitions!Http
<1>6. Definitions!Negotiation(o) = Definitions!Negotiation(p)
  BY <1>1, <1>2, <1>3 DEF Definitions!Negotiation
<1>7. /\ Definitions!Capabilities(o) = Definitions!Capabilities(p)
      /\ Definitions!Served(o) = Definitions!Served(p)
      /\ Definitions!Strict(o) = Definitions!Strict(p)
  BY <1>1 DEF Definitions!Capabilities, Definitions!Served, Definitions!Strict
<1> QED BY <1>1, <1>4, <1>5, <1>6, <1>7 DEF Definitions!Definition

(* Of all options, and all edits of them: a definition that was not refused *)
(* is not overridden in its auth, shares no cache between principals, says  *)
(* it can do what it answers and negotiates the era it was made for; and an *)
(* edit which leaves its fingerprint leaves what the connection does.       *)
THEOREM OptionsAlwaysTold ==
  ASSUME options \in Definitions!Options, Others(options) \subseteq Definitions!Options
  PROVE  WellDefined
BY NotRefused, FingerprintTells DEF WellDefined
=============================================================================
