------------------------- MODULE CredentialsProofs -------------------------
(* What the OAuth client keeps and goes through, for every set of keys,    *)
(* values, requests, issuers and calls, and every bound.  Each part has an *)
(* inductive invariant of its own, which a step of another part leaves     *)
(* alone; the last section puts them together.                             *)
(*                                                                         *)
(* The file.  That an acknowledged mutation is on disk rests on the chain  *)
(* of #writes: only the call whose turn it is is past its wait (TurnOrder),*)
(* so the map it has serialised is the map there is until it is renamed    *)
(* into place (WriteOrder), and the map agrees with every mutation that    *)
(* has been acknowledged (MemoryOrder).                                    *)
(*                                                                         *)
(* A round.  A state that is stored has not been consumed (RoundOrder), and*)
(* what accept lets pass, or a completion reads, is what is stored.        *)
(*                                                                         *)
(* The tokens.  One round at a time writes the index, so that what it saw  *)
(* is what there is (IndexKnown), and the epoch moves only when every      *)
(* issuer of the index is about to be cleared (SetsCurrent).               *)
(*                                                                         *)
(* The IdP.  An answer brings an ID token that was never about to expire,  *)
(* and what an IdP takes is what is held, or in an answer (RefreshTaken).  *)
(*                                                                         *)
(* The probe.  Discovery follows an answer that asks for it (ProbeAsked).  *)
EXTENDS Credentials, SequenceTheorems, TLAPS

(* Who writes has the turn.                                                *)
TurnOrder ==
  \A w \in Writers :
    call[w].step \notin {"none", "queued"} => chain # <<>> /\ Head(chain) = w

(* What the call that writes has done so far.                              *)
WriteOrder ==
  \A w \in Writers :
    /\ call[w].step \notin {"none", "queued"} =>
         /\ memory.loaded
         /\ memory.entries[call[w].key] = call[w].value
         /\ result[call[w].key].value = call[w].value
    /\ call[w].step = "written" => call[w].image = memory.entries
    /\ call[w].step = "renamed" => disk = memory.entries

(* The map of this process shows what was acknowledged, by this process or *)
(* by one before it.                                                       *)
MemoryOrder ==
  ~blind /\ memory.loaded =>
    \A k \in Keys : result[k].saved => memory.entries[k] = result[k].value

FileInv == TypeOK /\ TurnOrder /\ WriteOrder /\ MemoryOrder /\ Durable

----------------------------------------------------------------------------
(* Before it waits, and once it has settled, a call is idle.               *)
LEMMA IdleTypes ==
  Idle \in Call /\ Idle.step = "none" /\ Empty \in Content
BY StoreAssumption DEF Idle, Call, Steps, Empty, Content

(* The invariant holds at the start.                                       *)
LEMMA FileInit == Init => FileInv
<1> SUFFICES ASSUME Init PROVE FileInv
  OBVIOUS
<1>1. TypeOK
  <2>1. [saved |-> TRUE, value |-> Absent] \in Result /\ <<>> \in Seq(Writers)
    BY DEF Result
  <2>. QED BY <2>1, IdleTypes DEF Init, TypeOK
<1>2. \A w \in Writers : call[w].step = "none"
  BY IdleTypes DEF Init
<1>3. MemoryOrder /\ Durable
  BY DEF Init, MemoryOrder, Durable, Empty
<1>. QED BY <1>1, <1>2, <1>3 DEF FileInv, TurnOrder, WriteOrder

(* What is known of a call.                                                *)
LEMMA CallTypes ==
  ASSUME FileInv, NEW w \in Writers
  PROVE  /\ call[w] \in Call /\ call[w].key \in Keys /\ call[w].value \in Values \cup {Absent}
         /\ call[w].step \in Steps /\ call[w].image \in Content
BY DEF FileInv, TypeOK, Call

(* The file is read, or taken for an empty one.                            *)
LEMMA LoadInv ==
  ASSUME FileInv, NEW readable \in BOOLEAN, Load(readable)
  PROVE  FileInv'
<1>1. /\ ~memory.loaded /\ UNCHANGED <<disk, chain, call, result>>
      /\ memory' = [loaded |-> TRUE, entries |-> IF readable THEN disk ELSE Empty]
      /\ blind' = (blind \/ (~readable /\ disk # Empty))
  BY DEF Load
<1>2. TypeOK'
  BY <1>1, IdleTypes DEF FileInv, TypeOK
<1>3. \A w \in Writers : call[w].step \in {"none", "queued"}
  BY <1>1 DEF FileInv, WriteOrder
<1>4. MemoryOrder'
  BY <1>1 DEF FileInv, TypeOK, MemoryOrder, Durable
<1>5. Durable'
  BY <1>1 DEF FileInv, TypeOK, Durable
<1>. QED BY <1>1, <1>2, <1>3, <1>4, <1>5 DEF FileInv, TurnOrder, WriteOrder

(* A call joins the chain behind those that wait.                          *)
LEMMA MutateInv ==
  ASSUME FileInv, NEW w \in Writers, NEW k \in Keys, NEW v \in Values \cup {Absent}, Mutate(w, k, v)
  PROVE  FileInv'
<1> DEFINE c == [step |-> "queued", key |-> k, value |-> v, image |-> Empty]
<1>1. /\ call' = [call EXCEPT ![w] = c] /\ chain' = Append(chain, w)
      /\ UNCHANGED <<disk, memory, result, blind>>
  BY DEF Mutate
<1>2. c \in Call /\ c.step = "queued"
  BY IdleTypes DEF Call, Steps
<1>. HIDE DEF c
<1>3. /\ call' \in [Writers -> Call] /\ call'[w].step = "queued"
      /\ \A u \in Writers : u # w => call'[u] = call[u]
  BY <1>1, <1>2 DEF FileInv, TypeOK
<1>4. chain' \in Seq(Writers) /\ (chain # <<>> => chain' # <<>> /\ Head(chain') = Head(chain))
  BY <1>1, AppendProperties DEF FileInv, TypeOK
<1>5. TypeOK'
  BY <1>1, <1>3, <1>4 DEF FileInv, TypeOK
<1>6. TurnOrder'
  BY <1>3, <1>4 DEF FileInv, TurnOrder
<1>7. WriteOrder'
  BY <1>1, <1>3 DEF FileInv, WriteOrder
<1>8. MemoryOrder' /\ Durable'
  BY <1>1 DEF FileInv, MemoryOrder, Durable
<1>. QED BY <1>5, <1>6, <1>7, <1>8 DEF FileInv

(* The call that has the turn is applied to the map.                       *)
LEMMA ApplyInv ==
  ASSUME FileInv, NEW w \in Writers, Apply(w)
  PROVE  FileInv'
<1> DEFINE k == call[w].key
           v == call[w].value
<1>1. /\ chain # <<>> /\ Head(chain) = w /\ call[w].step = "queued" /\ memory.loaded
      /\ memory' = [memory EXCEPT !.entries = [memory.entries EXCEPT ![k] = v]]
      /\ call' = [call EXCEPT ![w].step = "applied"]
      /\ result' = [result EXCEPT ![k] = [saved |-> FALSE, value |-> v]]
      /\ UNCHANGED <<disk, chain, blind>>
  BY DEF Apply, Turn
<1>2. k \in Keys /\ v \in Values \cup {Absent} /\ call[w] \in Call
  BY CallTypes
<1>3. /\ call' \in [Writers -> Call] /\ call'[w].step = "applied" /\ call'[w].key = k
      /\ call'[w].value = v /\ \A u \in Writers : u # w => call'[u] = call[u]
  BY <1>1, <1>2 DEF FileInv, TypeOK, Call, Steps
<1>. HIDE DEF k, v
<1>4. /\ memory' \in [loaded: BOOLEAN, entries: Content] /\ memory'.loaded
      /\ memory'.entries[k] = v
      /\ \A l \in Keys : l # k => memory'.entries[l] = memory.entries[l]
  BY <1>1, <1>2 DEF FileInv, TypeOK, Content
<1>5. /\ result' \in [Keys -> Result] /\ result'[k].value = v /\ ~result'[k].saved
      /\ \A l \in Keys : l # k => result'[l] = result[l]
  BY <1>1, <1>2 DEF FileInv, TypeOK, Result
<1>6. \A u \in Writers : u # w => call[u].step \in {"none", "queued"}
  BY <1>1 DEF FileInv, TurnOrder
<1>7. TypeOK'
  BY <1>1, <1>3, <1>4, <1>5 DEF FileInv, TypeOK
<1>8. TurnOrder' /\ WriteOrder'
  BY <1>1, <1>3, <1>4, <1>5, <1>6 DEF TurnOrder, WriteOrder
<1>9. MemoryOrder' /\ Durable'
  BY <1>1, <1>4, <1>5 DEF FileInv, MemoryOrder, Durable
<1>. QED BY <1>7, <1>8, <1>9 DEF FileInv

(* The map is serialised, and takes no other mutation before it is on disk.*)
LEMMA WriteTemporaryInv ==
  ASSUME FileInv, NEW w \in Writers, WriteTemporary(w)
  PROVE  FileInv'
<1>1. /\ call[w].step = "applied"
      /\ call' = [call EXCEPT ![w] = [call[w] EXCEPT !.step = "written", !.image = memory.entries]]
      /\ UNCHANGED <<disk, memory, chain, result, blind>>
      /\ call[w] \in Call /\ memory.entries \in Content
  BY CallTypes DEF WriteTemporary, FileInv, TypeOK
<1>2. /\ call' \in [Writers -> Call] /\ call'[w].step = "written" /\ call'[w].key = call[w].key
      /\ call'[w].value = call[w].value /\ call'[w].image = memory.entries
      /\ \A u \in Writers : u # w => call'[u] = call[u]
  BY <1>1 DEF FileInv, TypeOK, Call, Steps
<1>3. TypeOK'
  BY <1>1, <1>2 DEF FileInv, TypeOK
<1>4. TurnOrder'
  BY <1>1, <1>2 DEF FileInv, TurnOrder
<1>5. WriteOrder'
  BY <1>1, <1>2 DEF FileInv, WriteOrder
<1>6. MemoryOrder' /\ Durable'
  BY <1>1 DEF FileInv, MemoryOrder, Durable
<1>. QED BY <1>3, <1>4, <1>5, <1>6 DEF FileInv

(* What is renamed into place is the map as it is.                         *)
LEMMA RenameInv ==
  ASSUME FileInv, NEW w \in Writers, Rename(w)
  PROVE  FileInv'
<1>1. /\ call[w].step = "written" /\ disk' = call[w].image
      /\ call' = [call EXCEPT ![w] = [call[w] EXCEPT !.step = "renamed"]]
      /\ UNCHANGED <<memory, chain, result, blind>> /\ call[w] \in Call
  BY CallTypes DEF Rename
<1>2. disk' = memory.entries /\ memory.loaded /\ disk' \in Content
  BY <1>1 DEF FileInv, WriteOrder, TypeOK
<1>3. /\ call' \in [Writers -> Call] /\ call'[w].step = "renamed" /\ call'[w].key = call[w].key
      /\ call'[w].value = call[w].value /\ \A u \in Writers : u # w => call'[u] = call[u]
  BY <1>1 DEF FileInv, TypeOK, Call, Steps
<1>4. TypeOK'
  BY <1>1, <1>2, <1>3 DEF FileInv, TypeOK
<1>5. TurnOrder'
  BY <1>1, <1>3 DEF FileInv, TurnOrder
<1>6. \A u \in Writers : u # w => call[u].step \in {"none", "queued"}
  BY <1>1 DEF FileInv, TurnOrder
<1>7. WriteOrder'
  BY <1>1, <1>2, <1>3, <1>6 DEF FileInv, WriteOrder
<1>8. MemoryOrder' /\ Durable'
  BY <1>1, <1>2 DEF FileInv, MemoryOrder, Durable
<1>. QED BY <1>4, <1>5, <1>7, <1>8 DEF FileInv

(* A call that has settled leaves the chain to those that wait.            *)
LEMMA SettledOrder ==
  ASSUME FileInv, NEW w \in Writers, call[w].step \notin {"none", "queued"}, Settled(w)
  PROVE  /\ chain' \in Seq(Writers) /\ call' \in [Writers -> Call]
         /\ \A u \in Writers : call'[u].step \in {"none", "queued"}
<1>1. chain # <<>> /\ chain \in Seq(Writers) /\ Head(chain) = w
  BY DEF FileInv, TypeOK, TurnOrder
<1>2. chain' = Tail(chain) /\ call' = [call EXCEPT ![w] = Idle]
  BY DEF Settled
<1>3. chain' \in Seq(Writers)
  BY <1>1, <1>2, HeadTailProperties
<1>4. \A u \in Writers : u # w => call[u].step \in {"none", "queued"}
  BY <1>1 DEF FileInv, TurnOrder
<1>. QED BY <1>2, <1>3, <1>4, IdleTypes DEF FileInv, TypeOK

(* The call is acknowledged, its value being on disk by then.              *)
LEMMA SucceedInv ==
  ASSUME FileInv, NEW w \in Writers, Succeed(w)
  PROVE  FileInv'
<1> DEFINE k == call[w].key
<1>1. /\ call[w].step = "renamed" /\ Settled(w) /\ UNCHANGED <<disk, memory, blind>>
      /\ result' = [result EXCEPT ![k] = [result[k] EXCEPT !.saved = TRUE]]
  BY DEF Succeed
<1>2. k \in Keys
  BY CallTypes
<1>3. /\ result' \in [Keys -> Result] /\ \A l \in Keys : result'[l].value = result[l].value
      /\ \A l \in Keys : l # k => result'[l] = result[l]
  BY <1>1, <1>2 DEF FileInv, TypeOK, Result
<1>4. disk = memory.entries /\ memory.entries[k] = result[k].value
  BY <1>1 DEF FileInv, WriteOrder
<1>. HIDE DEF k
<1>5. /\ chain' \in Seq(Writers) /\ call' \in [Writers -> Call]
      /\ \A u \in Writers : call'[u].step \in {"none", "queued"}
  BY <1>1, SettledOrder
<1>6. MemoryOrder' /\ Durable'
  BY <1>1, <1>2, <1>3, <1>4 DEF FileInv, MemoryOrder, Durable
<1>. QED BY <1>1, <1>3, <1>5, <1>6 DEF FileInv, TypeOK, TurnOrder, WriteOrder

(* The call is rejected, and what it has applied stays unacknowledged.     *)
LEMMA FailInv ==
  ASSUME FileInv, NEW w \in Writers, Fail(w)
  PROVE  FileInv'
<1>1. /\ call[w].step \notin {"none", "queued"} /\ Settled(w)
      /\ UNCHANGED <<disk, memory, result, blind>>
  BY DEF Fail
<1>2. /\ chain' \in Seq(Writers) /\ call' \in [Writers -> Call]
      /\ \A u \in Writers : call'[u].step \in {"none", "queued"}
  BY <1>1, SettledOrder
<1>3. MemoryOrder' /\ Durable'
  BY <1>1 DEF FileInv, MemoryOrder, Durable
<1>. QED BY <1>1, <1>2, <1>3 DEF FileInv, TypeOK, TurnOrder, WriteOrder

(* The process that is started after a crash has read nothing yet.         *)
LEMMA CrashInv ==
  ASSUME FileInv, Crash
  PROVE  FileInv'
<1>1. /\ memory' = [loaded |-> FALSE, entries |-> Empty] /\ chain' = <<>>
      /\ call' = [w \in Writers |-> Idle] /\ UNCHANGED <<disk, result, blind>>
  BY DEF Crash
<1>2. TypeOK'
  BY <1>1, IdleTypes DEF FileInv, TypeOK
<1>3. \A w \in Writers : call'[w].step = "none"
  BY <1>1, IdleTypes
<1>4. MemoryOrder' /\ Durable'
  BY <1>1 DEF FileInv, MemoryOrder, Durable
<1>. QED BY <1>2, <1>3, <1>4 DEF FileInv, TurnOrder, WriteOrder

(* Every step preserves the invariant.                                     *)
LEMMA FileStep == FileInv /\ [Next]_vars => FileInv'
<1> SUFFICES ASSUME FileInv, [Next]_vars PROVE FileInv'
  OBVIOUS
<1>1. CASE UNCHANGED vars
  BY <1>1 DEF vars, FileInv, TypeOK, TurnOrder, WriteOrder, MemoryOrder, Durable
<1>2. CASE Next
  BY <1>2, LoadInv, MutateInv, ApplyInv, WriteTemporaryInv, RenameInv, SucceedInv, FailInv,
     CrashInv DEF Next
<1>. QED BY <1>1, <1>2

(* The invariant of the chain, the map and the file.                       *)
THEOREM FileInvAlways == Spec => []FileInv
BY FileInit, FileStep, PTL DEF Spec

(* A set or delete that has resolved is on disk with its value, whatever   *)
(* else failed, whoever else wrote, and wherever the process ended, unless *)
(* the file was once unreadable.                                           *)
THEOREM FileAlwaysDurable == Spec => []FileDurable
<1>1. FileInv => FileDurable
  BY DEF FileInv, FileDurable
<1>. QED BY <1>1, FileInvAlways, PTL

-----------------------------------------------------------------------------
(* What is stored, what is under way and what has been consumed.            *)
RoundOrder ==
  /\ stored.state <= round
  /\ stored.state # 0 => consumed[stored.state] = 0
  /\ \A n \in Round!Rounds : n > round => consumed[n] = 0
  /\ \A r \in Requests : request[r].step = "page" => request[r].state \in 1..round
  /\ endpoint.outcome = "callback" => endpoint.by \in 1..round
  /\ \A c \in Completers : completing[c].step = "delete" => completing[c].expected \in 1..round

RoundInv == Round!TypeOK /\ RoundOrder

(* A request passes while its state is stored, so it has not been           *)
(* consumed.                                                                *)
LEMMA AcceptInv ==
  ASSUME RoundInv, NEW r \in Requests, Round!Accept(r)
  PROVE  RoundInv'
<1> USE DEF Round!Request, Round!Rounds
<1>1. /\ UNCHANGED <<round, stored, endpoint, completing, consumed>> /\ request[r] \in Round!Request
      /\ \E d \in {[request[r] EXCEPT !.step = "page"], Round!Answered} : request' = [request EXCEPT ![r] = d]
  BY DEF RoundInv, Round!TypeOK, Round!Accept
<1>2. /\ request' \in [Requests -> Round!Request]
      /\ \A q \in Requests : q # r => request'[q] = request[q]
  <2> DEFINE d == [request[r] EXCEPT !.step = "page"]
  <2>1. d \in Round!Request /\ Round!Answered \in Round!Request
    BY <1>1, CredentialsAssumption DEF Round!Answered
  <2>2. request' = [request EXCEPT ![r] = d] \/ request' = [request EXCEPT ![r] = Round!Answered]
    BY <1>1
  <2>. HIDE DEF d
  <2>. QED BY <2>1, <2>2 DEF RoundInv, Round!TypeOK
<1>3. request'[r].step = "page" => stored.state # 0 /\ request'[r].state = stored.state
  BY <1>1 DEF RoundInv, Round!TypeOK, Round!Accept, Round!Matches, Round!Answered
<1>4. Round!TypeOK'
  BY <1>1, <1>2 DEF RoundInv, Round!TypeOK
<1>5. RoundOrder'
  BY <1>1, <1>2, <1>3 DEF RoundInv, Round!TypeOK, RoundOrder
<1>. QED BY <1>4, <1>5 DEF RoundInv

(* Where only one completion goes on.                                       *)
LEMMA CompletionInv ==
  ASSUME RoundInv, NEW c \in Completers, NEW d \in Round!Completion,
         UNCHANGED <<round, stored, endpoint, request, consumed>>,
         completing' = [completing EXCEPT ![c] = d],
         d.step = "delete" => d.expected \in 1..round
  PROVE  RoundInv'
<1>1. /\ completing' \in [Completers -> Round!Completion] /\ completing'[c] = d
      /\ \A e \in Completers : e # c => completing'[e] = completing[e]
  BY DEF RoundInv, Round!TypeOK
<1>2. Round!TypeOK' /\ RoundOrder'
  BY <1>1 DEF RoundInv, Round!TypeOK, RoundOrder
<1>. QED BY <1>2 DEF RoundInv

(* One that is over.                                                        *)
LEMMA CompletedIs ==
  ASSUME NEW s \in {"done", "failed"}
  PROVE  Round!Completed(s) \in Round!Completion /\ Round!Completed(s).step = s
BY CredentialsAssumption DEF Round!Completed, Round!NoCompletion, Round!Completion

(* A completion begins with what the wait has ended with.                   *)
LEMMA CompleteInv ==
  ASSUME RoundInv, NEW c \in Completers, Round!Complete(c)
  PROVE  RoundInv'
<1> DEFINE d == [Round!NoCompletion EXCEPT !.step = "read", !.state = endpoint.by]
<1>1. UNCHANGED <<round, stored, endpoint, request, consumed>> /\ completing' = [completing EXCEPT ![c] = d]
  BY DEF Round!Complete
<1>2. d \in Round!Completion /\ d.step = "read"
  <2>1. Round!NoCompletion \in Round!Completion
    BY CredentialsAssumption DEF Round!NoCompletion, Round!Completion
  <2>2. endpoint.by \in Round!Rounds \cup {0, Forged}
    BY DEF RoundInv, Round!TypeOK, Round!Endpoint
  <2>. QED BY <2>1, <2>2 DEF Round!Completion
<1>. HIDE DEF d
<1>. QED BY <1>1, <1>2, CompletionInv

(* The state that is expected is the one that is stored.                    *)
LEMMA ReadStateInv ==
  ASSUME RoundInv, NEW c \in Completers, Round!ReadState(c)
  PROVE  RoundInv'
<1> DEFINE d == [completing[c] EXCEPT !.step = "delete", !.expected = stored.state]
<1>1. /\ UNCHANGED <<round, stored, endpoint, request, consumed>>
      /\ completing' = [completing EXCEPT ![c] = IF stored.state = 0 THEN Round!Completed("failed") ELSE d]
      /\ completing[c] \in Round!Completion /\ stored.state \in 0..MaxRounds /\ stored.state <= round
      /\ round \in 0..MaxRounds /\ MaxRounds \in Nat
  BY CredentialsAssumption DEF Round!ReadState, RoundInv, RoundOrder, Round!TypeOK
<1>2. d \in Round!Completion /\ d.expected = stored.state
  BY <1>1 DEF Round!Completion
<1>. HIDE DEF d
<1>3. CASE stored.state = 0
  BY <1>1, <1>3, CompletedIs, CompletionInv
<1>4. CASE stored.state # 0
  <2>1. d.expected \in 1..round /\ completing' = [completing EXCEPT ![c] = d]
    BY <1>1, <1>2, <1>4
  <2>. QED BY <1>1, <1>2, <2>1, CompletionInv
<1>. QED BY <1>3, <1>4

(* The state is forgotten, and counted if it matched.                       *)
LEMMA DeleteStateInv ==
  ASSUME RoundInv, NEW c \in Completers, Round!DeleteState(c)
  PROVE  RoundInv'
<1> DEFINE n == completing[c].expected
           matches == completing[c].state = n
<1>0. /\ completing[c].step = "delete"
      /\ completing[c] \in Round!Completion /\ n \in 1..round /\ n \in Round!Rounds
  BY CredentialsAssumption DEF Round!DeleteState, RoundInv, Round!TypeOK, RoundOrder, Round!Rounds
<1>1. /\ UNCHANGED <<round, endpoint, request>> /\ stored' = [stored EXCEPT !.state = 0]
      /\ completing' = [completing EXCEPT ![c] = IF matches THEN [completing[c] EXCEPT !.step = "exchange"]
                                                 ELSE Round!Completed("failed")]
      /\ consumed' = IF matches THEN [consumed EXCEPT ![n] = consumed[n] + 1] ELSE consumed
  BY <1>0 DEF Round!DeleteState, Round!Verified
<1>2. /\ completing' \in [Completers -> Round!Completion]
      /\ completing'[c].step \in {"exchange", "failed"}
      /\ \A e \in Completers : e # c => completing'[e] = completing[e]
  <2>1. [completing[c] EXCEPT !.step = "exchange"] \in Round!Completion
        /\ [completing[c] EXCEPT !.step = "exchange"].step = "exchange"
    BY <1>0 DEF Round!Completion
  <2>. QED BY <1>1, <2>1, CompletedIs DEF RoundInv, Round!TypeOK
<1>3. stored' \in [state: 0..MaxRounds, verifier: 0..MaxRounds] /\ stored'.state = 0
  BY <1>1, CredentialsAssumption DEF RoundInv, Round!TypeOK
<1>. HIDE DEF matches, n
<1>4. /\ consumed' \in [Round!Rounds -> Nat]
      /\ \A m \in Round!Rounds : m # n => consumed'[m] = consumed[m]
  BY <1>0, <1>1 DEF RoundInv, Round!TypeOK
<1>5. Round!TypeOK'
  BY <1>1, <1>2, <1>3, <1>4 DEF RoundInv, Round!TypeOK
<1>6. RoundOrder'
  BY <1>0, <1>1, <1>2, <1>3, <1>4, CredentialsAssumption DEF RoundInv, RoundOrder, Round!TypeOK, Round!Rounds
<1>. QED BY <1>5, <1>6 DEF RoundInv

(* The exchange touches nothing but the call.                               *)
LEMMA ExchangeInv ==
  ASSUME RoundInv, NEW c \in Completers, Round!Exchange(c)
  PROVE  RoundInv'
<1>1. /\ UNCHANGED <<round, stored, endpoint, request, consumed>>
      /\ \E s \in {"done", "failed"} : completing' = [completing EXCEPT ![c] = Round!Completed(s)]
  BY DEF Round!Exchange
<1>. QED BY <1>1, CompletedIs, CompletionInv

(* What has not been answered when an endpoint closes never will be.        *)
LEMMA ClosedInv ==
  ASSUME RoundInv, Round!Closed
  PROVE  RoundInv'
<1>1. /\ UNCHANGED <<round, stored, completing, consumed>>
      /\ endpoint' = [endpoint EXCEPT !.phase = "closed"] /\ request' = [r \in Requests |-> Round!Answered]
  BY DEF Round!Closed
<1>2. /\ endpoint' \in Round!Endpoint /\ endpoint'.outcome = endpoint.outcome /\ endpoint'.by = endpoint.by
  BY <1>1 DEF RoundInv, Round!TypeOK, Round!Endpoint
<1>3. /\ request' \in [Requests -> Round!Request]
      /\ \A r \in Requests : request'[r].step # "page"
  BY <1>1, CredentialsAssumption DEF Round!Answered, Round!Request
<1>4. Round!TypeOK' /\ RoundOrder'
  BY <1>1, <1>2, <1>3 DEF RoundInv, Round!TypeOK, RoundOrder
<1>. QED BY <1>4 DEF RoundInv

(* Every step of a round preserves its invariant.                           *)
LEMMA RoundStep == RoundInv /\ [Round!Next]_roundVars => RoundInv'
<1> SUFFICES ASSUME RoundInv, [Round!Next]_roundVars PROVE RoundInv'
  OBVIOUS
<1> USE CredentialsAssumption
    DEF RoundInv, Round!TypeOK, RoundOrder, Round!Rounds, Round!Answered,
        Round!Request, Round!Endpoint, Round!Completion, Round!Off, Round!NoRequest, Round!NoCompletion
<1>1. ASSUME Round!Listen PROVE RoundInv'
  BY <1>1 DEF Round!Listen
<1>2. ASSUME Round!Begin PROVE RoundInv'
  BY <1>2 DEF Round!Begin
<1>3. ASSUME Round!Timeout PROVE RoundInv'
  BY <1>3 DEF Round!Timeout, Round!Ends
<1>4. ASSUME Round!Close PROVE RoundInv'
  BY <1>4 DEF Round!Close, Round!Ends
<1>5. ASSUME Round!Forget PROVE RoundInv'
  BY <1>5 DEF Round!Forget
<1>6. ASSUME NEW r \in Requests, Round!Turned(r) PROVE RoundInv'
  BY <1>6 DEF Round!Turned
<1>7. ASSUME NEW r \in Requests, NEW s \in 1..round \cup {Forged}, Round!Denial(r, s) PROVE RoundInv'
  BY <1>7 DEF Round!Denial
<1>8. ASSUME NEW r \in Requests, Round!PageSent(r) PROVE RoundInv'
  BY <1>8 DEF Round!PageSent, Round!Ends
<1>9. ASSUME NEW r \in Requests, NEW s \in 1..round \cup {Forged}, Round!Callback(r, s)
      PROVE  RoundInv'
  BY <1>9 DEF Round!Callback
<1>10. ASSUME UNCHANGED roundVars PROVE RoundInv'
  BY <1>10 DEF roundVars
<1>. HIDE DEF RoundInv
<1>. QED
  BY <1>1, <1>2, <1>3, <1>4, <1>5, <1>6, <1>7, <1>8, <1>9, <1>10, AcceptInv, ClosedInv,
     CompleteInv, ReadStateInv, DeleteStateInv, ExchangeInv DEF Round!Next

(* The invariant of a round holds at the start.                             *)
LEMMA RoundInit == Round!Init => RoundInv
BY CredentialsAssumption
   DEF Round!Init, RoundInv, Round!TypeOK, RoundOrder, Round!Rounds,
       Round!Request, Round!Endpoint, Round!Completion, Round!Off, Round!NoRequest, Round!NoCompletion

(* What a step of a round accepts or reads has not been verified.           *)
Reads ==
  /\ \A r \in Requests :
       request[r].step = "accept" /\ request'[r].step = "page" => Round!Unspent(request[r].state)
  /\ \A c \in Completers :
       completing[c].step = "read" /\ completing'[c].step = "delete"
         => Round!Unspent(completing'[c].expected)

(* It is what is stored.                                                    *)
LEMMA ReadsUnspent == RoundInv /\ [Round!Next]_roundVars => [Reads]_roundVars
<1> SUFFICES ASSUME RoundInv, Round!Next PROVE Reads
  OBVIOUS
<1>0. stored.state # 0 => Round!Unspent(stored.state)
  BY CredentialsAssumption DEF RoundInv, RoundOrder, Round!TypeOK, Round!Unspent
<1>1. ASSUME NEW r \in Requests, request[r].step = "accept", request'[r].step = "page"
      PROVE  Round!Unspent(request[r].state)
  <2>0. request \in [Requests -> Round!Request]
    BY DEF RoundInv, Round!TypeOK
  <2>1. \E q \in Requests : Round!Accept(q) /\ request'[q].step = "page" /\ q = r
    <3>1. request' # request /\ Round!Answered.step = "done" /\ Round!NoRequest.step = "none"
      BY <1>1 DEF Round!Answered, Round!NoRequest
    <3>2. ~Round!Listen /\ ~Round!Begin /\ ~Round!Timeout /\ ~Round!Close /\ ~Round!Closed /\ ~Round!Forget
      BY <1>1, <3>1 DEF Round!Listen, Round!Begin, Round!Timeout, Round!Close, Round!Closed, Round!Forget
    <3>3. \A c \in Completers :
             ~Round!Complete(c) /\ ~Round!ReadState(c) /\ ~Round!DeleteState(c) /\ ~Round!Exchange(c)
      BY <3>1 DEF Round!Complete, Round!ReadState, Round!DeleteState, Round!Verified, Round!Exchange
    <3>4. \A q \in Requests : ~Round!Turned(q) /\ ~Round!PageSent(q)
      BY <1>1, <2>0, <3>1 DEF Round!Turned, Round!PageSent
    <3>5. \A q \in Requests, s \in 1..round \cup {Forged} : ~Round!Callback(q, s) /\ ~Round!Denial(q, s)
      BY <1>1, <2>0 DEF Round!Callback, Round!Denial
    <3>6. PICK q \in Requests : Round!Accept(q)
      BY <3>2, <3>3, <3>4, <3>5 DEF Round!Next
    <3>7. q = r
      BY <1>1, <2>0, <3>6 DEF Round!Accept
    <3>. QED BY <1>1, <3>6, <3>7
  <2>2. stored.state # 0 /\ request[r].state = stored.state
    BY <1>1, <2>0, <2>1 DEF Round!Accept, Round!Matches, Round!Answered
  <2>. QED BY <1>0, <2>2
<1>2. ASSUME NEW c \in Completers, completing[c].step = "read", completing'[c].step = "delete"
      PROVE  Round!Unspent(completing'[c].expected)
  <2>0. completing \in [Completers -> Round!Completion]
    BY DEF RoundInv, Round!TypeOK
  <2>1. ~UNCHANGED completing
    BY <1>2
  <2>2. \E e \in Completers : Round!Complete(e) \/ Round!ReadState(e) \/ Round!DeleteState(e) \/ Round!Exchange(e)
    BY <2>1 DEF Round!Next, Round!Listen, Round!Begin, Round!Timeout, Round!Close, Round!Closed, Round!Forget,
                Round!Turned, Round!Accept, Round!PageSent, Round!Callback, Round!Denial
  <2>3. Round!ReadState(c)
    BY <1>2, <2>0, <2>2 DEF Round!Complete, Round!ReadState, Round!DeleteState, Round!Verified, Round!Exchange
  <2>4. stored.state # 0 /\ completing'[c].expected = stored.state
    BY <1>2, <2>0, <2>3, CompletedIs DEF Round!ReadState, Round!Completion
  <2>. QED BY <1>0, <2>4
<1>. QED BY <1>1, <1>2 DEF Reads

(* An endpoint ends its wait with a state of this provider.                 *)
LEMMA RoundOwn == RoundInv => Round!TypeOK /\ (endpoint.outcome = "callback" => endpoint.by \in 1..round)
BY DEF RoundInv, RoundOrder

-----------------------------------------------------------------------------
(* One round of auth() runs at a time.                                      *)
OneAuthorizer == \A r, s \in Authorizers : r = s

(* Who saves, flies and reads: the issuer is the one it should be.         *)
TokenIssuers ==
  /\ \A p \in Issuers \cup Authorizers : saving[p].step # "none" => saving[p].issuer \in Issuers
  /\ \A i \in Issuers : saving[i].step # "none" => saving[i].issuer = i /\ flight[i].step = "save" /\ saving[i].what = "tokens"
  /\ \A q \in Readers : reader[q].step \in {"read", "joined"} => reader[q].issuer \in Issuers
  /\ \A i \in Issuers : store.tokens[i].soon => store.tokens[i].id # 0
  /\ \A r \in Authorizers : saving[r].step # "none" => purge[r].step = "none"
  /\ \A p \in Issuers \cup Authorizers : ~saving[p].token.soon

(* The index grows only by the hand of the one round there is.             *)
IndexKnown ==
  /\ store.pointer \in store.index \cup {None}
  /\ \A i \in Issuers : flight[i].step # "none" => i \in store.index
  /\ \A p \in Issuers \cup Authorizers :
       /\ saving[p].step = "pointer" => saving[p].seen \subseteq store.index
       /\ saving[p].step \in {"point", "put"} => saving[p].issuer \in store.index
  /\ \A i \in Issuers : saving[i].step = "pointer" => i \in saving[i].seen
  /\ \A i \in Issuers : saving[i].step # "list"
  /\ \A r \in Authorizers :
       /\ saving[r].step = "pointer" => saving[r].seen = store.index
       /\ saving[r].step = "list" => saving[r].seen = store.index
       /\ purge[r].step = "pointer" => purge[r].targets = store.index

(* A set is of the present epoch, or the invalidation that ended its own    *)
(* is about to delete it.                                                   *)
SetsCurrent ==
  /\ \A p \in Issuers \cup Authorizers :
       saving[p].step # "none" /\ saving[p].what = "tokens" =>
         saving[p].token.late \/ saving[p].token.since = epoch
  /\ \A i \in Issuers :
       LET held == store.tokens[i]
       IN  held.id # 0 /\ ~held.late /\ held.since # epoch
           => \E r \in Authorizers :
                purge[r].step = "delete" /\ purge[r].scope # "client" /\ i \in purge[r].targets

TokenInv == Tokens!TypeOK /\ TokenIssuers /\ IndexKnown /\ Tokens!IndexCovers /\ SetsCurrent

(* The store, typed.                                                        *)
TokenStore == [ pointer: Issuers \cup {None}, index: SUBSET Issuers, tokens: [Issuers -> Tokens!Token],
                client: [Issuers -> BOOLEAN] ]

(* What is known of the values.                                             *)
LEMMA TokenTypes ==
  ASSUME TokenInv
  PROVE  /\ store \in TokenStore /\ store.pointer \in store.index \cup {None}
         /\ store.index \in SUBSET Issuers /\ store.tokens \in [Issuers -> Tokens!Token]
         /\ store.client \in [Issuers -> BOOLEAN]
         /\ epoch \in Nat /\ minted \in 0..MaxMinted
         /\ \A i \in Issuers : store.tokens[i] \in Tokens!Token /\ flight[i] \in Tokens!Flight
         /\ \A p \in Issuers \cup Authorizers : saving[p] \in Tokens!Save
         /\ \A r \in Authorizers : purge[r] \in Tokens!Purge
         /\ \A q \in Readers : reader[q] \in Tokens!Reader
BY DEF TokenInv, Tokens!TypeOK, IndexKnown, TokenStore, Tokens!Savers

(* What there is before anything has happened is typed.                     *)
LEMMA NothingTypes ==
  /\ Tokens!NoToken \in Tokens!Token /\ Tokens!NoToken.id = 0 /\ ~Tokens!NoToken.soon
  /\ Tokens!NoSave \in Tokens!Save /\ Tokens!NoSave.step = "none" /\ Tokens!NoSave.what = "tokens"
  /\ Tokens!NoSave.token = Tokens!NoToken
  /\ Tokens!NoFlight \in Tokens!Flight /\ Tokens!NoFlight.step = "none"
  /\ Tokens!NoPurge \in Tokens!Purge /\ Tokens!NoPurge.step = "none"
  /\ Tokens!NoReader \in Tokens!Reader /\ Tokens!NoReader.step = "none"
<1>1. 0 \in 0..MaxMinted
  BY CredentialsAssumption
<1>2. Tokens!NoToken \in Tokens!Token /\ Tokens!NoToken.id = 0 /\ ~Tokens!NoToken.soon
  BY <1>1 DEF Tokens!NoToken, Tokens!Token
<1>3. /\ Tokens!NoSave \in Tokens!Save /\ Tokens!NoSave.step = "none" /\ Tokens!NoSave.what = "tokens"
      /\ Tokens!NoSave.token = Tokens!NoToken
  BY <1>2 DEF Tokens!NoSave, Tokens!Save
<1>4. /\ Tokens!NoFlight \in Tokens!Flight /\ Tokens!NoFlight.step = "none"
  BY <1>2 DEF Tokens!NoFlight, Tokens!Flight
<1>5. /\ Tokens!NoPurge \in Tokens!Purge /\ Tokens!NoPurge.step = "none"
      /\ Tokens!NoReader \in Tokens!Reader /\ Tokens!NoReader.step = "none"
  BY DEF Tokens!NoPurge, Tokens!Purge, Tokens!Scopes, Tokens!NoReader, Tokens!Reader
<1>. QED BY <1>2, <1>3, <1>4, <1>5

(* A flight that begins or ends, and those who wait for it.                 *)
LEMMA FlightInv ==
  ASSUME TokenInv, flight' \in [Issuers -> Tokens!Flight], reader' \in [Readers -> Tokens!Reader],
         minted' \in 0..MaxMinted, UNCHANGED <<store, epoch, saving, purge>>,
         \A i \in Issuers : flight'[i].step # "none" => i \in store.index,
         \A i \in Issuers : saving[i].step # "none" => flight'[i].step = "save",
         \A q \in Readers : reader'[q].step \in {"read", "joined"} => reader'[q].issuer \in Issuers
  PROVE  TokenInv'
<1>1. Tokens!TypeOK'
  BY DEF TokenInv, Tokens!TypeOK
<1>2. TokenIssuers' /\ IndexKnown'
  BY DEF TokenInv, TokenIssuers, IndexKnown
<1>3. Tokens!IndexCovers' /\ SetsCurrent'
  BY DEF TokenInv, Tokens!IndexCovers, SetsCurrent
<1>. QED BY <1>1, <1>2, <1>3 DEF TokenInv

(* A saver goes a step further, the store staying as it is.                 *)
LEMMA SaverInv ==
  ASSUME TokenInv, NEW p \in Issuers \cup Authorizers, NEW v \in Tokens!Save,
         saving' = [saving EXCEPT ![p] = v], UNCHANGED <<store, epoch, purge, reader>>,
         minted' \in 0..MaxMinted, flight' \in [Issuers -> Tokens!Flight],
         \A i \in Issuers : flight'[i].step # "none" => i \in store.index,
         \A i \in Issuers : i # p => flight'[i] = flight[i],
         ~v.token.soon,
         v.step # "none" =>
           /\ v.issuer \in Issuers /\ (v.what = "tokens" => v.token.late \/ v.token.since = epoch)
           /\ p \in Issuers => v.issuer = p /\ flight'[p].step = "save" /\ v.what = "tokens"
           /\ p \in Authorizers => purge[p].step = "none",
         v.step = "pointer" => v.seen = store.index \/ (p \in Issuers /\ p \in v.seen /\ v.seen \subseteq store.index),
         v.step = "pointer" /\ p \in Issuers => p \in v.seen,
         v.step \in {"point", "put"} => v.issuer \in store.index,
         v.step = "list" => p \notin Issuers /\ v.seen = store.index
  PROVE  TokenInv'
<1>1. /\ saving' \in [Issuers \cup Authorizers -> Tokens!Save] /\ saving'[p] = v
      /\ \A q \in Issuers \cup Authorizers : q # p => saving'[q] = saving[q]
  BY DEF TokenInv, Tokens!TypeOK, Tokens!Savers
<1>2. Tokens!TypeOK'
  BY <1>1 DEF TokenInv, Tokens!TypeOK, Tokens!Savers
<1>3. TokenIssuers'
  BY <1>1, CredentialsAssumption DEF TokenInv, TokenIssuers
<1>4. IndexKnown'
  BY <1>1, CredentialsAssumption DEF TokenInv, IndexKnown
<1>5. Tokens!IndexCovers' /\ SetsCurrent'
  BY <1>1 DEF TokenInv, Tokens!IndexCovers, SetsCurrent
<1>. QED BY <1>2, <1>3, <1>4, <1>5 DEF TokenInv

(* A saver sees the index as it is.                                         *)
LEMMA SeeIndexInv ==
  ASSUME TokenInv, NEW p \in Issuers \cup Authorizers, Tokens!SeeIndex(p)
  PROVE  TokenInv'
<1> DEFINE v == [[saving[p] EXCEPT !.step = "pointer"] EXCEPT !.seen = store.index]
<1>1. /\ saving[p].step = "index" /\ saving' = [saving EXCEPT ![p] = v]
      /\ UNCHANGED <<store, epoch, flight, purge, reader, minted>>
  BY DEF Tokens!SeeIndex
<1>2. /\ v \in Tokens!Save /\ v.step = "pointer" /\ v.seen = store.index
      /\ v.issuer = saving[p].issuer /\ v.what = saving[p].what /\ v.token = saving[p].token
  <2>1. saving[p] \in Tokens!Save /\ store.index \in SUBSET Issuers
    BY TokenTypes
  <2>. QED BY <2>1 DEF Tokens!Save
<1>. HIDE DEF v
<1>3. /\ v.issuer \in Issuers /\ (v.what = "tokens" => v.token.late \/ v.token.since = epoch)
      /\ p \in Issuers => v.issuer = p /\ flight[p].step = "save" /\ v.what = "tokens" /\ p \in store.index
      /\ p \in Authorizers => purge[p].step = "none"
      /\ ~v.token.soon
  BY <1>1, <1>2 DEF TokenInv, TokenIssuers, SetsCurrent, IndexKnown
<1>4. /\ flight' \in [Issuers -> Tokens!Flight] /\ minted' \in 0..MaxMinted
      /\ \A i \in Issuers : flight'[i].step # "none" => i \in store.index
  BY <1>1 DEF TokenInv, Tokens!TypeOK, IndexKnown
<1>. QED BY <1>1, <1>2, <1>3, <1>4, SaverInv

(* The pointer is in the index, so a saver knows the index and no more.     *)
LEMMA SeePointerInv ==
  ASSUME TokenInv, NEW p \in Issuers \cup Authorizers, Tokens!SeePointer(p)
  PROVE  TokenInv'
<1> DEFINE known == (saving[p].seen \cup {store.pointer}) \ {None}
           step == IF Tokens!Unlisted(p, known) THEN "list" ELSE "point"
           v == [[saving[p] EXCEPT !.seen = known] EXCEPT !.step = step]
<1>1. /\ saving[p].step = "pointer" /\ saving' = [saving EXCEPT ![p] = v]
      /\ UNCHANGED <<store, epoch, flight, purge, reader, minted>>
  BY DEF Tokens!SeePointer
<1>2. /\ step \in {"list", "point"} /\ (step = "point" => saving[p].issuer \in known)
      /\ (step = "list" => saving[p].issuer \notin known)
  BY DEF Tokens!Unlisted
<1>3. /\ known \subseteq store.index /\ None \notin Issuers
      /\ p \in Authorizers => known = store.index
      /\ p \in Issuers => p \in known
  BY <1>1, TokenTypes, CredentialsAssumption DEF TokenInv, IndexKnown
<1>. HIDE DEF known, step
<1>4. /\ v \in Tokens!Save /\ v.step = step /\ v.seen = known
      /\ v.issuer = saving[p].issuer /\ v.what = saving[p].what /\ v.token = saving[p].token
  <2>1. saving[p] \in Tokens!Save /\ known \in SUBSET Issuers
    BY <1>3, TokenTypes
  <2>. QED BY <1>2, <2>1 DEF Tokens!Save
<1>. HIDE DEF v
<1>5. /\ v.issuer \in Issuers /\ (v.what = "tokens" => v.token.late \/ v.token.since = epoch)
      /\ p \in Issuers => v.issuer = p /\ flight[p].step = "save" /\ v.what = "tokens"
      /\ p \in Authorizers => purge[p].step = "none"
      /\ ~v.token.soon
  BY <1>1, <1>4 DEF TokenInv, TokenIssuers, SetsCurrent
<1>6. /\ flight' \in [Issuers -> Tokens!Flight] /\ minted' \in 0..MaxMinted
      /\ \A i \in Issuers : flight'[i].step # "none" => i \in store.index
  BY <1>1 DEF TokenInv, Tokens!TypeOK, IndexKnown
<1>. QED BY <1>1, <1>2, <1>3, <1>4, <1>5, <1>6, SaverInv

(* A client is registered.                                                  *)
LEMMA RegisterInv ==
  ASSUME TokenInv, NEW r \in Authorizers, NEW i \in Issuers, Tokens!Register(r, i)
  PROVE  TokenInv'
<1> DEFINE n == Tokens!NoSave
           v == [[[n EXCEPT !.step = "index"] EXCEPT !.issuer = i] EXCEPT !.what = "client"]
<1>1. /\ purge[r].step = "none" /\ saving' = [saving EXCEPT ![r] = v]
      /\ UNCHANGED <<store, epoch, flight, purge, reader, minted>>
  BY DEF Tokens!Register, Tokens!Free
<1>2. n \in Tokens!Save /\ ~n.token.soon
  BY NothingTypes
<1>. HIDE DEF n
<1>3. v \in Tokens!Save /\ v.step = "index" /\ v.issuer = i /\ v.what = "client" /\ ~v.token.soon
  BY <1>2 DEF Tokens!Save
<1>. HIDE DEF v
<1>4. /\ flight' \in [Issuers -> Tokens!Flight] /\ minted' \in 0..MaxMinted
      /\ \A j \in Issuers : flight'[j].step # "none" => j \in store.index
  BY <1>1 DEF TokenInv, Tokens!TypeOK, IndexKnown
<1>. QED BY <1>1, <1>3, <1>4, SaverInv, CredentialsAssumption

(* A set that was asked for in an epoch, before it is saved.                *)
NewToken(since) == [Tokens!NoToken EXCEPT !.id = minted + 1, !.since = since]
NewSave(i, since) == [Tokens!NoSave EXCEPT !.step = "index", !.issuer = i, !.token = NewToken(since)]

(* ... has the types it should have, and does not expire soon.              *)
LEMMA MintedTypes ==
  ASSUME TokenInv, minted < MaxMinted
  PROVE  /\ minted + 1 \in 0..MaxMinted
         /\ \A i \in Issuers, since \in Nat :
              /\ NewSave(i, since) \in Tokens!Save /\ NewSave(i, since).step = "index"
              /\ NewSave(i, since).issuer = i /\ NewSave(i, since).what = "tokens"
              /\ NewSave(i, since).token.since = since /\ ~NewSave(i, since).token.soon
<1>1. minted + 1 \in 0..MaxMinted
  BY TokenTypes, CredentialsAssumption
<1>2. ASSUME NEW since \in Nat
      PROVE  NewToken(since) \in Tokens!Token /\ NewToken(since).since = since /\ ~NewToken(since).soon
  <2> DEFINE n == Tokens!NoToken
  <2>1. n \in Tokens!Token /\ ~n.soon /\ NewToken(since) = [[n EXCEPT !.id = minted + 1] EXCEPT !.since = since]
    BY NothingTypes DEF NewToken
  <2>. HIDE DEF n
  <2>. QED BY <1>1, <2>1 DEF Tokens!Token
<1>3. ASSUME NEW i \in Issuers, NEW since \in Nat
      PROVE  /\ NewSave(i, since) \in Tokens!Save /\ NewSave(i, since).step = "index"
             /\ NewSave(i, since).issuer = i /\ NewSave(i, since).what = "tokens"
             /\ NewSave(i, since).token = NewToken(since)
  <2> DEFINE n == Tokens!NoSave
  <2>1. /\ n \in Tokens!Save /\ n.what = "tokens"
        /\ NewSave(i, since) =
             [[[n EXCEPT !.step = "index"] EXCEPT !.issuer = i] EXCEPT !.token = NewToken(since)]
    BY NothingTypes DEF NewSave
  <2>. HIDE DEF n
  <2>. QED BY <1>2, <2>1 DEF Tokens!Save
<1>. QED BY <1>1, <1>2, <1>3

(* A round has brought a set.                                               *)
LEMMA SaveTokensInv ==
  ASSUME TokenInv, NEW r \in Authorizers, NEW i \in Issuers, Tokens!SaveTokens(r, i)
  PROVE  TokenInv'
<1> DEFINE v == NewSave(i, epoch)
<1>1. /\ purge[r].step = "none" /\ saving' = [saving EXCEPT ![r] = v] /\ minted' = minted + 1
      /\ minted < MaxMinted /\ UNCHANGED <<store, epoch, flight, purge, reader>>
  BY DEF Tokens!SaveTokens, Tokens!Free, NewSave, NewToken
<1>2. epoch \in Nat
  BY TokenTypes
<1>3. /\ minted + 1 \in 0..MaxMinted
      /\ v \in Tokens!Save /\ v.step = "index" /\ v.issuer = i /\ v.what = "tokens" /\ v.token.since = epoch
      /\ ~v.token.soon
  BY <1>1, <1>2, MintedTypes
<1>. HIDE DEF v
<1>4. /\ flight' \in [Issuers -> Tokens!Flight]
      /\ \A j \in Issuers : flight'[j].step # "none" => j \in store.index
  BY <1>1 DEF TokenInv, Tokens!TypeOK, IndexKnown
<1>. QED BY <1>1, <1>3, <1>4, SaverInv, CredentialsAssumption

(* A refresh has brought a set, which is saved if the epoch is still its    *)
(* own.                                                                     *)
LEMMA FetchAnswersInv ==
  ASSUME TokenInv, NEW i \in Issuers, Tokens!FetchAnswers(i)
  PROVE  TokenInv'
<1>1. /\ flight[i].step = "fetch" /\ minted < MaxMinted /\ minted' = minted + 1
      /\ UNCHANGED <<store, epoch, purge>> /\ minted' \in 0..MaxMinted
  BY TokenTypes, CredentialsAssumption DEF Tokens!FetchAnswers
<1>2. saving[i].step = "none" /\ i \in store.index
  BY <1>1 DEF TokenInv, TokenIssuers, IndexKnown
<1>3. CASE Tokens!MaySave(i)
  <2> DEFINE v == NewSave(i, flight[i].since)
             f == [flight[i] EXCEPT !.step = "save"]
  <2>1. /\ saving' = [saving EXCEPT ![i] = v] /\ UNCHANGED reader
        /\ flight' = [flight EXCEPT ![i] = f] /\ flight[i].since = epoch
    BY <1>3 DEF Tokens!FetchAnswers, Tokens!MaySave, NewSave, NewToken
  <2>2. /\ v \in Tokens!Save /\ v.step = "index" /\ v.issuer = i /\ v.what = "tokens" /\ v.token.since = epoch
        /\ ~v.token.soon
    <3>1. flight[i].since \in Nat
      BY <2>1, TokenTypes
    <3>2. /\ v \in Tokens!Save /\ v.step = "index" /\ v.issuer = i /\ v.what = "tokens" /\ v.token.since = flight[i].since
          /\ ~v.token.soon
      BY <1>1, <3>1, MintedTypes
    <3>. QED BY <2>1, <3>2
  <2>3. f \in Tokens!Flight /\ f.step = "save"
    BY TokenTypes DEF Tokens!Flight
  <2>. HIDE DEF v, f
  <2>4. /\ flight' \in [Issuers -> Tokens!Flight] /\ flight'[i] = f
        /\ \A j \in Issuers : j # i => flight'[j] = flight[j]
        /\ \A j \in Issuers : flight'[j].step # "none" => j \in store.index
    BY <1>2, <2>1, <2>3 DEF TokenInv, Tokens!TypeOK, IndexKnown
  <2>. QED BY <1>1, <2>1, <2>2, <2>3, <2>4, SaverInv, CredentialsAssumption
<1>4. CASE ~Tokens!MaySave(i)
  <2>1. Tokens!Landed(i) /\ UNCHANGED saving
    BY <1>4 DEF Tokens!FetchAnswers
  <2>2. /\ flight' \in [Issuers -> Tokens!Flight] /\ reader' \in [Readers -> Tokens!Reader]
        /\ \A j \in Issuers : flight'[j].step # "none" => flight'[j] = flight[j]
        /\ \A j \in Issuers : j # i => flight'[j] = flight[j]
        /\ \A q \in Readers : reader'[q].step # "none" => reader'[q] = reader[q]
    BY <2>1, NothingTypes DEF Tokens!Landed, TokenInv, Tokens!TypeOK
  <2>. QED BY <1>1, <1>2, <2>1, <2>2, FlightInv DEF TokenInv, TokenIssuers, IndexKnown
<1>. QED BY <1>3, <1>4

(* A flight goes on to its request, or ends.                                *)
LEMMA PrepareInv ==
  ASSUME TokenInv, NEW i \in Issuers, Tokens!Prepare(i) \/ Tokens!FetchFails(i)
  PROVE  TokenInv'
<1>1. /\ flight[i].step \in {"prepare", "fetch"} /\ UNCHANGED <<store, epoch, saving, purge, minted>>
      /\ \/ flight' = [flight EXCEPT ![i] = [flight[i] EXCEPT !.step = "fetch"]] /\ UNCHANGED reader
         \/ Tokens!Landed(i)
  BY DEF Tokens!Prepare, Tokens!FetchFails
<1>2. saving[i].step = "none" /\ i \in store.index /\ minted \in 0..MaxMinted
  BY <1>1 DEF TokenInv, TokenIssuers, IndexKnown, Tokens!TypeOK
<1>3. /\ [flight[i] EXCEPT !.step = "fetch"] \in Tokens!Flight
      /\ Tokens!NoFlight \in Tokens!Flight /\ Tokens!NoReader \in Tokens!Reader /\ Tokens!NoReader.step = "none"
  BY TokenTypes, NothingTypes DEF Tokens!Flight
<1>4. /\ flight' \in [Issuers -> Tokens!Flight] /\ reader' \in [Readers -> Tokens!Reader]
      /\ \A j \in Issuers : j # i => flight'[j] = flight[j]
      /\ \A q \in Readers : reader'[q].step # "none" => reader'[q] = reader[q]
  BY <1>1, <1>3 DEF Tokens!Landed, TokenInv, Tokens!TypeOK
<1>5. /\ \A j \in Issuers : flight'[j].step # "none" => j \in store.index
      /\ \A j \in Issuers : saving[j].step # "none" => flight'[j].step = "save"
      /\ \A q \in Readers : reader'[q].step \in {"read", "joined"} => reader'[q].issuer \in Issuers
  BY <1>2, <1>4 DEF TokenInv, TokenIssuers, IndexKnown
<1>. QED BY <1>1, <1>2, <1>4, <1>5, FlightInv

(* A tokens() call begins, and finds the last issuer.                       *)
LEMMA ReadInv ==
  ASSUME TokenInv, NEW q \in Readers, Tokens!Read(q) \/ Tokens!ReadIssuer(q)
  PROVE  TokenInv'
<1>1. /\ UNCHANGED <<store, epoch, flight, saving, purge, minted>>
      /\ \/ reader' = [reader EXCEPT ![q] = [reader[q] EXCEPT !.step = "issuer"]]
         \/ reader' = [reader EXCEPT ![q] = Tokens!NoReader]
         \/ /\ store.pointer # None
            /\ reader' = [reader EXCEPT ![q] = [step |-> "read", issuer |-> store.pointer]]
  BY DEF Tokens!Read, Tokens!ReadIssuer
<1>2. store.pointer \in Issuers \cup {None}
  BY TokenTypes
<1>3. /\ [reader[q] EXCEPT !.step = "issuer"] \in Tokens!Reader
      /\ [reader[q] EXCEPT !.step = "issuer"].step = "issuer"
      /\ Tokens!NoReader \in Tokens!Reader /\ Tokens!NoReader.step = "none"
      /\ store.pointer # None => [step |-> "read", issuer |-> store.pointer] \in Tokens!Reader
  BY <1>2, TokenTypes, NothingTypes DEF Tokens!Reader
<1>4. PICK v \in Tokens!Reader :
        /\ reader' = [reader EXCEPT ![q] = v]
        /\ v.step \in {"read", "joined"} => v.issuer \in Issuers
  BY <1>1, <1>2, <1>3
<1>5. /\ reader' \in [Readers -> Tokens!Reader]
      /\ \A p \in Readers : reader'[p].step \in {"read", "joined"} => reader'[p].issuer \in Issuers
  BY <1>4 DEF TokenInv, Tokens!TypeOK, TokenIssuers
<1>6. flight' \in [Issuers -> Tokens!Flight] /\ minted' \in 0..MaxMinted
  BY <1>1 DEF TokenInv, Tokens!TypeOK
<1>. QED BY <1>1, <1>5, <1>6, FlightInv DEF TokenInv, TokenIssuers, IndexKnown

(* Only a set that is stored is refreshed, and its issuer is in the index.  *)
LEMMA ReadTokensInv ==
  ASSUME TokenInv, NEW q \in Readers, Tokens!ReadTokens(q)
  PROVE  TokenInv'
<1> DEFINE i == reader[q].issuer
           f == [step |-> "prepare", since |-> epoch, stale |-> store.tokens[i]]
<1>1. /\ reader[q].step = "read" /\ UNCHANGED <<store, epoch, saving, purge, minted>>
      /\ \/ reader' = [reader EXCEPT ![q] = Tokens!NoReader] /\ UNCHANGED flight
         \/ /\ store.tokens[i].soon /\ reader' = [reader EXCEPT ![q] = [reader[q] EXCEPT !.step = "joined"]]
            /\ flight' = [flight EXCEPT ![i] = IF flight[i].step # "none" THEN flight[i] ELSE f]
  BY DEF Tokens!ReadTokens
<1>2. i \in Issuers /\ minted \in 0..MaxMinted
  BY <1>1, TokenTypes DEF TokenInv, TokenIssuers
<1>3. f \in Tokens!Flight
  BY <1>2, TokenTypes DEF Tokens!Flight
<1>4. store.tokens[i].soon => i \in store.index
  BY <1>2 DEF TokenInv, TokenIssuers, Tokens!IndexCovers
<1>5. /\ [reader[q] EXCEPT !.step = "joined"] \in Tokens!Reader
      /\ [reader[q] EXCEPT !.step = "joined"].issuer = i
      /\ Tokens!NoReader \in Tokens!Reader /\ Tokens!NoReader.step = "none"
  BY TokenTypes, NothingTypes DEF Tokens!Reader
<1>6. saving[i].step # "none" => flight[i].step = "save"
  BY <1>2 DEF TokenInv, TokenIssuers
<1>. HIDE DEF f, i
<1>7. /\ reader' \in [Readers -> Tokens!Reader]
      /\ \A p \in Readers : reader'[p].step \in {"read", "joined"} => reader'[p].issuer \in Issuers
  <2>1. PICK v \in Tokens!Reader :
          /\ reader' = [reader EXCEPT ![q] = v]
          /\ v.step \in {"read", "joined"} => v.issuer \in Issuers
    BY <1>1, <1>2, <1>5
  <2>. QED BY <2>1 DEF TokenInv, Tokens!TypeOK, TokenIssuers
<1>8. /\ flight' \in [Issuers -> Tokens!Flight]
      /\ \A j \in Issuers : j # i => flight'[j] = flight[j]
      /\ flight[i].step # "none" => flight'[i] = flight[i]
      /\ UNCHANGED flight \/ i \in store.index
  BY <1>1, <1>2, <1>3, <1>4 DEF TokenInv, Tokens!TypeOK
<1>9. /\ \A j \in Issuers : flight'[j].step # "none" => j \in store.index
      /\ \A j \in Issuers : saving[j].step # "none" => flight'[j].step = "save"
  BY <1>6, <1>8 DEF TokenInv, TokenIssuers, IndexKnown
<1>. QED BY <1>1, <1>2, <1>7, <1>8, <1>9, FlightInv

(* The index grows, by the hand of the one round.                           *)
LEMMA ListInv ==
  ASSUME TokenInv, OneAuthorizer, NEW p \in Issuers \cup Authorizers, Tokens!List(p)
  PROVE  TokenInv'
<1> DEFINE index == saving[p].seen \cup {saving[p].issuer}
           v == [saving[p] EXCEPT !.step = "point"]
<1>1. /\ saving[p].step = "list" /\ store' = [store EXCEPT !.index = index]
      /\ saving' = [saving EXCEPT ![p] = v] /\ UNCHANGED <<epoch, flight, purge, reader, minted>>
  BY DEF Tokens!List
<1>2. /\ p \in Authorizers /\ p \notin Issuers /\ saving[p].seen = store.index
      /\ saving[p].issuer \in Issuers /\ purge[p].step = "none"
  BY <1>1, CredentialsAssumption DEF TokenInv, TokenIssuers, IndexKnown
<1>3. /\ v \in Tokens!Save /\ v.step = "point" /\ v.issuer = saving[p].issuer /\ v.what = saving[p].what
      /\ v.token = saving[p].token
  BY TokenTypes DEF Tokens!Save
<1>4. /\ index \in SUBSET Issuers /\ store.index \subseteq index /\ saving[p].issuer \in index
  BY <1>2, TokenTypes
<1>. HIDE DEF index, v
<1>5. /\ store' \in TokenStore /\ store'.index = index /\ store'.pointer = store.pointer
      /\ store'.tokens = store.tokens /\ store'.client = store.client
  BY <1>1, <1>4, TokenTypes DEF TokenStore
<1>6. /\ saving' \in [Issuers \cup Authorizers -> Tokens!Save] /\ saving'[p] = v
      /\ \A q \in Issuers \cup Authorizers : q # p => saving'[q] = saving[q]
  BY <1>1, <1>3 DEF TokenInv, Tokens!TypeOK, Tokens!Savers
<1>7. Tokens!TypeOK'
  BY <1>1, <1>5, <1>6 DEF TokenInv, Tokens!TypeOK, Tokens!Savers, TokenStore
<1>8. TokenIssuers'
  BY <1>1, <1>2, <1>3, <1>5, <1>6 DEF TokenInv, TokenIssuers
<1>9. \A r \in Authorizers : r = p
  BY <1>2 DEF OneAuthorizer
<1>10. IndexKnown'
  BY <1>1, <1>2, <1>3, <1>4, <1>5, <1>6, <1>9 DEF TokenInv, IndexKnown
<1>11. Tokens!IndexCovers' /\ SetsCurrent'
  BY <1>1, <1>2, <1>3, <1>4, <1>5, <1>6 DEF TokenInv, Tokens!IndexCovers, SetsCurrent
<1>. QED BY <1>7, <1>8, <1>10, <1>11 DEF TokenInv

(* The pointer moves to an issuer of the index.                             *)
LEMMA PointInv ==
  ASSUME TokenInv, NEW p \in Issuers \cup Authorizers, Tokens!Point(p)
  PROVE  TokenInv'
<1> DEFINE v == [saving[p] EXCEPT !.step = "put"]
<1>1. /\ saving[p].step = "point" /\ store' = [store EXCEPT !.pointer = saving[p].issuer]
      /\ saving' = [saving EXCEPT ![p] = v] /\ UNCHANGED <<epoch, flight, purge, reader, minted>>
  BY DEF Tokens!Point
<1>2. saving[p].issuer \in Issuers /\ saving[p].issuer \in store.index
  BY <1>1 DEF TokenInv, TokenIssuers, IndexKnown
<1>3. /\ v \in Tokens!Save /\ v.step = "put" /\ v.issuer = saving[p].issuer /\ v.what = saving[p].what
      /\ v.token = saving[p].token
  BY TokenTypes DEF Tokens!Save
<1>. HIDE DEF v
<1>5. /\ store' \in TokenStore /\ store'.index = store.index /\ store'.pointer = saving[p].issuer
      /\ store'.tokens = store.tokens /\ store'.client = store.client
  BY <1>1, <1>2, TokenTypes DEF TokenStore
<1>6. /\ saving' \in [Issuers \cup Authorizers -> Tokens!Save] /\ saving'[p] = v
      /\ \A q \in Issuers \cup Authorizers : q # p => saving'[q] = saving[q]
  BY <1>1, <1>3 DEF TokenInv, Tokens!TypeOK, Tokens!Savers
<1>7. Tokens!TypeOK'
  BY <1>1, <1>5, <1>6 DEF TokenInv, Tokens!TypeOK, Tokens!Savers, TokenStore
<1>8. TokenIssuers'
  BY <1>1, <1>2, <1>3, <1>5, <1>6 DEF TokenInv, TokenIssuers
<1>9. IndexKnown'
  BY <1>1, <1>2, <1>3, <1>5, <1>6 DEF TokenInv, IndexKnown
<1>10. Tokens!IndexCovers' /\ SetsCurrent'
  BY <1>1, <1>2, <1>3, <1>5, <1>6 DEF TokenInv, Tokens!IndexCovers, SetsCurrent
<1>. QED BY <1>7, <1>8, <1>9, <1>10 DEF TokenInv

(* What is stored is of this epoch, or was being saved when it began.       *)
LEMMA PutInv ==
  ASSUME TokenInv, NEW p \in Issuers \cup Authorizers, Tokens!Put(p)
  PROVE  TokenInv'
<1> DEFINE i == saving[p].issuer
           t == saving[p].token
<1>1. /\ saving[p].step = "put" /\ saving' = [saving EXCEPT ![p] = Tokens!NoSave]
      /\ UNCHANGED <<epoch, purge, minted>>
      /\ store' = IF saving[p].what = "tokens" THEN [store EXCEPT !.tokens = [store.tokens EXCEPT ![i] = t]]
                   ELSE [store EXCEPT !.client = [store.client EXCEPT ![i] = TRUE]]
      /\ IF p \in Issuers THEN Tokens!Landed(p) ELSE UNCHANGED <<flight, reader>>
  BY DEF Tokens!Put, Tokens!Stored
<1>2. /\ i \in Issuers /\ i \in store.index /\ t \in Tokens!Token /\ ~t.soon
      /\ saving[p].what = "tokens" => t.late \/ t.since = epoch
      /\ p \in Issuers => i = p
  BY <1>1, TokenTypes DEF TokenInv, TokenIssuers, IndexKnown, SetsCurrent, Tokens!Save
<1>. HIDE DEF i, t
<1>3. /\ store' \in TokenStore /\ store'.index = store.index /\ store'.pointer = store.pointer
      /\ \A j \in Issuers : store'.tokens[j] # store.tokens[j] => j = i /\ saving[p].what = "tokens" /\ store'.tokens[j] = t
      /\ \A j \in Issuers : j # i => store'.client[j] = store.client[j]
  BY <1>1, <1>2, TokenTypes DEF TokenStore
<1>4. /\ saving' \in [Issuers \cup Authorizers -> Tokens!Save] /\ saving'[p].step = "none"
      /\ ~saving'[p].token.soon
      /\ \A q \in Issuers \cup Authorizers : q # p => saving'[q] = saving[q]
  BY <1>1, NothingTypes DEF TokenInv, Tokens!TypeOK, Tokens!Savers
<1>5. /\ flight' \in [Issuers -> Tokens!Flight] /\ reader' \in [Readers -> Tokens!Reader]
      /\ \A j \in Issuers : j # p => flight'[j] = flight[j]
      /\ \A j \in Issuers : flight'[j].step # "none" => flight'[j] = flight[j]
      /\ \A q \in Readers : reader'[q].step # "none" => reader'[q] = reader[q]
  BY <1>1, NothingTypes DEF Tokens!Landed, TokenInv, Tokens!TypeOK
<1>6. Tokens!TypeOK'
  BY <1>1, <1>3, <1>4, <1>5 DEF TokenInv, Tokens!TypeOK, Tokens!Savers, TokenStore
<1>7. TokenIssuers'
  <2>1. \A j \in Issuers : store'.tokens[j].soon => store'.tokens[j].id # 0
    BY <1>2, <1>3 DEF TokenInv, TokenIssuers
  <2>. QED BY <1>1, <1>4, <1>5, <2>1 DEF TokenInv, TokenIssuers
<1>8. IndexKnown'
  BY <1>1, <1>3, <1>4, <1>5 DEF TokenInv, IndexKnown
<1>9. Tokens!IndexCovers'
  BY <1>2, <1>3 DEF TokenInv, Tokens!IndexCovers
<1>10. SetsCurrent'
  <2>1. \A j \in Issuers : store'.tokens[j] = store.tokens[j] \/ store'.tokens[j].late \/ store'.tokens[j].since = epoch
    BY <1>2, <1>3
  <2>. QED BY <1>1, <1>4, <2>1 DEF TokenInv, SetsCurrent
<1>. QED BY <1>6, <1>7, <1>8, <1>9, <1>10 DEF TokenInv

(* Only a set that is stored comes to expire.                               *)
LEMMA ExpireTokenInv ==
  ASSUME TokenInv, NEW i \in Issuers, Tokens!Expire(i)
  PROVE  TokenInv'
<1> DEFINE t == [store.tokens[i] EXCEPT !.soon = TRUE]
<1>1. /\ store.tokens[i].id # 0 /\ UNCHANGED <<epoch, flight, saving, purge, reader, minted>>
      /\ store' = [store EXCEPT !.tokens = [store.tokens EXCEPT ![i] = t]]
  BY DEF Tokens!Expire
<1>2. /\ t \in Tokens!Token /\ t.id = store.tokens[i].id /\ t.late = store.tokens[i].late
      /\ t.since = store.tokens[i].since
  BY TokenTypes DEF Tokens!Token
<1>. HIDE DEF t
<1>3. /\ store' \in TokenStore /\ store'.index = store.index /\ store'.pointer = store.pointer
      /\ store'.client = store.client /\ store'.tokens[i] = t
      /\ \A j \in Issuers : j # i => store'.tokens[j] = store.tokens[j]
  BY <1>1, <1>2, TokenTypes DEF TokenStore
<1>4. /\ \A j \in Issuers : /\ store'.tokens[j].id = store.tokens[j].id
                             /\ store'.tokens[j].late = store.tokens[j].late
                             /\ store'.tokens[j].since = store.tokens[j].since
      /\ \A j \in Issuers : store'.tokens[j].soon => store.tokens[j].id # 0
  BY <1>1, <1>2, <1>3 DEF TokenInv, TokenIssuers
<1>5. Tokens!TypeOK'
  BY <1>1, <1>3 DEF TokenInv, Tokens!TypeOK, TokenStore
<1>6. TokenIssuers' /\ IndexKnown'
  BY <1>1, <1>3, <1>4 DEF TokenInv, TokenIssuers, IndexKnown
<1>7. Tokens!IndexCovers' /\ SetsCurrent'
  BY <1>1, <1>3, <1>4 DEF TokenInv, Tokens!IndexCovers, SetsCurrent
<1>. QED BY <1>5, <1>6, <1>7 DEF TokenInv

----------------------------------------------------------------------------
(* An invalidation begins, looks up the issuers, or is over.                *)
LEMMA PurgeInv ==
  ASSUME TokenInv, NEW r \in Authorizers, Tokens!Purged(r) \/ Tokens!PurgeIndex(r)
                                         \/ \E scope \in Tokens!Scopes : Tokens!Invalidate(r, scope)
  PROVE  TokenInv'
<1> DEFINE v(scope) == [[Tokens!NoPurge EXCEPT !.step = "index"] EXCEPT !.scope = scope]
           w == [[purge[r] EXCEPT !.step = "pointer"] EXCEPT !.targets = store.index]
<1>1. /\ UNCHANGED <<store, epoch, flight, saving, reader, minted>>
      /\ \/ /\ purge[r].step = "delete" /\ purge[r].targets = {}
            /\ purge' = [purge EXCEPT ![r] = Tokens!NoPurge]
         \/ purge[r].step = "index" /\ purge' = [purge EXCEPT ![r] = w]
         \/ /\ saving[r].step = "none" /\ purge[r].step = "none"
            /\ \E scope \in Tokens!Scopes : purge' = [purge EXCEPT ![r] = v(scope)]
  BY DEF Tokens!Purged, Tokens!PurgeIndex, Tokens!Invalidate, Tokens!Free
<1>2. \A scope \in Tokens!Scopes : v(scope) \in Tokens!Purge /\ v(scope).step = "index"
  BY NothingTypes DEF Tokens!Purge
<1>3. w \in Tokens!Purge /\ w.step = "pointer" /\ w.targets = store.index
  <2>1. purge[r] \in Tokens!Purge /\ store.index \in SUBSET Issuers
    BY TokenTypes
  <2>. QED BY <2>1 DEF Tokens!Purge
<1>. HIDE DEF v, w
<1>4. /\ purge' \in [Authorizers -> Tokens!Purge] /\ \A s \in Authorizers : s # r => purge'[s] = purge[s]
      /\ saving[r].step # "none" => purge'[r].step = "none"
      /\ purge'[r].step = "pointer" => purge'[r].targets = store.index
      /\ purge[r].step = "delete" => purge[r].targets = {}
  BY <1>1, <1>2, <1>3, NothingTypes DEF TokenInv, Tokens!TypeOK, TokenIssuers
<1>5. Tokens!TypeOK'
  BY <1>1, <1>4 DEF TokenInv, Tokens!TypeOK
<1>6. TokenIssuers' /\ IndexKnown'
  BY <1>1, <1>4 DEF TokenInv, TokenIssuers, IndexKnown
<1>7. Tokens!IndexCovers' /\ SetsCurrent'
  BY <1>1, <1>4 DEF TokenInv, Tokens!IndexCovers, SetsCurrent
<1>. QED BY <1>5, <1>6, <1>7 DEF TokenInv

(* The epoch moves when every issuer with credentials is a target, and what *)
(* is being saved then is late.                                             *)
LEMMA PurgePointerInv ==
  ASSUME TokenInv, NEW r \in Authorizers, Tokens!PurgePointer(r)
  PROVE  TokenInv'
<1> DEFINE targets == (purge[r].targets \cup {store.pointer}) \ {None}
           w == [[purge[r] EXCEPT !.step = "delete"] EXCEPT !.targets = targets]
<1>1. /\ purge[r].step = "pointer" /\ purge' = [purge EXCEPT ![r] = w]
      /\ UNCHANGED <<store, flight, reader, minted>>
      /\ IF purge[r].scope = "client" THEN UNCHANGED <<epoch, saving>>
         ELSE epoch' = epoch + 1 /\ saving' = Tokens!Late
  BY DEF Tokens!PurgePointer
<1>2. targets = store.index
  BY <1>1, TokenTypes, CredentialsAssumption DEF TokenInv, IndexKnown
<1>. HIDE DEF targets
<1>3. w \in Tokens!Purge /\ w.step = "delete" /\ w.targets = store.index /\ w.scope = purge[r].scope
  <2>1. purge[r] \in Tokens!Purge /\ store.index \in SUBSET Issuers
    BY TokenTypes
  <2>. QED BY <1>2, <2>1 DEF Tokens!Purge
<1>. HIDE DEF w
<1>4. /\ purge' \in [Authorizers -> Tokens!Purge] /\ purge'[r] = w
      /\ \A s \in Authorizers : s # r => purge'[s] = purge[s]
  BY <1>1, <1>3 DEF TokenInv, Tokens!TypeOK
<1>5. saving[r].step = "none"
  BY <1>1 DEF TokenInv, TokenIssuers
<1>6. \A p \in Issuers \cup Authorizers :
        LET v == [saving[p] EXCEPT !.token = [saving[p].token EXCEPT !.late = TRUE]]
        IN  /\ v \in Tokens!Save /\ v.step = saving[p].step /\ v.issuer = saving[p].issuer
            /\ v.what = saving[p].what /\ v.seen = saving[p].seen /\ v.token.late
            /\ v.token.soon = saving[p].token.soon
  <2> SUFFICES ASSUME NEW p \in Issuers \cup Authorizers
               PROVE  LET v == [saving[p] EXCEPT !.token = [saving[p].token EXCEPT !.late = TRUE]]
                      IN  /\ v \in Tokens!Save /\ v.step = saving[p].step /\ v.issuer = saving[p].issuer
                          /\ v.what = saving[p].what /\ v.seen = saving[p].seen /\ v.token.late
                          /\ v.token.soon = saving[p].token.soon
    OBVIOUS
  <2> DEFINE t == [saving[p].token EXCEPT !.late = TRUE]
  <2>1. saving[p] \in Tokens!Save /\ saving[p].token \in Tokens!Token
    BY TokenTypes DEF Tokens!Save
  <2>2. t \in Tokens!Token /\ t.late /\ t.soon = saving[p].token.soon
    BY <2>1 DEF Tokens!Token
  <2>. HIDE DEF t
  <2>3. LET v == [saving[p] EXCEPT !.token = t]
        IN  /\ v \in Tokens!Save /\ v.step = saving[p].step /\ v.issuer = saving[p].issuer
            /\ v.what = saving[p].what /\ v.seen = saving[p].seen /\ v.token = t
    BY <2>1, <2>2 DEF Tokens!Save
  <2>. QED BY <2>2, <2>3 DEF t
<1>7. /\ saving' \in [Issuers \cup Authorizers -> Tokens!Save]
      /\ \A p \in Issuers \cup Authorizers :
           /\ saving'[p].step = saving[p].step /\ saving'[p].issuer = saving[p].issuer
           /\ saving'[p].what = saving[p].what /\ saving'[p].seen = saving[p].seen
           /\ saving'[p].token.soon = saving[p].token.soon
           /\ purge[r].scope = "client" \/ saving[p].step = "none" \/ saving'[p].token.late
           /\ saving[p].step # "none" /\ purge[r].scope = "client" => saving'[p] = saving[p]
  <2>1. CASE purge[r].scope = "client"
    BY <1>1, <2>1 DEF TokenInv, Tokens!TypeOK, Tokens!Savers
  <2>2. CASE purge[r].scope # "client"
    <3>1. saving' = [p \in Issuers \cup Authorizers |->
                       IF saving[p].step = "none" THEN saving[p]
                       ELSE [saving[p] EXCEPT !.token = [saving[p].token EXCEPT !.late = TRUE]]]
      BY <1>1, <2>2 DEF Tokens!Late, Tokens!Savers
    <3>. QED BY <1>6, <2>2, <3>1, TokenTypes
  <2>. QED BY <2>1, <2>2
<1>8. epoch' \in Nat /\ (purge[r].scope = "client" => epoch' = epoch)
  BY <1>1, TokenTypes
<1>9. Tokens!TypeOK'
  BY <1>1, <1>4, <1>7, <1>8 DEF TokenInv, Tokens!TypeOK, Tokens!Savers
<1>10. TokenIssuers'
  BY <1>1, <1>4, <1>5, <1>7 DEF TokenInv, TokenIssuers
<1>11. IndexKnown'
  BY <1>1, <1>3, <1>4, <1>7 DEF TokenInv, IndexKnown
<1>12. Tokens!IndexCovers'
  BY <1>1 DEF TokenInv, Tokens!IndexCovers
<1>13. SetsCurrent'
  <2>1. CASE purge[r].scope = "client"
    BY <1>1, <1>4, <1>7, <1>8, <2>1 DEF TokenInv, SetsCurrent
  <2>2. CASE purge[r].scope # "client"
    <3>1. \A i \in Issuers : store.tokens[i].id # 0 => i \in w.targets
      BY <1>3 DEF TokenInv, Tokens!IndexCovers
    <3>. QED BY <1>1, <1>3, <1>4, <1>7, <2>2, <3>1 DEF SetsCurrent
  <2>. QED BY <2>1, <2>2
<1>. QED BY <1>9, <1>10, <1>11, <1>12, <1>13 DEF TokenInv

(* What is deleted needs no target any more.                                *)
LEMMA DeleteInv ==
  ASSUME TokenInv, NEW r \in Authorizers, NEW i \in Issuers, Tokens!Delete(r, i)
  PROVE  TokenInv'
<1> DEFINE t == IF purge[r].scope = "client" THEN store.tokens[i] ELSE Tokens!NoToken
           c == store.client[i] /\ purge[r].scope = "tokens"
           w == [purge[r] EXCEPT !.targets = purge[r].targets \ {i}]
<1>1. /\ purge[r].step = "delete" /\ purge' = [purge EXCEPT ![r] = w]
      /\ UNCHANGED <<epoch, flight, saving, reader, minted>>
      /\ store' = [[store EXCEPT !.tokens = [store.tokens EXCEPT ![i] = t]]
                     EXCEPT !.client = [store.client EXCEPT ![i] = c]]
  BY DEF Tokens!Delete
<1>2. /\ t \in Tokens!Token /\ c \in BOOLEAN /\ (t = store.tokens[i] \/ t.id = 0) /\ (t.soon => t.id # 0)
      /\ (c => store.client[i]) /\ (purge[r].scope # "client" => t.id = 0)
  BY TokenTypes, NothingTypes DEF TokenInv, TokenIssuers
<1>3. /\ w \in Tokens!Purge /\ w.step = "delete" /\ w.targets = purge[r].targets \ {i}
      /\ w.scope = purge[r].scope
  BY <1>1, TokenTypes DEF Tokens!Purge
<1>. HIDE DEF t, c, w
<1>4. /\ store' \in TokenStore /\ store'.index = store.index /\ store'.pointer = store.pointer
      /\ store'.tokens[i] = t /\ store'.client[i] = c
      /\ \A j \in Issuers : j # i => store'.tokens[j] = store.tokens[j] /\ store'.client[j] = store.client[j]
  BY <1>1, <1>2, TokenTypes DEF TokenStore
<1>5. /\ purge' \in [Authorizers -> Tokens!Purge] /\ purge'[r] = w
      /\ \A s \in Authorizers : s # r => purge'[s] = purge[s]
  BY <1>1, <1>3 DEF TokenInv, Tokens!TypeOK
<1>6. Tokens!TypeOK'
  BY <1>1, <1>4, <1>5 DEF TokenInv, Tokens!TypeOK, TokenStore
<1>7. TokenIssuers' /\ IndexKnown'
  BY <1>1, <1>2, <1>3, <1>4, <1>5 DEF TokenInv, TokenIssuers, IndexKnown
<1>8. Tokens!IndexCovers'
  BY <1>2, <1>4 DEF TokenInv, Tokens!IndexCovers
<1>9. SetsCurrent'
  <2>1. ASSUME NEW j \in Issuers, store'.tokens[j].id # 0, ~store'.tokens[j].late,
               store'.tokens[j].since # epoch'
        PROVE  \E s \in Authorizers :
                 purge'[s].step = "delete" /\ purge'[s].scope # "client" /\ j \in purge'[s].targets
    <3>1. store'.tokens[j] = store.tokens[j] /\ (j = i => purge[r].scope = "client")
      BY <1>2, <1>4, <2>1
    <3>2. PICK s \in Authorizers :
            purge[s].step = "delete" /\ purge[s].scope # "client" /\ j \in purge[s].targets
      BY <1>1, <2>1, <3>1 DEF TokenInv, SetsCurrent
    <3>3. CASE j = i /\ s = r
      BY <3>1, <3>2, <3>3
    <3>4. CASE j = i /\ s # r
      BY <1>5, <3>2, <3>4
    <3>5. CASE j # i
      BY <1>1, <1>3, <1>5, <3>2, <3>5
    <3>. QED BY <3>3, <3>4, <3>5
  <2>2. \A p \in Issuers \cup Authorizers :
          saving'[p].step # "none" /\ saving'[p].what = "tokens" =>
            saving'[p].token.late \/ saving'[p].token.since = epoch'
    BY <1>1 DEF TokenInv, SetsCurrent
  <2>. QED BY <2>1, <2>2 DEF SetsCurrent
<1>. QED BY <1>6, <1>7, <1>8, <1>9 DEF TokenInv

(* Every step of the token sets preserves their invariant, one round of     *)
(* auth() at a time.                                                        *)
LEMMA TokenStep ==
  ASSUME OneAuthorizer PROVE TokenInv /\ [Tokens!Next]_tokenVars => TokenInv'
<1> SUFFICES ASSUME TokenInv, [Tokens!Next]_tokenVars PROVE TokenInv'
  OBVIOUS
<1>1. ASSUME NEW p \in Issuers \cup Authorizers, Tokens!Saves(p) PROVE TokenInv'
  BY <1>1, SeeIndexInv, SeePointerInv, ListInv, PointInv, PutInv DEF Tokens!Saves
<1>2. ASSUME NEW r \in Authorizers, Tokens!Purges(r) PROVE TokenInv'
  BY <1>2, PurgeInv, PurgePointerInv, DeleteInv DEF Tokens!Purges
<1>3. ASSUME NEW i \in Issuers, Tokens!Flies(i) PROVE TokenInv'
  BY <1>3, PrepareInv, FetchAnswersInv DEF Tokens!Flies
<1>4. ASSUME NEW q \in Readers, Tokens!Read(q) \/ Tokens!ReadIssuer(q) \/ Tokens!ReadTokens(q) PROVE TokenInv'
  BY <1>4, ReadInv, ReadTokensInv
<1>5. CASE UNCHANGED tokenVars
  BY <1>5 DEF tokenVars, TokenInv, Tokens!TypeOK, TokenIssuers, IndexKnown, Tokens!IndexCovers, SetsCurrent
<1>6. CASE Tokens!Next
  BY <1>1, <1>2, <1>3, <1>4, <1>6, RegisterInv, SaveTokensInv, PurgeInv, ExpireTokenInv
     DEF Tokens!Next, Tokens!Savers
<1>. QED BY <1>5, <1>6

(* The invariant of the token sets holds at the start.                      *)
LEMMA TokenInit == Tokens!Init => TokenInv
<1> SUFFICES ASSUME Tokens!Init PROVE TokenInv
  OBVIOUS
<1>1. /\ store \in TokenStore /\ store.pointer = None /\ store.index = {}
      /\ \A i \in Issuers : store.tokens[i] = Tokens!NoToken /\ ~store.client[i]
  BY NothingTypes DEF Tokens!Init, TokenStore
<1>2. /\ saving \in [Issuers \cup Authorizers -> Tokens!Save]
      /\ \A p \in Issuers \cup Authorizers : saving[p].step = "none" /\ ~saving[p].token.soon
  BY NothingTypes DEF Tokens!Init, Tokens!Savers
<1>3. /\ flight \in [Issuers -> Tokens!Flight] /\ \A i \in Issuers : flight[i].step = "none"
      /\ purge \in [Authorizers -> Tokens!Purge] /\ \A r \in Authorizers : purge[r].step = "none"
      /\ reader \in [Readers -> Tokens!Reader] /\ \A q \in Readers : reader[q].step = "none"
      /\ epoch = 0 /\ minted = 0
  BY NothingTypes DEF Tokens!Init
<1>4. Tokens!TypeOK
  BY <1>1, <1>2, <1>3, CredentialsAssumption DEF Tokens!TypeOK, TokenStore, Tokens!Savers
<1>5. TokenIssuers /\ IndexKnown
  BY <1>1, <1>2, <1>3, NothingTypes DEF TokenIssuers, IndexKnown
<1>6. Tokens!IndexCovers /\ SetsCurrent
  BY <1>1, <1>2, NothingTypes DEF Tokens!IndexCovers, SetsCurrent
<1>. QED BY <1>4, <1>5, <1>6 DEF TokenInv

(* A set of an earlier epoch is about to be deleted.                        *)
LEMMA TokenGone == TokenInv => InvalidatedGone
BY TokenTypes DEF TokenInv, InvalidatedGone, Tokens!InvalidatedGone, SetsCurrent, Tokens!Token

-----------------------------------------------------------------------------
(* What a call of `assertion` has in hand, by how far it has come.          *)
TokensInHand ==
  /\ expired \subseteq 1..idp.issued
  /\ \A a \in Assertions :
       /\ assertion[a].stale \subseteq expired
       /\ assertion[a].step \in {"sent", "answered", "persist", "shown"} =>
            assertion[a].tokens \in Enterprise!IdpTokens
       /\ assertion[a].step = "answered" => assertion[a].tokens.id \notin expired

(* ... where the host does not reload the tokens.                           *)
NoneReloaded ==
  ~reloads =>
    \A a \in Assertions :
      /\ assertion[a].step = "reload" => assertion[a].tokens = None
      /\ assertion[a].step = "persist" => current.id \notin assertion[a].stale

(* What the IdP takes: the refresh token held, but while an answer that     *)
(* brings another one is under way.                                         *)
RefreshTaken ==
  ~reloads =>
    /\ current.refresh <= idp.issued
    /\ \A a \in Assertions :
         assertion[a].step \in {"sent", "answered"} => assertion[a].tokens.refresh <= idp.issued
    /\ idp.renews = "keeps" =>
         /\ idp.takes = {current.refresh} \ {0}
         /\ \A a \in Assertions :
              assertion[a].step \in {"sent", "answered"} => assertion[a].tokens.refresh = current.refresh
    /\ idp.renews # "keeps" =>
         \A a \in Assertions : assertion[a].step = "answered" =>
           /\ assertion[a].tokens.refresh \in idp.takes
           /\ assertion[a].tokens.refresh # current.refresh
           /\ \A b \in Assertions : b # a /\ assertion[b].step \in {"sent", "answered"} =>
                assertion[b].tokens.refresh # assertion[a].tokens.refresh
    /\ idp.renews = "rotates" => idp.takes = {} \/ current.refresh \in idp.takes
    /\ idp.renews = "revokes" =>
         /\ \A m, n \in idp.takes : m = n
         /\ \/ idp.takes = {} \/ current.refresh \in idp.takes
            \/ \E a \in Assertions : assertion[a].step = "answered"

(* A sign-in presents the code of its callback, and gets the token of it.   *)
SignInOrder ==
  \A s \in SignIns :
    /\ sign[s].step = "exchange" => sign[s].code # None
    /\ sign[s].step \in {"token", "done"} => sign[s].nonce = sign[s].code

EnterpriseInv ==
  /\ Enterprise!TypeOK /\ TokensInHand /\ NoneReloaded /\ RefreshTaken /\ SignInOrder
  /\ Enterprise!KeptFresh /\ Enterprise!SignInIsOwn

(* What is known of the values.                                             *)
LEMMA EnterpriseTypes ==
  ASSUME EnterpriseInv
  PROVE  /\ reloads \in BOOLEAN /\ tokenEndpoint \in BOOLEAN
         /\ current \in Enterprise!IdpTokens /\ kept \in Enterprise!IdpTokens
         /\ current.id \in 1..MaxIssued /\ current.refresh \in 0..MaxIssued
         /\ assertion \in [Assertions -> Enterprise!Assertion]
         /\ \A a \in Assertions :
              /\ assertion[a] \in Enterprise!Assertion
              /\ assertion[a].stale \in SUBSET (1..MaxIssued)
              /\ assertion[a].tokens \in Enterprise!IdpTokens \cup {None}
         /\ idp.renews \in {"keeps", "rotates", "revokes"}
         /\ idp.issued \in 1..MaxIssued /\ idp.takes \in SUBSET (1..MaxIssued)
         /\ idp.spent \in SUBSET SignIns
         /\ expired \subseteq 1..MaxIssued
         /\ sign \in [SignIns -> Enterprise!SignIn]
         /\ \A n \in Enterprise!IdpTokens : n.id \in 1..MaxIssued /\ n.refresh \in 0..MaxIssued
BY DEF EnterpriseInv, Enterprise!TypeOK, Enterprise!IdpTokens, Enterprise!Tokens, Enterprise!Renewals,
       Enterprise!Assertion

(* The steps at which a call holds nothing that the IdP or another call     *)
(* depends on.                                                              *)
Quiet == {"none", "reload", "endpoint", "failed"}

(* A call that becomes quiet leaves the rest as it was.                     *)
LEMMA QuietInv ==
  ASSUME EnterpriseInv, NEW a \in Assertions, NEW v \in Enterprise!Assertion, v.step \in Quiet,
         v.stale \subseteq expired, v.step = "reload" /\ ~reloads => v.tokens = None,
         assertion[a].step # "answered", assertion' = [assertion EXCEPT ![a] = v],
         UNCHANGED <<reloads, current, tokenEndpoint, idp, kept, expired, sign>>
  PROVE  EnterpriseInv'
<1>1. /\ assertion' \in [Assertions -> Enterprise!Assertion] /\ assertion'[a] = v
      /\ \A b \in Assertions : b # a => assertion'[b] = assertion[b]
  BY DEF EnterpriseInv, Enterprise!TypeOK
<1>2. Enterprise!TypeOK'
  BY <1>1 DEF EnterpriseInv, Enterprise!TypeOK
<1>3. TokensInHand' /\ NoneReloaded'
  BY <1>1 DEF EnterpriseInv, TokensInHand, NoneReloaded, Quiet
<1>4. RefreshTaken'
  BY <1>1 DEF EnterpriseInv, RefreshTaken, Quiet
<1>5. Enterprise!KeptFresh' /\ SignInOrder' /\ Enterprise!SignInIsOwn'
  BY <1>1 DEF EnterpriseInv, Enterprise!KeptFresh, Enterprise!FreshPresented, Quiet, SignInOrder,
              Enterprise!SignInIsOwn
<1>. QED BY <1>2, <1>3, <1>4, <1>5 DEF EnterpriseInv

(* A call begins with what the host has kept, if it reloads.                *)
LEMMA AskInv ==
  ASSUME EnterpriseInv, NEW a \in Assertions, Enterprise!Ask(a)
  PROVE  EnterpriseInv'
<1> DEFINE t == IF reloads THEN kept ELSE None
           n == Enterprise!NoAssertion
           v == [n EXCEPT !.step = "reload", !.tokens = t]
<1>1. /\ UNCHANGED <<reloads, current, tokenEndpoint, idp, kept, expired, sign>>
      /\ assertion[a].step = "none" /\ assertion' = [assertion EXCEPT ![a] = v]
  BY DEF Enterprise!Ask
<1>2. n \in Enterprise!Assertion /\ n.stale = {}
  BY DEF Enterprise!NoAssertion, Enterprise!Assertion
<1>. HIDE DEF n
<1>3. t \in Enterprise!IdpTokens \cup {None} /\ (~reloads => t = None)
  BY EnterpriseTypes
<1>. HIDE DEF t
<1>4. v \in Enterprise!Assertion /\ v.step = "reload" /\ v.tokens = t /\ v.stale = {}
  BY <1>2, <1>3 DEF Enterprise!Assertion
<1>. HIDE DEF v
<1>. QED BY <1>1, <1>3, <1>4, QuietInv DEF Quiet

(* A call fails.                                                            *)
LEMMA FailsInv ==
  ASSUME EnterpriseInv, NEW a \in Assertions, NEW from \in {"reload", "endpoint", "sent", "persist"},
         Enterprise!Step(a, from, "failed"),
         UNCHANGED <<reloads, current, tokenEndpoint, idp, kept, expired, sign>>
  PROVE  EnterpriseInv'
<1> DEFINE v == [assertion[a] EXCEPT !.step = "failed"]
<1>1. assertion[a].step # "answered" /\ assertion' = [assertion EXCEPT ![a] = v]
  BY DEF Enterprise!Step
<1>2. v \in Enterprise!Assertion /\ v.step = "failed" /\ v.stale = assertion[a].stale
  BY EnterpriseTypes DEF Enterprise!Assertion
<1>3. v.stale \subseteq expired
  BY <1>2 DEF EnterpriseInv, TokensInHand
<1>. HIDE DEF v
<1>. QED BY <1>1, <1>2, <1>3, QuietInv DEF Quiet

(* A call that is over leaves nothing behind.                               *)
LEMMA GrantedInv ==
  ASSUME EnterpriseInv, NEW a \in Assertions, Enterprise!Granted(a)
  PROVE  EnterpriseInv'
<1>1. Enterprise!NoAssertion \in Enterprise!Assertion /\ Enterprise!NoAssertion.stale = {}
      /\ Enterprise!NoAssertion.step = "none"
  BY DEF Enterprise!NoAssertion, Enterprise!Assertion
<1>. QED BY <1>1, QuietInv DEF Enterprise!Granted, Quiet

(* A call is given what is held, if that is fresh.                          *)
LEMMA CheckInv ==
  ASSUME EnterpriseInv, NEW a \in Assertions, Enterprise!Check(a)
  PROVE  EnterpriseInv'
<1> DEFINE held == IF assertion[a].tokens = None THEN current ELSE assertion[a].tokens
           v == [ step |-> IF Enterprise!Fresh(held) THEN "shown"
                           ELSE IF held.refresh = 0 THEN "failed" ELSE "endpoint",
                  tokens |-> IF Enterprise!Fresh(held) THEN held ELSE None,
                  stale |-> expired ]
<1>1. /\ UNCHANGED <<reloads, tokenEndpoint, idp, kept, expired, sign>>
      /\ assertion[a].step = "reload" /\ current' = held /\ assertion' = [assertion EXCEPT ![a] = v]
  BY DEF Enterprise!Check
<1>2. held \in Enterprise!IdpTokens /\ (~reloads => held = current)
  BY <1>1, EnterpriseTypes DEF EnterpriseInv, NoneReloaded
<1>. HIDE DEF held
<1>3. /\ v.stale = expired /\ v.step \in {"shown", "failed", "endpoint"}
      /\ v.step = "shown" => v.tokens = held /\ held.id \notin expired
      /\ v.tokens \in Enterprise!IdpTokens \cup {None}
  BY <1>2 DEF Enterprise!Fresh
<1>4. v \in Enterprise!Assertion
  BY <1>3, EnterpriseTypes DEF Enterprise!Assertion, Enterprise!Tokens
<1>. HIDE DEF v
<1>5. /\ assertion' \in [Assertions -> Enterprise!Assertion] /\ assertion'[a] = v
      /\ \A b \in Assertions : b # a => assertion'[b] = assertion[b]
  BY <1>1, <1>4 DEF EnterpriseInv, Enterprise!TypeOK
<1>6. Enterprise!TypeOK'
  BY <1>1, <1>2, <1>5 DEF EnterpriseInv, Enterprise!TypeOK
<1>7. TokensInHand' /\ NoneReloaded'
  BY <1>1, <1>2, <1>3, <1>5 DEF EnterpriseInv, TokensInHand, NoneReloaded
<1>8. RefreshTaken'
  BY <1>1, <1>2, <1>3, <1>5 DEF EnterpriseInv, RefreshTaken
<1>9. Enterprise!KeptFresh'
  BY <1>1, <1>3, <1>5 DEF EnterpriseInv, Enterprise!KeptFresh, Enterprise!FreshPresented
<1>10. SignInOrder' /\ Enterprise!SignInIsOwn'
  BY <1>1 DEF EnterpriseInv, SignInOrder, Enterprise!SignInIsOwn
<1>. QED BY <1>6, <1>7, <1>8, <1>9, <1>10 DEF EnterpriseInv

(* The refresh token that is presented is the one held then.                *)
LEMMA RenewInv ==
  ASSUME EnterpriseInv, NEW a \in Assertions, Enterprise!Renew(a)
  PROVE  EnterpriseInv'
<1> DEFINE v == [[assertion[a] EXCEPT !.step = "sent"] EXCEPT !.tokens = current]
<1>1. /\ UNCHANGED <<reloads, current, idp, kept, expired, sign>> /\ tokenEndpoint' = TRUE
      /\ assertion[a].step = "endpoint" /\ assertion' = [assertion EXCEPT ![a] = v]
  BY DEF Enterprise!Renew
<1>2. /\ v \in Enterprise!Assertion /\ v.step = "sent" /\ v.tokens = current
      /\ v.stale = assertion[a].stale /\ current \in Enterprise!IdpTokens
  BY EnterpriseTypes DEF Enterprise!Assertion
<1>. HIDE DEF v
<1>3. /\ assertion' \in [Assertions -> Enterprise!Assertion] /\ assertion'[a] = v
      /\ \A b \in Assertions : b # a => assertion'[b] = assertion[b]
  BY <1>1, <1>2 DEF EnterpriseInv, Enterprise!TypeOK
<1>4. Enterprise!TypeOK'
  BY <1>1, <1>3 DEF EnterpriseInv, Enterprise!TypeOK
<1>5. TokensInHand' /\ NoneReloaded'
  BY <1>1, <1>2, <1>3 DEF EnterpriseInv, TokensInHand, NoneReloaded
<1>6. RefreshTaken'
  BY <1>1, <1>2, <1>3 DEF EnterpriseInv, RefreshTaken
<1>7. Enterprise!KeptFresh' /\ SignInOrder' /\ Enterprise!SignInIsOwn'
  BY <1>1, <1>2, <1>3 DEF EnterpriseInv, Enterprise!KeptFresh, Enterprise!FreshPresented, SignInOrder,
              Enterprise!SignInIsOwn
<1>. QED BY <1>4, <1>5, <1>6, <1>7 DEF EnterpriseInv

(* The IdP issues an ID token nobody has seen, with a refresh token nobody  *)
(* has presented, if with one.                                              *)
LEMMA IdpRenewsInv ==
  ASSUME EnterpriseInv, NEW a \in Assertions, Enterprise!IdpRenews(a)
  PROVE  EnterpriseInv'
<1> DEFINE id == idp.issued + 1
           old == assertion[a].tokens.refresh
           new == IF idp.renews = "keeps" THEN 0 ELSE id
           t == [id |-> id, refresh |-> IF new = 0 THEN old ELSE new]
           gone == IF idp.renews = "revokes" THEN {old} ELSE {}
           takes == (idp.takes \cup ({new} \ {0})) \ gone
           v == [[assertion[a] EXCEPT !.step = "answered"] EXCEPT !.tokens = t]
<1>1. /\ UNCHANGED <<reloads, current, tokenEndpoint, kept, expired, sign>>
      /\ assertion[a].step = "sent" /\ old \in idp.takes /\ id <= MaxIssued
      /\ idp' = [[idp EXCEPT !.issued = id] EXCEPT !.takes = takes]
      /\ assertion' = [assertion EXCEPT ![a] = v]
  BY DEF Enterprise!IdpRenews, Enterprise!Renewed
<1>2. id \in 1..MaxIssued /\ idp.issued \in 1..MaxIssued /\ id = idp.issued + 1 /\ old \in 1..MaxIssued
  BY <1>1, EnterpriseTypes, CredentialsAssumption
<1>3. /\ t \in Enterprise!IdpTokens /\ t.id = id
      /\ idp.renews = "keeps" => t.refresh = old
      /\ idp.renews # "keeps" => t.refresh = id
  BY <1>2, CredentialsAssumption DEF Enterprise!IdpTokens, Enterprise!Tokens
<1>4. /\ takes \in SUBSET (1..MaxIssued)
      /\ idp.renews = "keeps" => takes = idp.takes
      /\ idp.renews = "rotates" => takes = idp.takes \cup {id}
      /\ idp.renews = "revokes" => takes = (idp.takes \cup {id}) \ {old}
  BY <1>2, EnterpriseTypes
<1>. HIDE DEF id, old, takes, t
<1>5. /\ v \in Enterprise!Assertion /\ v.step = "answered" /\ v.tokens = t
      /\ v.stale = assertion[a].stale
  BY <1>3, EnterpriseTypes DEF Enterprise!Assertion
<1>. HIDE DEF v
<1>6. /\ idp' \in [renews: Enterprise!Renewals, issued: Enterprise!Tokens, takes: SUBSET Enterprise!Tokens,
                   spent: SUBSET SignIns]
      /\ idp'.renews = idp.renews /\ idp'.issued = id /\ idp'.takes = takes
  BY <1>1, <1>2, <1>4 DEF EnterpriseInv, Enterprise!TypeOK, Enterprise!Tokens
<1>7. /\ assertion' \in [Assertions -> Enterprise!Assertion] /\ assertion'[a] = v
      /\ \A b \in Assertions : b # a => assertion'[b] = assertion[b]
  BY <1>1, <1>5 DEF EnterpriseInv, Enterprise!TypeOK
<1>8. Enterprise!TypeOK'
  BY <1>1, <1>6, <1>7 DEF EnterpriseInv, Enterprise!TypeOK
<1>9. id \notin expired /\ expired \subseteq 1..id
  BY <1>2, <1>1 DEF EnterpriseInv, TokensInHand
<1>10. TokensInHand' /\ NoneReloaded'
  BY <1>1, <1>3, <1>5, <1>6, <1>7, <1>9 DEF EnterpriseInv, TokensInHand, NoneReloaded
<1>11. RefreshTaken'
  <2> SUFFICES ASSUME ~reloads PROVE RefreshTaken'
    BY <1>1 DEF RefreshTaken
  <2>1. /\ current.refresh <= idp.issued /\ old <= idp.issued
        /\ \A b \in Assertions :
             assertion[b].step \in {"sent", "answered"} => assertion[b].tokens.refresh <= idp.issued
    BY <1>1 DEF EnterpriseInv, RefreshTaken, old
  <2>2. /\ current.refresh \in Nat /\ old \in Nat
        /\ \A b \in Assertions :
             assertion[b].step \in {"sent", "answered"} => assertion[b].tokens.refresh \in Nat
    BY <1>2, EnterpriseTypes DEF EnterpriseInv, TokensInHand
  <2>3. /\ current.refresh # id /\ old # id
        /\ \A b \in Assertions :
             assertion[b].step \in {"sent", "answered"} => assertion[b].tokens.refresh # id
    BY <1>2, <2>1, <2>2
  <2>4. /\ current.refresh <= id /\ old <= id
        /\ \A b \in Assertions :
             assertion[b].step \in {"sent", "answered"} => assertion[b].tokens.refresh <= id
    BY <1>2, <2>1, <2>2
  <2>5. CASE idp.renews = "keeps"
    BY <1>1, <1>2, <1>3, <1>4, <1>5, <1>6, <1>7, <2>4, <2>5 DEF EnterpriseInv, RefreshTaken, old
  <2>6. CASE idp.renews = "rotates"
    BY <1>1, <1>2, <1>3, <1>4, <1>5, <1>6, <1>7, <2>3, <2>4, <2>6 DEF EnterpriseInv, RefreshTaken
  <2>7. CASE idp.renews = "revokes"
    <3>1. takes = {id}
      BY <1>1, <1>4, <2>3, <2>7 DEF EnterpriseInv, RefreshTaken
    <3>2. \A b \in Assertions : assertion[b].step = "answered" => FALSE
      BY <1>1, <2>7 DEF EnterpriseInv, RefreshTaken, old
    <3>. QED
      BY <1>1, <1>2, <1>3, <1>5, <1>6, <1>7, <2>3, <2>4, <2>7, <3>1, <3>2 DEF RefreshTaken
  <2>. QED BY <2>5, <2>6, <2>7, EnterpriseTypes
<1>12. Enterprise!KeptFresh' /\ SignInOrder' /\ Enterprise!SignInIsOwn'
  BY <1>1, <1>5, <1>7 DEF EnterpriseInv, Enterprise!KeptFresh, Enterprise!FreshPresented, SignInOrder,
              Enterprise!SignInIsOwn
<1>. QED BY <1>8, <1>10, <1>11, <1>12 DEF EnterpriseInv

(* An answer that is lost takes the refresh token in it along.              *)
LEMMA AnswerLostInv ==
  ASSUME EnterpriseInv, NEW a \in Assertions, Enterprise!AnswerLost(a)
  PROVE  EnterpriseInv'
<1> DEFINE x == assertion[a].tokens.refresh
           takes == IF idp.renews = "keeps" THEN idp.takes ELSE idp.takes \ {x}
           v == [assertion[a] EXCEPT !.step = "failed"]
<1>1. /\ UNCHANGED <<reloads, current, tokenEndpoint, kept, expired, sign>>
      /\ assertion[a].step = "answered" /\ assertion' = [assertion EXCEPT ![a] = v]
      /\ idp' = IF idp.renews = "keeps" THEN idp ELSE [idp EXCEPT !.takes = idp.takes \ {x}]
  BY DEF Enterprise!AnswerLost, Enterprise!Step
<1>2. /\ v \in Enterprise!Assertion /\ v.step = "failed" /\ v.stale = assertion[a].stale
  BY EnterpriseTypes DEF Enterprise!Assertion
<1>. HIDE DEF v, x
<1>3. /\ assertion' \in [Assertions -> Enterprise!Assertion] /\ assertion'[a] = v
      /\ \A b \in Assertions : b # a => assertion'[b] = assertion[b]
  BY <1>1, <1>2 DEF EnterpriseInv, Enterprise!TypeOK
<1>4. /\ idp' \in [renews: Enterprise!Renewals, issued: Enterprise!Tokens, takes: SUBSET Enterprise!Tokens,
                   spent: SUBSET SignIns]
      /\ idp'.renews = idp.renews /\ idp'.issued = idp.issued /\ idp'.takes = takes
  BY <1>1 DEF EnterpriseInv, Enterprise!TypeOK
<1>5. Enterprise!TypeOK'
  BY <1>1, <1>3, <1>4 DEF EnterpriseInv, Enterprise!TypeOK
<1>6. TokensInHand' /\ NoneReloaded'
  BY <1>1, <1>2, <1>3, <1>4 DEF EnterpriseInv, TokensInHand, NoneReloaded
<1>7. RefreshTaken'
  <2> SUFFICES ASSUME ~reloads PROVE RefreshTaken'
    BY <1>1 DEF RefreshTaken
  <2>1. CASE idp.renews = "keeps"
    BY <1>1, <1>2, <1>3, <1>4, <2>1 DEF EnterpriseInv, RefreshTaken
  <2>2. CASE idp.renews = "rotates"
    BY <1>1, <1>2, <1>3, <1>4, <2>2 DEF EnterpriseInv, RefreshTaken, x
  <2>3. CASE idp.renews = "revokes"
    <3>1. idp.takes = {x}
      BY <1>1, <2>3 DEF EnterpriseInv, RefreshTaken, x
    <3>2. takes = {}
      BY <3>1, <2>3
    <3>. HIDE DEF takes
    <3>3. \A b \in Assertions : b # a => assertion[b].step # "answered"
      BY <1>1, <2>3, <3>1 DEF EnterpriseInv, RefreshTaken, x
    <3>. QED BY <1>1, <1>2, <1>3, <1>4, <2>3, <3>2, <3>3 DEF EnterpriseInv, RefreshTaken
  <2>. QED BY <2>1, <2>2, <2>3, EnterpriseTypes
<1>8. Enterprise!KeptFresh' /\ SignInOrder' /\ Enterprise!SignInIsOwn'
  BY <1>1, <1>2, <1>3, <1>4 DEF EnterpriseInv, Enterprise!KeptFresh, Enterprise!FreshPresented, SignInOrder,
              Enterprise!SignInIsOwn
<1>. QED BY <1>5, <1>6, <1>7, <1>8 DEF EnterpriseInv

(* What an answer brings is fresh, and the refresh token in it is taken.    *)
LEMMA LandInv ==
  ASSUME EnterpriseInv, NEW a \in Assertions, Enterprise!Land(a)
  PROVE  EnterpriseInv'
<1> DEFINE v == [assertion[a] EXCEPT !.step = "persist"]
<1>1. /\ UNCHANGED <<reloads, tokenEndpoint, idp, kept, expired, sign>>
      /\ assertion[a].step = "answered" /\ assertion' = [assertion EXCEPT ![a] = v]
      /\ current' = assertion[a].tokens
  BY DEF Enterprise!Land
<1>2. /\ v \in Enterprise!Assertion /\ v.step = "persist" /\ v.stale = assertion[a].stale
      /\ v.tokens = assertion[a].tokens
  BY EnterpriseTypes DEF Enterprise!Assertion
<1>. HIDE DEF v
<1>3. /\ assertion' \in [Assertions -> Enterprise!Assertion] /\ assertion'[a] = v
      /\ \A b \in Assertions : b # a => assertion'[b] = assertion[b]
  BY <1>1, <1>2 DEF EnterpriseInv, Enterprise!TypeOK
<1>4. current' \in Enterprise!IdpTokens /\ current'.id \notin expired
  BY <1>1 DEF EnterpriseInv, TokensInHand
<1>5. Enterprise!TypeOK'
  BY <1>1, <1>3, <1>4 DEF EnterpriseInv, Enterprise!TypeOK
<1>6. TokensInHand' /\ NoneReloaded'
  BY <1>1, <1>2, <1>3, <1>4 DEF EnterpriseInv, TokensInHand, NoneReloaded
<1>7. RefreshTaken'
  BY <1>1, <1>2, <1>3, <1>4 DEF EnterpriseInv, RefreshTaken
<1>8. Enterprise!KeptFresh' /\ SignInOrder' /\ Enterprise!SignInIsOwn'
  BY <1>1, <1>2, <1>3 DEF EnterpriseInv, Enterprise!KeptFresh, Enterprise!FreshPresented, SignInOrder,
              Enterprise!SignInIsOwn
<1>. QED BY <1>5, <1>6, <1>7, <1>8 DEF EnterpriseInv

(* What is in hand once the tokens are kept is presented, and is fresh.     *)
LEMMA PersistInv ==
  ASSUME EnterpriseInv, NEW a \in Assertions, Enterprise!Persist(a)
  PROVE  EnterpriseInv'
<1> DEFINE v == [[assertion[a] EXCEPT !.step = "shown"] EXCEPT !.tokens = current]
<1>1. /\ UNCHANGED <<reloads, current, tokenEndpoint, idp, expired, sign>>
      /\ assertion[a].step = "persist" /\ assertion' = [assertion EXCEPT ![a] = v]
      /\ kept' = assertion[a].tokens
  BY DEF Enterprise!Persist, Enterprise!Shown
<1>2. /\ v \in Enterprise!Assertion /\ v.step = "shown" /\ v.stale = assertion[a].stale
      /\ v.tokens = current /\ current \in Enterprise!IdpTokens
  BY EnterpriseTypes DEF Enterprise!Assertion
<1>. HIDE DEF v
<1>3. /\ assertion' \in [Assertions -> Enterprise!Assertion] /\ assertion'[a] = v
      /\ \A b \in Assertions : b # a => assertion'[b] = assertion[b]
  BY <1>1, <1>2 DEF EnterpriseInv, Enterprise!TypeOK
<1>4. kept' \in Enterprise!IdpTokens
  BY <1>1 DEF EnterpriseInv, TokensInHand
<1>5. Enterprise!TypeOK'
  BY <1>1, <1>3, <1>4 DEF EnterpriseInv, Enterprise!TypeOK
<1>6. TokensInHand' /\ NoneReloaded'
  BY <1>1, <1>2, <1>3 DEF EnterpriseInv, TokensInHand, NoneReloaded
<1>7. RefreshTaken'
  BY <1>1, <1>2, <1>3 DEF EnterpriseInv, RefreshTaken
<1>8. ~reloads => current.id \notin assertion[a].stale
  BY <1>1 DEF EnterpriseInv, NoneReloaded
<1>9. Enterprise!KeptFresh' /\ SignInOrder' /\ Enterprise!SignInIsOwn'
  BY <1>1, <1>2, <1>3, <1>8 DEF EnterpriseInv, Enterprise!KeptFresh, Enterprise!FreshPresented, SignInOrder,
              Enterprise!SignInIsOwn
<1>. QED BY <1>5, <1>6, <1>7, <1>9 DEF EnterpriseInv

(* An ID token comes to expire, but none of an answer under way.            *)
LEMMA ExpireInv ==
  ASSUME EnterpriseInv, Enterprise!Expire
  PROVE  EnterpriseInv'
<1>1. PICK n \in 1..idp.issued :
        /\ \A a \in Assertions : assertion[a].step = "answered" => assertion[a].tokens.id # n
        /\ expired' = expired \cup {n}
  BY DEF Enterprise!Expire
<1>2. UNCHANGED <<reloads, current, tokenEndpoint, assertion, idp, kept, sign>>
  BY DEF Enterprise!Expire
<1>3. n \in Enterprise!Tokens
  BY EnterpriseTypes, CredentialsAssumption DEF Enterprise!Tokens
<1>4. Enterprise!TypeOK'
  BY <1>1, <1>2, <1>3 DEF EnterpriseInv, Enterprise!TypeOK
<1>5. TokensInHand'
  BY <1>1, <1>2 DEF EnterpriseInv, TokensInHand
<1>6. NoneReloaded' /\ RefreshTaken' /\ SignInOrder' /\ Enterprise!KeptFresh' /\ Enterprise!SignInIsOwn'
  BY <1>2 DEF EnterpriseInv, NoneReloaded, RefreshTaken, SignInOrder, Enterprise!KeptFresh,
              Enterprise!FreshPresented, Enterprise!SignInIsOwn
<1>. QED BY <1>4, <1>5, <1>6 DEF EnterpriseInv

(* A step of a sign-in leaves the assertions alone.                         *)
LEMMA SignInInv ==
  ASSUME EnterpriseInv, NEW s \in SignIns, NEW v \in Enterprise!SignIn, sign' = [sign EXCEPT ![s] = v],
         UNCHANGED <<reloads, current, tokenEndpoint, assertion, kept, expired>>,
         \E spent \in SUBSET SignIns : idp' = [idp EXCEPT !.spent = spent],
         v.step \in {"exchange", "token", "done"} => v.state = s,
         v.step = "exchange" => v.code # None,
         v.step \in {"token", "done"} => v.nonce = v.code,
         v.step = "done" => v.code = s
  PROVE  EnterpriseInv'
<1>1. /\ sign' \in [SignIns -> Enterprise!SignIn] /\ sign'[s] = v
      /\ \A t \in SignIns : t # s => sign'[t] = sign[t]
  BY DEF EnterpriseInv, Enterprise!TypeOK
<1>2. /\ idp' \in [renews: Enterprise!Renewals, issued: Enterprise!Tokens, takes: SUBSET Enterprise!Tokens,
                   spent: SUBSET SignIns]
      /\ idp'.renews = idp.renews /\ idp'.issued = idp.issued /\ idp'.takes = idp.takes
  BY DEF EnterpriseInv, Enterprise!TypeOK
<1>3. Enterprise!TypeOK'
  BY <1>1, <1>2 DEF EnterpriseInv, Enterprise!TypeOK
<1>4. TokensInHand' /\ NoneReloaded' /\ Enterprise!KeptFresh'
  BY <1>2 DEF EnterpriseInv, TokensInHand, NoneReloaded, Enterprise!KeptFresh, Enterprise!FreshPresented
<1>5. RefreshTaken'
  BY <1>2 DEF EnterpriseInv, RefreshTaken
<1>6. SignInOrder' /\ Enterprise!SignInIsOwn'
  BY <1>1 DEF EnterpriseInv, SignInOrder, Enterprise!SignInIsOwn
<1>. QED BY <1>3, <1>4, <1>5, <1>6 DEF EnterpriseInv

(* A sign-in goes on with its own state, code and nonce.                    *)
LEMMA SignInStepInv ==
  ASSUME EnterpriseInv, Enterprise!SignInStep
  PROVE  EnterpriseInv'
<1>1. PICK s \in SignIns :
        \/ Enterprise!Begin(s) \/ Enterprise!Callback(s) \/ Enterprise!IdpRedeems(s)
        \/ Enterprise!IdpRefuses(s) \/ Enterprise!SignedIn(s)
  BY DEF Enterprise!SignInStep
<1>2. /\ sign[s] \in Enterprise!SignIn /\ idp.spent \in SUBSET SignIns
      /\ idp \in [renews: Enterprise!Renewals, issued: Enterprise!Tokens, takes: SUBSET Enterprise!Tokens,
                  spent: SUBSET SignIns]
  BY DEF EnterpriseInv, Enterprise!TypeOK
<1>3. UNCHANGED idp => \E spent \in SUBSET SignIns : idp' = [idp EXCEPT !.spent = spent]
  BY <1>2
<1>4. CASE Enterprise!Begin(s) \/ Enterprise!IdpRefuses(s)
  <2>1. PICK step \in {"callback", "failed"} : sign' = [sign EXCEPT ![s] = [sign[s] EXCEPT !.step = step]]
    BY <1>4 DEF Enterprise!Begin, Enterprise!IdpRefuses
  <2> DEFINE v == [sign[s] EXCEPT !.step = step]
  <2>2. v \in Enterprise!SignIn /\ v.step = step
    BY <1>2 DEF Enterprise!SignIn
  <2>. HIDE DEF v
  <2>3. UNCHANGED <<reloads, current, tokenEndpoint, assertion, idp, kept, expired>>
    BY <1>4 DEF Enterprise!Begin, Enterprise!IdpRefuses
  <2>4. sign' = [sign EXCEPT ![s] = v]
    BY <2>1 DEF v
  <2>. QED BY <1>3, <2>2, <2>3, <2>4, SignInInv
<1>5. CASE Enterprise!Callback(s)
  <2>0. PICK state \in SignIns \cup {None}, code \in {t \in SignIns : sign[t].step # "none"} \cup {None} :
          sign' = [sign EXCEPT ![s].state = state, ![s].code = code,
                    ![s].step = IF Enterprise!Accepted(s, state, code) THEN "exchange" ELSE "failed"]
    BY <1>5 DEF Enterprise!Callback
  <2>1. code \in SignIns \cup {None}
    OBVIOUS
  <2> DEFINE step == IF Enterprise!Accepted(s, state, code) THEN "exchange" ELSE "failed"
             v == [[[sign[s] EXCEPT !.state = state] EXCEPT !.code = code] EXCEPT !.step = step]
  <2>2. step \in {"exchange", "failed"} /\ (step = "exchange" => state = s /\ code # None)
    BY DEF Enterprise!Accepted
  <2>3. sign' = [sign EXCEPT ![s] = v]
    BY <2>0
  <2>. HIDE DEF step
  <2>4. v \in Enterprise!SignIn /\ v.step = step /\ v.state = state /\ v.code = code
    BY <1>2, <2>1, <2>2 DEF Enterprise!SignIn
  <2>. HIDE DEF v
  <2>5. UNCHANGED <<reloads, current, tokenEndpoint, assertion, idp, kept, expired>>
    BY <1>5 DEF Enterprise!Callback
  <2>. QED BY <1>3, <2>1, <2>2, <2>3, <2>4, <2>5, SignInInv
<1>6. CASE Enterprise!IdpRedeems(s)
  <2> DEFINE v == [[sign[s] EXCEPT !.step = "token"] EXCEPT !.nonce = sign[s].code]
  <2>1. /\ sign[s].step = "exchange" /\ sign' = [sign EXCEPT ![s] = v]
        /\ idp' = [idp EXCEPT !.spent = idp.spent \cup {sign[s].code}]
        /\ UNCHANGED <<reloads, current, tokenEndpoint, assertion, kept, expired>>
    BY <1>6 DEF Enterprise!IdpRedeems
  <2>2. sign[s].code \in SignIns /\ sign[s].state = s
    BY <1>2, <2>1 DEF EnterpriseInv, SignInOrder, Enterprise!SignInIsOwn, Enterprise!SignIn
  <2>3. /\ v \in Enterprise!SignIn /\ v.step = "token" /\ v.nonce = sign[s].code
        /\ v.code = sign[s].code /\ v.state = s
    BY <1>2, <2>2 DEF Enterprise!SignIn
  <2>. HIDE DEF v
  <2>4. idp.spent \cup {sign[s].code} \in SUBSET SignIns
    BY <1>2, <2>2
  <2>. QED BY <2>1, <2>3, <2>4, SignInInv
<1>7. CASE Enterprise!SignedIn(s)
  <2> DEFINE step == IF Enterprise!Bound(s) THEN "done" ELSE "failed"
             v == [sign[s] EXCEPT !.step = step]
  <2>1. /\ sign[s].step = "token" /\ sign' = [sign EXCEPT ![s] = v]
        /\ UNCHANGED <<reloads, current, tokenEndpoint, assertion, idp, kept, expired>>
    BY <1>7 DEF Enterprise!SignedIn
  <2>2. sign[s].nonce = sign[s].code /\ sign[s].state = s
    BY <2>1 DEF EnterpriseInv, SignInOrder, Enterprise!SignInIsOwn
  <2>3. step \in {"done", "failed"} /\ (step = "done" => sign[s].nonce = s)
    BY DEF Enterprise!Bound
  <2>. HIDE DEF step
  <2>4. /\ v \in Enterprise!SignIn /\ v.step = step /\ v.nonce = sign[s].nonce
        /\ v.code = sign[s].code /\ v.state = s
    BY <1>2, <2>2, <2>3 DEF Enterprise!SignIn
  <2>. HIDE DEF v
  <2>. QED BY <1>3, <2>1, <2>2, <2>3, <2>4, SignInInv
<1>. QED BY <1>1, <1>4, <1>5, <1>6, <1>7

(* Every step with the IdP preserves the invariant.                         *)
LEMMA EnterpriseStep == EnterpriseInv /\ [Enterprise!Next]_idpVars => EnterpriseInv'
<1> SUFFICES ASSUME EnterpriseInv, [Enterprise!Next]_idpVars PROVE EnterpriseInv'
  OBVIOUS
<1>1. ASSUME NEW a \in Assertions,
             \/ Enterprise!ReloadFails(a) \/ Enterprise!NoEndpoint(a) \/ Enterprise!RenewFails(a)
             \/ Enterprise!PersistFails(a)
      PROVE  EnterpriseInv'
  BY <1>1, FailsInv
     DEF Enterprise!ReloadFails, Enterprise!NoEndpoint, Enterprise!RenewFails, Enterprise!PersistFails
<1>2. CASE Enterprise!AssertionStep
  BY <1>1, <1>2, AskInv, CheckInv, RenewInv, IdpRenewsInv, AnswerLostInv, LandInv, PersistInv, GrantedInv,
     ExpireInv DEF Enterprise!AssertionStep
<1>3. CASE Enterprise!SignInStep
  BY <1>3, SignInStepInv
<1>4. CASE UNCHANGED idpVars
  BY <1>4 DEF idpVars, EnterpriseInv, Enterprise!TypeOK, TokensInHand, NoneReloaded, RefreshTaken, SignInOrder,
              Enterprise!KeptFresh, Enterprise!FreshPresented, Enterprise!SignInIsOwn
<1>. QED BY <1>2, <1>3, <1>4 DEF Enterprise!Next

(* The invariant of the IdP holds at the start.                             *)
LEMMA EnterpriseInit == Enterprise!Init => EnterpriseInv
<1> SUFFICES ASSUME Enterprise!Init PROVE EnterpriseInv
  OBVIOUS
<1>1. 1 \in Enterprise!Tokens /\ 0 \in 0..MaxIssued /\ 1 \in 0..MaxIssued
  BY CredentialsAssumption DEF Enterprise!Tokens
<1>2. /\ current \in Enterprise!IdpTokens /\ kept = current /\ current.id = 1 /\ current.refresh \in {0, 1}
  BY <1>1 DEF Enterprise!Init, Enterprise!First, Enterprise!IdpTokens
<1>3. /\ idp.renews \in Enterprise!Renewals /\ idp.issued = 1 /\ idp.takes = {current.refresh} \ {0}
      /\ idp.spent = {}
      /\ idp \in [renews: Enterprise!Renewals, issued: Enterprise!Tokens, takes: SUBSET Enterprise!Tokens,
                  spent: SUBSET SignIns]
  <2>1. {current.refresh} \ {0} \in SUBSET Enterprise!Tokens
    BY <1>1, <1>2
  <2>. QED BY <1>1, <2>1 DEF Enterprise!Init
<1>4. /\ assertion \in [Assertions -> Enterprise!Assertion]
      /\ \A a \in Assertions : assertion[a].step = "none" /\ assertion[a].stale = {}
  <2>1. Enterprise!NoAssertion \in Enterprise!Assertion
    BY DEF Enterprise!NoAssertion, Enterprise!Assertion
  <2>. QED BY <2>1 DEF Enterprise!Init, Enterprise!NoAssertion
<1>5. /\ sign \in [SignIns -> Enterprise!SignIn] /\ \A s \in SignIns : sign[s].step = "none"
  BY DEF Enterprise!Init, Enterprise!NoSignIn, Enterprise!SignIn
<1>6. expired = {} /\ reloads \in BOOLEAN /\ tokenEndpoint \in BOOLEAN
  BY DEF Enterprise!Init
<1>7. Enterprise!TypeOK
  BY <1>2, <1>3, <1>4, <1>5, <1>6 DEF Enterprise!TypeOK
<1>8. TokensInHand /\ NoneReloaded /\ Enterprise!KeptFresh
  BY <1>4, <1>6 DEF TokensInHand, NoneReloaded, Enterprise!KeptFresh, Enterprise!FreshPresented
<1>9. RefreshTaken
  BY <1>2, <1>3, <1>4 DEF RefreshTaken
<1>10. SignInOrder /\ Enterprise!SignInIsOwn
  BY <1>5 DEF SignInOrder, Enterprise!SignInIsOwn
<1>. QED BY <1>7, <1>8, <1>9, <1>10 DEF EnterpriseInv

(* It implies what the runs check.                                          *)
LEMMA EnterpriseKept == EnterpriseInv => SessionKept
BY EnterpriseTypes DEF EnterpriseInv, RefreshTaken, SessionKept, Enterprise!SessionKept

-----------------------------------------------------------------------------
(* Where a probe has been.                                                  *)
ProbePath ==
  /\ hop < Probe!MaxRedirects /\ Len(sent) <= hop + 3
  /\ at \in {"post", "drain"} =>
       Len(sent) = hop + 1 /\ \A n \in DOMAIN sent : sent[n].url = "home"
  /\ at = "resource" =>
       /\ Len(sent) <= hop + 2
       /\ \A n \in DOMAIN sent : sent[n].what # "server" \/ sent[n].url = "home"
  /\ \A n \in DOMAIN sent : Probe!Asked(sent[n])

(* What has led a probe to an authorization server.                         *)
ProbeAsked ==
  at \in {"resource", "server", "read"} =>
    answer.status = 401 /\ ~answer.opaque /\ (Probe!Challenged \/ answer.challenges = <<>>)

ProbeInv == Probe!TypeOK /\ ProbePath /\ ProbeAsked /\ Probe!SuggestionSound

(* The verdicts that are nothing but their kind, and what may be added to   *)
(* one.                                                                     *)
Plainly == {"unreachable", "redirect", "error", "bearer", "unauthorized", "open", "not-mcp"}
Reasons == {"", "cross-origin", "too-many-redirects", "opaque", "sse", "streamable-http"}

(* None of them suggests a sign-in.                                         *)
LEMMA KindTypes ==
  ASSUME NEW k \in Plainly
  PROVE  Probe!Kind(k) \in Probe!Verdicts /\ Probe!Kind(k) # None /\ Probe!Suggested(Probe!Kind(k)) = "none"
<1>1. Probe!Kind(k).kind # "oauth" /\ Probe!Kind(k) \in Probe!Verdicts
  BY DEF Probe!Kind, Probe!Verdicts, Plainly
<1>. QED BY <1>1, VerdictAssumption DEF Probe!Suggested

(* Nor does one with a reason.                                              *)
LEMMA ReasonTypes ==
  ASSUME NEW k \in Plainly, NEW x \in Reasons
  PROVE  LET v == [Probe!Kind(k) EXCEPT !.reason = x]
         IN  v \in Probe!Verdicts /\ v # None /\ Probe!Suggested(v) = "none"
<1> DEFINE v == [Probe!Kind(k) EXCEPT !.reason = x]
<1>1. Probe!Kind(k).kind # "oauth" /\ Probe!Kind(k) \in Probe!Verdicts
  BY DEF Probe!Kind, Probe!Verdicts, Plainly
<1>2. v \in Probe!Verdicts /\ v.kind # "oauth"
  BY <1>1 DEF Probe!Verdicts, Reasons
<1>. HIDE DEF v
<1>3. v # None /\ Probe!Suggested(v) = "none"
  BY <1>2, VerdictAssumption DEF Probe!Suggested
<1>. QED BY <1>2, <1>3 DEF v

(* Nothing more is sent once the probe is over.                             *)
LEMMA PathEnds ==
  ASSUME ProbeInv, at' = "done", UNCHANGED <<hop, answer, resource, sent>>
  PROVE  ProbePath' /\ ProbeAsked'
BY DEF ProbeInv, ProbePath, ProbeAsked, Probe!Challenged, Probe!Asked

(* A step that ends the probe with a verdict that suggests no sign-in.     *)
LEMMA NothingSuggested ==
  ASSUME ProbeInv, NEW v \in Probe!Verdicts, v # None, Probe!Suggested(v) = "none", Probe!Verdict(v),
         UNCHANGED <<hop, answer, resource, metadata, late, ask>>,
         sent' = sent
  PROVE  ProbeInv'
<1>1. verdict' = v /\ at' = "done"
  BY DEF Probe!Verdict
<1>2. Probe!TypeOK'
  BY <1>1 DEF ProbeInv, Probe!TypeOK
<1>3. ProbePath' /\ ProbeAsked'
  BY <1>1, PathEnds
<1>4. Probe!SuggestionSound'
  BY <1>1 DEF Probe!SuggestionSound
<1>. QED BY <1>2, <1>3, <1>4 DEF ProbeInv

(* One more request.                                                        *)
LEMMA OneSent ==
  ASSUME ProbeInv, NEW w \in {"post", "get", "resource", "server"}, NEW u \in Probe!Urls, Probe!Sends(w, u)
  PROVE  /\ sent' \in Seq(Probe!Sent) /\ Len(sent') = Len(sent) + 1
         /\ \A n \in DOMAIN sent' : \/ n \in DOMAIN sent /\ sent'[n] = sent[n]
                                    \/ sent'[n].what = w /\ sent'[n].url = u
<1> DEFINE r == [what |-> w, url |-> u]
<1>1. r \in Probe!Sent /\ r.what = w /\ r.url = u /\ sent' = Append(sent, r)
  BY DEF Probe!Sent, Probe!Sends
<1>. HIDE DEF r
<1>2. sent \in Seq(Probe!Sent)
  BY DEF ProbeInv, Probe!TypeOK
<1>. QED BY <1>1, <1>2, AppendProperties

(* The verdict of a discovery suggests what the server has said.            *)
LEMMA ConcludeInv ==
  ASSUME ProbeInv, Probe!Conclude
  PROVE  ProbeInv'
<1> DEFINE v == [kind |-> "oauth", reason |-> "", grants |-> Probe!Offered,
                 registration |-> Probe!Registration, issues |-> Probe!Issues]
<1>1. /\ at = "read" /\ at' = "done" /\ UNCHANGED <<hop, answer, resource, metadata, late, ask, sent>>
      /\ verdict' = IF answer.challenges = <<>> /\ metadata = None THEN Probe!Kind("unauthorized") ELSE v
  BY DEF Probe!Conclude, Probe!Verdict
<1>2. CASE answer.challenges = <<>> /\ metadata = None
  BY <1>1, <1>2, KindTypes, NothingSuggested DEF Probe!Verdict, Plainly
<1>3. CASE ~(answer.challenges = <<>> /\ metadata = None)
  <2>1. metadata \in Probe!Servers \cup {None} /\ resource \in Probe!Resources \cup {None}
    BY DEF ProbeInv, Probe!TypeOK
  <2>2. Probe!Offered \in SUBSET Probe!Grants
    BY <2>1 DEF Probe!Offered, Probe!Servers, Probe!Grants
  <2>3. Probe!Registration \in {"unknown", "cimd", "dynamic", "preregistered-only"}
    BY DEF Probe!Registration
  <2>4. Probe!Issues \in SUBSET {"resource", "endpoint"}
    BY DEF Probe!Issues
  <2>a. v \in Probe!Verdicts
    BY <2>2, <2>3, <2>4 DEF Probe!Verdicts
  <2>5. v \in Probe!Verdicts /\ v # None
    BY <2>a, VerdictAssumption
  <2>6. Probe!TypeOK'
    BY <1>1, <1>3, <2>5 DEF ProbeInv, Probe!TypeOK
  <2>7. ProbePath' /\ ProbeAsked'
    BY <1>1, PathEnds
  <2>8. Probe!SuggestionSound'
    <3> SUFFICES ASSUME Probe!Suggested(v) # "none"
                 PROVE  /\ answer.status = 401 /\ ~answer.opaque
                        /\ Probe!Challenged \/ metadata # None
                        /\ resource # None => resource.covers
                        /\ metadata # None => /\ metadata.secure 
                                              /\ (metadata.grants = {} \/ Probe!Suggested(v) \in metadata.grants)
                        /\ metadata = None => Probe!Suggested(v) = "authorization_code"
      BY <1>1, <1>3 DEF Probe!SuggestionSound, Probe!Challenged
    <3>1. answer.status = 401 /\ ~answer.opaque /\ (Probe!Challenged \/ metadata # None)
      BY <1>1, <1>3 DEF ProbeInv, ProbeAsked
    <3>2. Probe!Issues = {}
      BY DEF Probe!Suggested
    <3>3. (resource # None => resource.covers) /\ (metadata # None => metadata.secure)
      <4>1. "resource" \notin Probe!Issues /\ "endpoint" \notin Probe!Issues
        BY <3>2
      <4>. QED BY <4>1, <2>1 DEF Probe!Issues
    <3>4. metadata = None => Probe!Suggested(v) = "authorization_code"
      BY <3>2 DEF Probe!Suggested, Probe!Offered
    <3>5. metadata # None => metadata.grants = {} \/ Probe!Suggested(v) \in metadata.grants
      BY <3>2 DEF Probe!Suggested, Probe!Offered
    <3>. QED BY <3>1, <3>3, <3>4, <3>5
  <2>. QED BY <2>6, <2>7, <2>8 DEF ProbeInv
<1>. QED BY <1>2, <1>3

(* Every step of a probe preserves its invariant.                           *)
LEMMA ProbeStep == ProbeInv /\ [Probe!Next]_probeVars => ProbeInv'
<1> SUFFICES ASSUME ProbeInv, [Probe!Next]_probeVars PROVE ProbeInv'
  OBVIOUS
<1>1. ASSUME Probe!PostFails PROVE ProbeInv'
  BY <1>1, KindTypes, NothingSuggested DEF Probe!PostFails, Plainly
<1>2. ASSUME Probe!PostAnswered PROVE ProbeInv'
  BY <1>2 DEF Probe!PostAnswered, Probe!Answers, Probe!Asked, ProbeInv, Probe!TypeOK, ProbePath, ProbeAsked, Probe!SuggestionSound
<1>3. ASSUME Probe!Redirected PROVE ProbeInv'
  <2> DEFINE w == [Probe!Kind("redirect") EXCEPT !.reason = "cross-origin"]
             x == [Probe!Kind("redirect") EXCEPT !.reason = "too-many-redirects"]
  <2>1. w \in Probe!Verdicts /\ w # None /\ Probe!Suggested(w) = "none"
    BY ReasonTypes DEF Plainly, Reasons
  <2>2. x \in Probe!Verdicts /\ x # None /\ Probe!Suggested(x) = "none"
    BY ReasonTypes DEF Plainly, Reasons
  <2>3. Probe!Kind("error") \in Probe!Verdicts /\ Probe!Kind("error") # None /\ Probe!Suggested(Probe!Kind("error")) = "none"
    BY KindTypes DEF Plainly
  <2>4. UNCHANGED <<answer, resource, metadata, late, ask>> /\ at = "drain" /\ ~answer.opaque /\ answer.status = 300
    BY <1>3 DEF Probe!Redirected, Probe!Redirect
  <2>5. \/ UNCHANGED <<hop, sent>> /\ Probe!Verdict(Probe!Kind("error"))
        \/ UNCHANGED <<hop, sent>> /\ Probe!Verdict(w)
        \/ UNCHANGED <<hop, sent>> /\ Probe!Verdict(x)
        \/ /\ hop' = hop + 1 /\ at' = "post" /\ Probe!Sends("post", "home") /\ UNCHANGED verdict
           /\ hop + 1 < Probe!MaxRedirects
    <3>. HIDE DEF w, x
    <3>1. \/ answer.location = None
          \/ answer.location # None /\ ~Probe!Followable(answer)
          \/ Probe!Followable(answer) /\ hop + 1 >= Probe!MaxRedirects
          \/ Probe!Followable(answer) /\ hop + 1 < Probe!MaxRedirects
      BY DEF ProbeInv, Probe!TypeOK, Probe!MaxRedirects
    <3>. QED BY <1>3, <3>1 DEF Probe!Redirected, Probe!Followable, w, x
  <2>. HIDE DEF w, x
  <2>6. CASE hop' = hop + 1 /\ at' = "post" /\ Probe!Sends("post", "home") /\ UNCHANGED verdict /\ hop + 1 < Probe!MaxRedirects
    <3>1. /\ sent' \in Seq(Probe!Sent) /\ Len(sent') = Len(sent) + 1
          /\ \A n \in DOMAIN sent' : (n \in DOMAIN sent /\ sent'[n] = sent[n]) \/ sent'[n].url = "home"
      BY <2>6, OneSent DEF Probe!Urls
    <3>2. \A n \in DOMAIN sent' : sent'[n].url = "home"
      BY <2>4, <3>1 DEF ProbeInv, ProbePath
    <3>3. ProbePath'
      BY <2>4, <2>6, <3>1, <3>2 DEF ProbeInv, Probe!TypeOK, ProbePath, Probe!MaxRedirects, Probe!Asked
    <3>. QED BY <2>4, <2>6, <3>1, <3>3 DEF ProbeInv, Probe!TypeOK, ProbeAsked, Probe!SuggestionSound, Probe!MaxRedirects
  <2>. QED BY <2>1, <2>2, <2>3, <2>4, <2>5, <2>6, NothingSuggested
<1>4. ASSUME Probe!Opaque PROVE ProbeInv'
  BY <1>4, ReasonTypes, NothingSuggested DEF Probe!Opaque, Plainly, Reasons
<1>5. ASSUME Probe!Discover PROVE ProbeInv'
  <2> DEFINE u == IF answer.metadata # None /\ Probe!Named(answer.metadata) THEN answer.metadata ELSE "home"
  <2>1. /\ Probe!Discovers /\ at' = "resource" /\ Probe!Sends("resource", u)
        /\ UNCHANGED <<hop, answer, resource, metadata, late, ask, verdict>>
    BY <1>5 DEF Probe!Discover
  <2>2. u \in Probe!Urls /\ (u = "home" \/ (u = answer.metadata /\ u # "private"))
    BY DEF ProbeInv, Probe!TypeOK, Probe!Answer, Probe!Urls, Probe!Named
  <2>. HIDE DEF u
  <2>3. /\ sent' \in Seq(Probe!Sent) /\ Len(sent') = Len(sent) + 1
        /\ \A n \in DOMAIN sent' : \/ n \in DOMAIN sent /\ sent'[n] = sent[n]
                                   \/ sent'[n].what = "resource" /\ sent'[n].url = u
    BY <2>1, <2>2, OneSent
  <2>4. at = "drain" /\ answer.status = 401 /\ ~answer.opaque /\ (Probe!Challenged \/ answer.challenges = <<>>)
    BY <2>1 DEF Probe!Discovers, Probe!Settled
  <2>5. ProbePath'
    BY <2>1, <2>2, <2>3, <2>4 DEF ProbeInv, Probe!TypeOK, ProbePath, Probe!MaxRedirects, Probe!Asked
  <2>. QED BY <2>1, <2>3, <2>4, <2>5 DEF ProbeInv, Probe!TypeOK, ProbeAsked, Probe!SuggestionSound, Probe!Challenged
<1>6. ASSUME Probe!OtherScheme PROVE ProbeInv'
  BY <1>6, KindTypes, NothingSuggested DEF Probe!OtherScheme, Plainly
<1>7. ASSUME Probe!NotMcpAt PROVE ProbeInv'
  <2>1. CASE ask.get
    <3>1. /\ at = "drain" /\ at' = "get" /\ Probe!Sends("get", "home")
          /\ UNCHANGED <<hop, answer, resource, metadata, late, ask, verdict>>
      BY <1>7, <2>1 DEF Probe!NotMcpAt, Probe!NotMcp, Probe!Settled
    <3>2. /\ sent' \in Seq(Probe!Sent) /\ Len(sent') = Len(sent) + 1
          /\ \A n \in DOMAIN sent' : (n \in DOMAIN sent /\ sent'[n] = sent[n]) \/ sent'[n].url = "home"
      BY <3>1, OneSent DEF Probe!Urls
    <3>3. ProbePath'
      BY <3>1, <3>2 DEF ProbeInv, Probe!TypeOK, ProbePath, Probe!MaxRedirects, Probe!Asked
    <3>. QED BY <3>1, <3>2, <3>3 DEF ProbeInv, Probe!TypeOK, ProbeAsked, Probe!SuggestionSound
  <2>2. CASE ~ask.get
    BY <1>7, <2>2, ReasonTypes, NothingSuggested DEF Probe!NotMcpAt, Probe!Sse, Plainly, Reasons
  <2>. QED BY <2>1, <2>2
<1>8. ASSUME Probe!GetEnds PROVE ProbeInv'
  <2>1. PICK status \in {None, 200, 404}, stream \in BOOLEAN :
          Probe!Verdict([Probe!Kind("not-mcp") EXCEPT !.reason = Probe!Sse(stream /\ status = 200, status)])
    BY <1>8 DEF Probe!GetEnds
  <2> DEFINE x == Probe!Sse(stream /\ status = 200, status)
             v == [Probe!Kind("not-mcp") EXCEPT !.reason = x]
  <2>2. x \in Reasons
    BY DEF Probe!Sse, Reasons
  <2>. HIDE DEF x
  <2>3. v \in Probe!Verdicts /\ v # None /\ Probe!Suggested(v) = "none"
    BY <2>2, ReasonTypes DEF Plainly
  <2>4. Probe!Verdict(v) /\ UNCHANGED <<hop, answer, resource, metadata, late, ask, sent>>
    BY <1>8, <2>1 DEF Probe!GetEnds, x
  <2>. HIDE DEF v
  <2>. QED BY <2>3, <2>4, NothingSuggested
<1>9. ASSUME Probe!Plain PROVE ProbeInv'
  BY <1>9, KindTypes, NothingSuggested DEF Probe!Plain, Plainly
<1>10. ASSUME Probe!ResourceRead PROVE ProbeInv'
  <2>1. PICK r \in {None} \cup Probe!Resources : resource' = r /\ Probe!Sends("server", Probe!Primary(r))
    BY <1>10 DEF Probe!ResourceRead
  <2>2. at = "resource" /\ at' = "server" /\ UNCHANGED <<hop, answer, metadata, late, ask, verdict>>
    BY <1>10 DEF Probe!ResourceRead
  <2> DEFINE u == Probe!Primary(r)
  <2>3. u \in Probe!Urls /\ (u = "home" \/ (r # None /\ u = r.server))
    BY DEF Probe!Primary, Probe!Resources, Probe!Urls
  <2>. HIDE DEF u
  <2>4. /\ sent' \in Seq(Probe!Sent) /\ Len(sent') = Len(sent) + 1
        /\ \A n \in DOMAIN sent' : \/ n \in DOMAIN sent /\ sent'[n] = sent[n]
                                   \/ sent'[n].what = "server" /\ sent'[n].url = u
    BY <2>1, <2>3, OneSent DEF u
  <2>5. ProbePath'
    BY <2>1, <2>2, <2>3, <2>4 DEF ProbeInv, Probe!TypeOK, ProbePath, Probe!MaxRedirects, Probe!Asked
  <2>6. verdict = None /\ verdict' = None
    BY <2>2 DEF ProbeInv, Probe!TypeOK
  <2>. QED BY <2>1, <2>2, <2>4, <2>5, <2>6 DEF ProbeInv, Probe!TypeOK, ProbeAsked, Probe!SuggestionSound, Probe!Challenged
<1>11. ASSUME Probe!ServerRead PROVE ProbeInv'
  BY <1>11 DEF Probe!ServerRead, Probe!Asked, ProbeInv, Probe!TypeOK, ProbePath, ProbeAsked, Probe!SuggestionSound, Probe!Challenged
<1>12. ASSUME Probe!Deadline PROVE ProbeInv'
  BY <1>12 DEF Probe!Deadline, Probe!Asked, ProbeInv, Probe!TypeOK, ProbePath, ProbeAsked, Probe!SuggestionSound, Probe!Challenged
<1>13. ASSUME UNCHANGED probeVars PROVE ProbeInv'
  BY <1>13 DEF probeVars, Probe!Asked, ProbeInv, Probe!TypeOK, ProbePath, ProbeAsked, Probe!SuggestionSound, Probe!Challenged
<1>. QED
  BY <1>1, <1>2, <1>3, <1>4, <1>5, <1>6, <1>7, <1>8, <1>9, <1>10, <1>11, <1>12, <1>13, ConcludeInv
     DEF Probe!Next

(* So its requests go where they may, and are few.                          *)
LEMMA ProbeGoes == ProbeInv => Probe!GoesWhereAsked
BY DEF ProbeInv, ProbePath, Probe!GoesWhereAsked, Probe!TypeOK, Probe!MaxRedirects

(* The invariant of a probe holds at the start.                             *)
LEMMA ProbeInit == Probe!Init => ProbeInv
<1> SUFFICES ASSUME Probe!Init PROVE ProbeInv
  OBVIOUS
<1>1. sent \in Seq(Probe!Sent) /\ Len(sent) = 1 /\ \A n \in DOMAIN sent : sent[n].url = "home"
  BY DEF Probe!Init, Probe!Sent, Probe!Urls
<1>2. answer \in Probe!Answer
  BY DEF Probe!Init, Probe!NoAnswer, Probe!Answer, Probe!Statuses
<1>3. /\ at = "post" /\ hop = 0 /\ resource = None /\ metadata = None /\ late = FALSE
      /\ ask \in [get: BOOLEAN, sse: BOOLEAN] /\ verdict = None
  BY DEF Probe!Init
<1>4. Probe!TypeOK
  <2>1. hop \in 0..Probe!MaxRedirects
    BY <1>3 DEF Probe!MaxRedirects
  <2>2. (at = "done") = (verdict # None)
    BY <1>3
  <2>. QED BY <1>1, <1>2, <1>3, <2>1, <2>2 DEF Probe!TypeOK
<1>. QED
  BY <1>1, <1>3, <1>4 DEF ProbeInv, ProbePath, ProbeAsked, Probe!SuggestionSound, Probe!MaxRedirects, Probe!Asked

-----------------------------------------------------------------------------

(* Each part takes its own steps, and those of the others leave it alone.  *)
LEMMA PartSteps ==
  [CredentialsNext]_credentialsVars =>
    /\ [Next]_vars /\ [Round!Next]_roundVars /\ [Tokens!Next]_tokenVars
    /\ [Enterprise!Next]_idpVars /\ [Probe!Next]_probeVars
BY DEF CredentialsNext, credentialsVars, Enterprise!Next

(* Every part begins in its invariant, whichever is explored.               *)
LEMMA PartInits ==
  CredentialsInit => /\ FileInv /\ RoundInv /\ TokenInv /\ EnterpriseInv /\ ProbeInv
BY FileInit, RoundInit, TokenInit, EnterpriseInit, ProbeInit DEF CredentialsInit

(* The invariants of the parts that need no hypothesis.                    *)
LEMMA PartsAlways == CredentialsSpec => [](FileInv /\ RoundInv /\ EnterpriseInv /\ ProbeInv)
<1> DEFINE All == FileInv /\ RoundInv /\ EnterpriseInv /\ ProbeInv
<1>1. CredentialsInit => All
  BY PartInits
<1>2. All /\ [CredentialsNext]_credentialsVars => All'
  BY PartSteps, FileStep, RoundStep, EnterpriseStep, ProbeStep
<1>. QED BY <1>1, <1>2, PTL DEF CredentialsSpec

(* That of the tokens needs its hypothesis.                                 *)
LEMMA TokensAlways ==
  ASSUME OneAuthorizer PROVE CredentialsSpec => []TokenInv
<1>1. CredentialsInit => TokenInv
  BY PartInits
<1>2. TokenInv /\ [CredentialsNext]_credentialsVars => TokenInv'
  BY PartSteps, TokenStep
<1>. QED BY <1>1, <1>2, PTL DEF CredentialsSpec

(* However many rounds begin, end and overlap, in whatever endpoint, and   *)
(* whatever requests reach it: a wait that ends with a callback ends with  *)
(* one of the provider, and neither what is accepted nor what a completion *)
(* compares with has been verified when it is read.                        *)
THEOREM CallbackAlwaysOwn == CredentialsSpec => CallbackIsOwn
<1>1. RoundInv => Round!TypeOK /\ (endpoint.outcome = "callback" => endpoint.by \in 1..round)
  BY RoundOwn
<1>2. RoundInv /\ [CredentialsNext]_credentialsVars => [Reads]_roundVars
  BY PartSteps, ReadsUnspent
<1>3. CredentialsSpec => [][CredentialsNext]_credentialsVars
  BY PTL DEF CredentialsSpec
<1>4. CredentialsSpec => /\ []Round!TypeOK /\ [](endpoint.outcome = "callback" => endpoint.by \in 1..round)
                         /\ [][Reads]_roundVars
  BY <1>1, <1>2, <1>3, PartsAlways, PTL
<1>. QED BY <1>4 DEF CallbackIsOwn, Round!OwnCallback, Reads, roundVars, Round!vars

(* Where one round of auth() runs at a time: every issuer with credentials *)
(* is in the index, and no set that was asked for before an invalidation   *)
(* appears after it, but one that was being saved when it began.           *)
THEOREM InvalidatedAlwaysGone ==
  ASSUME \A r, s \in Authorizers : r = s
  PROVE  CredentialsSpec => []InvalidatedGone
<1>1. CredentialsSpec => []TokenInv
  BY TokensAlways DEF OneAuthorizer
<1>. QED BY <1>1, TokenGone, PTL

(* However many assertions run at once, none presents an ID token that was *)
(* about to expire when it asked, and the refresh token stays one that the *)
(* IdP takes; a sign-in ends with the token of its own round.              *)
THEOREM SessionAlwaysKept == CredentialsSpec => []SessionKept
BY PartsAlways, EnterpriseKept, PTL

(* A probe suggests what the server asks for, sends no request to another  *)
(* origin but for the metadata that a challenge and the resource name, and *)
(* follows no more redirects than it may.                                  *)
THEOREM SuggestionAlwaysSound == CredentialsSpec => []SuggestionSound
<1>1. ProbeInv => SuggestionSound
  BY ProbeGoes DEF SuggestionSound, ProbeInv
<1>. QED BY <1>1, PartsAlways, PTL

(* The file beside the other parts: what was acknowledged is on disk.      *)
THEOREM CredentialsDurable == CredentialsSpec => []FileDurable
<1>1. FileInv => FileDurable
  BY DEF FileInv, FileDurable
<1>. QED BY <1>1, PartsAlways, PTL
=============================================================================
