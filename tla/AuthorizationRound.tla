-------------------------- MODULE AuthorizationRound --------------------------
(***************************************************************************)
(* Interactive authorization rounds of one McpOAuthClientProvider          *)
(* (src/client/oauth.ts) whose redirects end at a loopback endpoint        *)
(* (loopbackOAuthCallback, src/node/oauth.ts).  A round issues a `state`   *)
(* and a PKCE verifier; requests of any origin reach the endpoint, which   *)
(* asks matchesIssuedState whether one is the callback it waits for; the   *)
(* host passes that to verifyCallbackState, which consumes the state, and  *)
(* the SDK exchanges its code with the verifier that is stored then.       *)
(* Every access of the store by accept and by verifyCallbackState is a     *)
(* step of its own.  One endpoint is open at a time, as its port is that of *)
(* the redirect_uri of the provider; rounds and completions know nothing of *)
(* endpoints.                                                               *)
(***************************************************************************)
EXTENDS Naturals, FiniteSets

CONSTANTS
  Requests,   \* bound: requests to an endpoint
  Completers, \* bound: calls at a time that complete a round
  MaxRounds,  \* bound: rounds of the provider
  Forged      \* a `state` this provider never issued

VARIABLES
  round,     \* the rounds begun
  stored,    \* the store: `state` and `code_verifier`, each of a round; 0 is none
  endpoint,  \* the endpoint that was opened last
  request,   \* what is known of each request
  completing,\* the calls of finishAuth or completeAuthorization for it
  consumed   \* ghost: the rounds whose state has passed verification, with how often

vars == <<round, stored, endpoint, request, completing, consumed>>

Rounds == 1..MaxRounds

(* A request carries the state of a round, or another one; `step` says     *)
(* what handleCallback is waiting for.                                     *)
Request  == [step: {"none", "accept", "page", "denial", "done"}, state: 0..MaxRounds \cup {Forged}]
Endpoint == [ phase: {"off", "listening", "closing", "closed"},
              outcome: {"pending", "callback", "denied", "timeout", "closed"},
              by: Rounds \cup {0, Forged} ]
Completion == [ step: {"none", "read", "delete", "exchange", "done", "failed"},
                state: Rounds \cup {0, Forged}, expected: 0..MaxRounds ]

Off == [phase |-> "off", outcome |-> "pending", by |-> 0]
NoRequest == [step |-> "none", state |-> 0]
Answered == [step |-> "done", state |-> 0]
NoCompletion == [step |-> "none", state |-> 0, expected |-> 0]
Completed(step) == [NoCompletion EXCEPT !.step = step]

Init ==
  /\ round = 0 /\ stored = [state |-> 0, verifier |-> 0]
  /\ endpoint = Off
  /\ request = [r \in Requests |-> NoRequest]
  /\ completing = [c \in Completers |-> NoCompletion]
  /\ consumed = [n \in Rounds |-> 0]

----------------------------------------------------------------------------
(* An operator with a suffix is a variant of the one it precedes, with one *)
(* mistake the code could have made: a property below refutes it.          *)

(* The host opens an endpoint: the ports are tried in order, the first one *)
(* that is free is bound, and the call is over when it listens.            *)
Listen ==
  /\ endpoint.phase \in {"off", "closed"}
  /\ endpoint' = [Off EXCEPT !.phase = "listening"]
  /\ request' = [r \in Requests |-> NoRequest]
  /\ UNCHANGED <<round, stored, completing, consumed>>

(* The SDK begins a round: state() and saveCodeVerifier(), then the URL    *)
(* goes to the host.  It may do so before an endpoint is open, and again   *)
(* before the first one is over.                                           *)
Begin ==
  /\ round < MaxRounds
  /\ round' = round + 1
  /\ stored' = [state |-> round + 1, verifier |-> round + 1]
  /\ UNCHANGED <<endpoint, request, completing, consumed>>

(* A request that is not a top-level GET of the callback path on a         *)
(* loopback name, or has neither code nor error, is answered and forgotten.*)
Turned(r) ==
  /\ request[r].step = "none" /\ endpoint.phase = "listening"
  /\ request' = [request EXCEPT ![r] = Answered]
  /\ UNCHANGED <<round, stored, endpoint, completing, consumed>>

Callback(r, s) ==
  /\ request[r].step = "none" /\ endpoint.phase = "listening"
  /\ request' = [request EXCEPT ![r] = [step |-> "accept", state |-> s]]
  /\ UNCHANGED <<round, stored, endpoint, completing, consumed>>

(* A request with an error is a denial, whatever its state: `accept` is    *)
(* not asked.                                                              *)
Denial(r, s) ==
  /\ request[r].step = "none" /\ endpoint.phase = "listening"
  /\ request' = [request EXCEPT ![r] = [step |-> "denial", state |-> s]]
  /\ UNCHANGED <<round, stored, endpoint, completing, consumed>>

Matches_Present(s) == stored.state # 0

(* matchesIssuedState; a store that fails counts as a refusal.             *)
Matches(s) == stored.state # 0 /\ s = stored.state

Accept(r) ==
  /\ request[r].step = "accept"
  /\ \/ Matches(request[r].state) /\ request' = [request EXCEPT ![r].step = "page"]
     \/ request' = [request EXCEPT ![r] = Answered]
  /\ UNCHANGED <<round, stored, endpoint, completing, consumed>>

(* The promise settles once; whatever settles it closes the endpoint.      *)
Ends_Listening(outcome, by) ==
  endpoint' = IF endpoint.outcome = "pending"
              THEN [endpoint EXCEPT !.outcome = outcome, !.by = by] ELSE endpoint

Ends(outcome, by) ==
  endpoint' = [ phase |-> IF endpoint.phase = "listening" THEN "closing" ELSE endpoint.phase,
                outcome |-> IF endpoint.outcome = "pending" THEN outcome ELSE endpoint.outcome,
                by |-> IF endpoint.outcome = "pending" THEN by ELSE endpoint.by ]

(* The page has been written.                                              *)
PageSent(r) ==
  /\ request[r].step \in {"page", "denial"} /\ endpoint.phase # "closed"
  /\ Ends(IF request[r].step = "page" THEN "callback" ELSE "denied", request[r].state)
  /\ request' = [request EXCEPT ![r] = Answered]
  /\ UNCHANGED <<round, stored, completing, consumed>>

Timeout ==
  /\ endpoint.phase = "listening"
  /\ Ends("timeout", 0)
  /\ UNCHANGED <<round, stored, request, completing, consumed>>

Close ==
  /\ endpoint.phase = "listening"
  /\ Ends("closed", 0)
  /\ UNCHANGED <<round, stored, request, completing, consumed>>

(* closeAllConnections: what has not been answered never will be.          *)
Closed ==
  /\ endpoint.phase = "closing"
  /\ endpoint' = [endpoint EXCEPT !.phase = "closed"]
  /\ request' = [r \in Requests |-> Answered]
  /\ UNCHANGED <<round, stored, completing, consumed>>

----------------------------------------------------------------------------
(* waitForCallback has returned: the host completes the round with it.     *)
Complete(c) ==
  /\ endpoint.outcome = "callback" /\ completing[c].step \in {"none", "done", "failed"}
  /\ completing' = [completing EXCEPT ![c] = [NoCompletion EXCEPT !.step = "read", !.state = endpoint.by]]
  /\ UNCHANGED <<round, stored, endpoint, request, consumed>>

(* verifyCallbackState: the state is forgotten whether or not it matches.  *)
ReadState(c) ==
  /\ completing[c].step = "read"
  /\ completing' = [completing EXCEPT ![c] =
                      IF stored.state = 0 THEN Completed("failed")
                      ELSE [@ EXCEPT !.step = "delete", !.expected = stored.state]]
  /\ UNCHANGED <<round, stored, endpoint, request, consumed>>

Verified(c) ==
  LET matches == completing[c].state = completing[c].expected
  IN  /\ completing' = [completing EXCEPT ![c] =
                          IF matches THEN [@ EXCEPT !.step = "exchange"] ELSE Completed("failed")]
      /\ consumed' = IF matches THEN [consumed EXCEPT ![completing[c].expected] = @ + 1] ELSE consumed
      /\ UNCHANGED <<round, endpoint, request>>

DeleteState_Keeps(c) ==
  completing[c].step = "delete" /\ Verified(c) /\ UNCHANGED stored

DeleteState(c) ==
  completing[c].step = "delete" /\ Verified(c) /\ stored' = [stored EXCEPT !.state = 0]

(* The SDK reads codeVerifier(); the server grants a code only to the      *)
(* verifier of its own round.                                              *)
Exchange(c) ==
  /\ completing[c].step = "exchange"
  /\ completing' = [completing EXCEPT ![c] =
                      Completed(IF stored.verifier = completing[c].state THEN "done" ELSE "failed")]
  /\ UNCHANGED <<round, stored, endpoint, request, consumed>>

(* invalidateCredentials("verifier")                                       *)
Forget ==
  /\ round > 0 /\ stored # [state |-> 0, verifier |-> 0]
  /\ stored' = [state |-> 0, verifier |-> 0]
  /\ UNCHANGED <<round, endpoint, request, completing, consumed>>

Next ==
  \/ Listen \/ Begin \/ Timeout \/ Close \/ Closed
  \/ \E r \in Requests :
       \/ Turned(r) \/ Accept(r) \/ PageSent(r)
       \/ \E s \in 1..round \cup {Forged} : Callback(r, s) \/ Denial(r, s)
  \/ \E c \in Completers : Complete(c) \/ ReadState(c) \/ DeleteState(c) \/ Exchange(c)
  \/ Forget

Spec == Init /\ [][Next]_vars

(* Pages are written, the timer of an endpoint fires, its sockets close.   *)
Fairness ==
  /\ WF_vars(Timeout) /\ WF_vars(Closed)
  /\ \A r \in Requests : WF_vars(Accept(r)) /\ WF_vars(PageSent(r))

----------------------------------------------------------------------------
TypeOK ==
  /\ round \in 0..MaxRounds
  /\ stored \in [state: 0..MaxRounds, verifier: 0..MaxRounds]
  /\ endpoint \in Endpoint
  /\ request \in [Requests -> Request]
  /\ completing \in [Completers -> Completion]
  /\ consumed \in [Rounds -> Nat]

(* A round this provider has begun and whose state has not passed           *)
(* verification yet.                                                        *)
Unspent(n) == n \in 1..round /\ consumed[n] = 0

(* With `accept`, a wait that ends with a callback ends with one that       *)
(* carries a state of this provider's, and at the moment it was accepted    *)
(* that state had not passed verification; nor had the one a completion     *)
(* reads to compare with.  So what has been verified once can only be       *)
(* verified by calls that had read it before.                               *)
OwnCallback ==
  /\ [](endpoint.outcome = "callback" => endpoint.by \in 1..round)
  /\ [][ /\ \A r \in Requests :
              request[r].step = "accept" /\ request'[r].step = "page" => Unspent(request[r].state)
         /\ \A c \in Completers :
              completing[c].step = "read" /\ completing'[c].step = "delete"
                => Unspent(completing'[c].expected) ]_vars

(* "A stray or hostile local request cannot consume the round before the    *)
(* genuine redirect arrives" (node/oauth.ts:134-136).  False: a request     *)
(* with an error ends the wait, whatever its state.                         *)
StrayKeepsListening ==
  endpoint.outcome \in {"callback", "denied"} => endpoint.by # Forged

(* A wait does not end with a callback that has been completed before.      *)
(* False: the state stays accepted until verifyCallbackState, which has     *)
(* read it, deletes it, and the page of an accepted one is still written.   *)
EndsUnspent ==
  [][endpoint.outcome = "pending" /\ endpoint'.outcome = "callback" => Unspent(endpoint'.by)]_vars

(* A state is verified once: it is forgotten "whether or not it matched"    *)
(* (client/oauth.ts:317).  False of two calls that overlap.                 *)
OneUse == \A n \in Rounds : consumed[n] <= 1

(* An endpoint does not outlive its wait: it settles, and then it stops.   *)
EndpointStops ==
  endpoint.phase = "listening" ~> endpoint.outcome # "pending" /\ endpoint.phase # "listening"
===============================================================================
