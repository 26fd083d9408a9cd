---------------------------- MODULE SessionAdoption ----------------------------
(***************************************************************************)
(* The generations of one definition that resumes a session of the server: *)
(* its one-shot record (src/client/connection.ts), peeked at by the        *)
(* transport of every attempt and spent by the attempt that adopts it or   *)
(* is told it is gone (#performConnect, src/client/manager.ts), and how    *)
(* strict the client of each generation is.  Then the end of a generation: *)
(* concurrent calls of McpClientSession.close, over a transport that owns  *)
(* its server side (ownServerSide).                                        *)
(*                                                                         *)
(* The SDK client is external: close() hands on to the transport as long   *)
(* as it holds one, and lets it go when the transport's own end is closed. *)
(***************************************************************************)
EXTENDS Naturals, FiniteSets

CONSTANTS
  Closers,      \* calls of close
  MaxConnects,  \* bound: connect attempts
  Undefined

ASSUME AdoptionAssumption == MaxConnects \in Nat /\ Undefined \notin BOOLEAN

VARIABLES
  pinned,    \* clientOptions.enforceStrictCapabilities
  sticky,    \* the transport is one that carries the session id every time
  pending,   \* resumePending
  begun,     \* attempts begun
  attempt,   \* the attempt or generation at hand
  alive,     \* the server still has the session
  spent,     \* ghost: it has been adopted, or declared gone
  closing,   \* the promise of the transport's close
  close,     \* the calls of close, and the task they share
  ends       \* ghost: how often each side of the transport was closed

adoptionVars == <<pinned, sticky, pending, begun, attempt, alive, spent, closing, close, ends>>

Attempt == [ step: {"none", "opening", "connecting", "online"}, resuming: BOOLEAN,
             carries: BOOLEAN, strict: BOOLEAN ]
NoAttempt == [step |-> "none", resuming |-> FALSE, carries |-> FALSE, strict |-> TRUE]
Ends == [client: 0..2, server: 0..2]
(* "spoiled": the transport's own end has failed, the server's is closing. *)
TransportEnds == {"none", "client", "server", "spoiled", "closed", "failed"}
CloseTask == [ by: [Closers -> {"none", "waits", "closed", "failed"}], closed: BOOLEAN,
               task: {"none", "transport", "empty"}, holds: BOOLEAN ]
NoClose == [by |-> [k \in Closers |-> "none"], closed |-> FALSE, task |-> "none", holds |-> TRUE]

AdoptionInit ==
  /\ pinned \in BOOLEAN \cup {Undefined} /\ sticky \in BOOLEAN
  /\ pending = TRUE /\ begun = 0 /\ attempt = NoAttempt
  /\ alive = TRUE /\ spent = FALSE
  /\ closing = "none" /\ close = NoClose /\ ends = [client |-> 0, server |-> 0]

resumeVars == <<pinned, sticky, pending, begun, alive, spent>>
closeVars == <<closing, close, ends>>

----------------------------------------------------------------------------
(* An operator with a suffix is a variant of the one it precedes, with one *)
(* mistake the code could have made: a property below refutes it.          *)

(* The record is noted and the factory peeks at it in one go.              *)
AttemptBegins ==
  /\ attempt.step = "none" /\ begun < MaxConnects
  /\ begun' = begun + 1
  /\ attempt' = [NoAttempt EXCEPT !.step = "opening", !.resuming = pending,
                                  !.carries = sticky \/ pending]
  /\ UNCHANGED <<pinned, sticky, pending, alive, spent, closing, close, ends>>

(* definition.enforceStrictCapabilities, what it is next                   *)
Enforced(pin, waiting) == IF pin # Undefined THEN pin ELSE ~waiting

Strict_OfTheDefinition(resuming) == Enforced(pinned, pending)

(* #createClient: every definition with a record is one that may adopt.    *)
Strict(resuming) == resuming /\ Enforced(pinned, pending)

Create ==
  /\ attempt.step = "opening"
  /\ attempt' = [attempt EXCEPT !.step = "connecting", !.strict = Strict(attempt.resuming)]
  /\ UNCHANGED <<resumeVars, closeVars>>

Consumed_Never(resuming) == UNCHANGED pending

(* consumeResume, by the attempt that was resuming                         *)
Consumed(resuming) == pending' = (pending /\ ~resuming)

(* With a session id the SDK runs no handshake; without, it runs one.      *)
Adopts ==
  /\ attempt.step = "connecting" /\ (attempt.carries => alive)
  /\ attempt' = [attempt EXCEPT !.step = "online"]
  /\ Consumed(attempt.resuming) /\ spent' = (spent \/ attempt.carries)
  /\ closing' = "none" /\ close' = NoClose /\ ends' = [client |-> 0, server |-> 0]
  /\ UNCHANGED <<pinned, sticky, begun, alive>>

(* isSessionExpiryVerdict                                                  *)
DeclaredGone ==
  /\ attempt.step = "connecting" /\ attempt.carries /\ ~alive
  /\ attempt' = NoAttempt
  /\ Consumed(attempt.resuming) /\ spent' = TRUE
  /\ UNCHANGED <<pinned, sticky, begun, alive, closeVars>>

Unreached ==
  /\ attempt.step \in {"opening", "connecting"} /\ attempt' = NoAttempt
  /\ UNCHANGED <<resumeVars, closeVars>>

Expires ==
  /\ alive /\ alive' = FALSE
  /\ UNCHANGED <<pinned, sticky, pending, begun, attempt, spent, closeVars>>

----------------------------------------------------------------------------
Opened_Anew(p) == TRUE

(* ownServerSide closes once, whoever asks how often.                      *)
Opened(p) == p = "none"

(* McpClientSession.close: the first call closes the client, those that    *)
(* come while it does share its task.                                      *)
CloseBegins(k) ==
  LET closes == close.task = "none" /\ close.holds
  IN  /\ attempt.step = "online" /\ close.by[k] = "none"
      /\ close' = [close EXCEPT !.by[k] = "waits", !.closed = TRUE,
                     !.task = IF closes THEN "transport" ELSE IF @ = "none" THEN "empty" ELSE @]
      /\ IF closes /\ Opened(closing)
         THEN closing' = "client" /\ ends' = [ends EXCEPT !.client = @ + 1]
         ELSE UNCHANGED <<closing, ends>>
      /\ UNCHANGED <<resumeVars, attempt>>

(* The transport's own end: whether or not it fails, the other is closed.  *)
ClientEnds ==
  /\ closing = "client"
  /\ \/ closing' = "server" /\ close' = [close EXCEPT !.holds = FALSE]
     \/ closing' = "spoiled" /\ UNCHANGED close
  /\ ends' = [ends EXCEPT !.server = @ + 1]
  /\ UNCHANGED <<resumeVars, attempt>>

ServerEnds ==
  /\ \/ closing = "server" /\ closing' \in {"closed", "failed"}
     \/ closing = "spoiled" /\ closing' = "failed"
  /\ UNCHANGED <<resumeVars, attempt, close, ends>>

(* The task settles, and with it every call that waits for it; only a task *)
(* that fails is forgotten.                                                *)
CloseSettles ==
  LET outcome == IF close.task = "empty" THEN "closed" ELSE closing
  IN  /\ \E k \in Closers : close.by[k] = "waits"
      /\ outcome \in {"closed", "failed"}
      /\ close' = [close EXCEPT
           !.by = [k \in Closers |-> IF @[k] = "waits" THEN outcome ELSE @[k]],
           !.closed = outcome = "closed", !.task = IF outcome = "failed" THEN "none" ELSE @]
      /\ UNCHANGED <<resumeVars, attempt, closing, ends>>

(* The generation is over, closed or given up.                             *)
Over ==
  /\ attempt.step = "online" /\ \A k \in Closers : close.by[k] # "waits"
  /\ attempt' = NoAttempt
  /\ UNCHANGED <<resumeVars, closeVars>>

AdoptionNext ==
  \/ AttemptBegins \/ Create \/ Adopts \/ DeclaredGone \/ Unreached \/ Expires
  \/ \E k \in Closers : CloseBegins(k)
  \/ ClientEnds \/ ServerEnds \/ CloseSettles \/ Over

AdoptionSpec == AdoptionInit /\ [][AdoptionNext]_adoptionVars

----------------------------------------------------------------------------
AdoptionTypeOK ==
  /\ pinned \in BOOLEAN \cup {Undefined} /\ sticky \in BOOLEAN /\ pending \in BOOLEAN
  /\ begun \in 0..MaxConnects /\ attempt \in Attempt
  /\ alive \in BOOLEAN /\ spent \in BOOLEAN
  /\ closing \in TransportEnds /\ close \in CloseTask /\ ends \in Ends

(* "a connect attempt that fails leaves the record intact so the retry can *)
(* still resume instead of orphaning the session", and one that adopted it *)
(* or was told it is gone leaves none to replay; a client that adopts a    *)
(* session, for whatever reason, does not enforce what it never learned.   *)
AdoptedOnce ==
  /\ pending = ~spent
  /\ (attempt.step \in {"connecting", "online"} /\ attempt.carries /\ pinned = Undefined) =>
       ~attempt.strict

(* Each side of a transport is closed once, whoever closes it how often,   *)
(* and none is told that it is closed before the server side is.           *)
OwnedOnce ==
  /\ ends.client <= 1 /\ ends.server <= 1
  /\ (\E k \in Closers : close.by[k] = "closed") =>
       ends.server = 1 /\ closing \in {"closed", "failed"}

(* Both, typed.                                                            *)
ResumesOnce == AdoptionTypeOK /\ AdoptedOnce /\ OwnedOnce

(* "once the record is consumed, every later generation handshakes and     *)
(* enforces normally. An explicit clientOptions.enforceStrictCapabilities  *)
(* overrides both."                                                        *)
EnforcesAgain ==
  (attempt.step = "online" /\ ~attempt.carries) => attempt.strict = (pinned # FALSE)
===============================================================================
