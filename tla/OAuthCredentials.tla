--------------------------- MODULE OAuthCredentials ---------------------------
(***************************************************************************)
(* The token sets of one McpOAuthClientProvider (src/client/oauth.ts), by  *)
(* authorization server.  Requests read them and refresh what expires soon,*)
(* the SDK saves what an authorization round has brought and invalidates   *)
(* what a server has declared invalid.  The provider keeps everything in a *)
(* store: one action is one access of it, or one answer of a server.       *)
(***************************************************************************)
EXTENDS Naturals, FiniteSets

CONSTANTS
  Issuers,    \* authorization servers
  None,       \* no issuer
  Readers,    \* concurrent tokens() calls without a context
  Rounds,     \* concurrent rounds of the SDK's auth()
  MaxTokens   \* bound: token sets minted by the servers

VARIABLES
  store,   \* pointer, index, tokens and registered clients
  epoch,   \* #epoch
  flight,  \* #refreshing: the refresh of each issuer
  saving,  \* saveTokens and #saveRegisteredClient, of flights and of rounds
  purge,   \* invalidateCredentials of each round
  reader,  \* the tokens() calls
  minted   \* the token sets the servers have issued

vars == <<store, epoch, flight, saving, purge, reader, minted>>

(* `since` is the epoch a set was asked for in, `late` that it was already *)
(* being saved when an invalidation began: ghosts.                         *)
Token   == [id: 0..MaxTokens, soon: BOOLEAN, since: Nat, late: BOOLEAN]
NoToken == [id |-> 0, soon |-> FALSE, since |-> 0, late |-> FALSE]

Savers == Issuers \cup Rounds
Save   == [ step: {"none", "index", "pointer", "list", "point", "put"}, issuer: Issuers \cup {None},
            what: {"tokens", "client"}, token: Token, seen: SUBSET Issuers ]
NoSave == [step |-> "none", issuer |-> None, what |-> "tokens", token |-> NoToken, seen |-> {}]

Flight   == [step: {"none", "prepare", "fetch", "save"}, since: Nat, stale: Token]
NoFlight == [step |-> "none", since |-> 0, stale |-> NoToken]

Scopes  == {"all", "tokens", "client"}
Purge   == [step: {"none", "index", "pointer", "delete"}, scope: Scopes, targets: SUBSET Issuers]
NoPurge == [step |-> "none", scope |-> "all", targets |-> {}]

Reader   == [step: {"none", "issuer", "read", "joined"}, issuer: Issuers \cup {None}]
NoReader == [step |-> "none", issuer |-> None]

Init ==
  /\ store = [ pointer |-> None, index |-> {}, tokens |-> [i \in Issuers |-> NoToken],
               client |-> [i \in Issuers |-> FALSE] ]
  /\ epoch = 0
  /\ flight = [i \in Issuers |-> NoFlight]
  /\ saving = [p \in Savers |-> NoSave]
  /\ purge = [r \in Rounds |-> NoPurge]
  /\ reader = [q \in Readers |-> NoReader]
  /\ minted = 0

----------------------------------------------------------------------------
(* An operator with a suffix is a variant of the one it precedes, with one *)
(* mistake the code could have made: a property below refutes it.          *)

(* #rememberIssuer: the index and the pointer are read ...                 *)
SeeIndex(p) ==
  /\ saving[p].step = "index"
  /\ saving' = [saving EXCEPT ![p].step = "pointer", ![p].seen = store.index]
  /\ UNCHANGED <<store, epoch, flight, purge, reader, minted>>

Unlisted_Never(p, known) == FALSE

Unlisted(p, known) == saving[p].issuer \notin known

SeePointer(p) ==
  LET known == (saving[p].seen \cup {store.pointer}) \ {None}
  IN  /\ saving[p].step = "pointer"
      /\ saving' = [saving EXCEPT ![p].seen = known,
                      ![p].step = IF Unlisted(p, known) THEN "list" ELSE "point"]
      /\ UNCHANGED <<store, epoch, flight, purge, reader, minted>>

(* ... a new issuer joins the index, the pointer moves ...                 *)
List(p) ==
  /\ saving[p].step = "list"
  /\ store' = [store EXCEPT !.index = saving[p].seen \cup {saving[p].issuer}]
  /\ saving' = [saving EXCEPT ![p].step = "point"]
  /\ UNCHANGED <<epoch, flight, purge, reader, minted>>

Point(p) ==
  /\ saving[p].step = "point"
  /\ store' = [store EXCEPT !.pointer = saving[p].issuer]
  /\ saving' = [saving EXCEPT ![p].step = "put"]
  /\ UNCHANGED <<epoch, flight, purge, reader, minted>>

(* The flight of issuer i is over: whoever has joined it has what it       *)
(* resolves to, the stale set at worst.                                    *)
Landed_Alone(i) ==
  /\ flight' = [flight EXCEPT ![i] = NoFlight]
  /\ UNCHANGED reader

Landed(i) ==
  /\ flight' = [flight EXCEPT ![i] = NoFlight]
  /\ reader' = [q \in Readers |-> IF reader[q] = [step |-> "joined", issuer |-> i] THEN NoReader
                                  ELSE reader[q]]

(* ... and the tokens or the registered client are stored under the issuer.*)
Stored(p) ==
  LET s == saving[p]
  IN  IF s.what = "tokens" THEN [store EXCEPT !.tokens[s.issuer] = s.token]
      ELSE [store EXCEPT !.client[s.issuer] = TRUE]

Put(p) ==
  /\ saving[p].step = "put"
  /\ store' = Stored(p)
  /\ saving' = [saving EXCEPT ![p] = NoSave]
  /\ IF p \in Issuers THEN Landed(p) ELSE UNCHANGED <<flight, reader>>
  /\ UNCHANGED <<epoch, purge, minted>>

Saves(p) == SeeIndex(p) \/ SeePointer(p) \/ List(p) \/ Point(p) \/ Put(p)

----------------------------------------------------------------------------
(* A round of auth() for issuer i: it registers a client, or exchanges a   *)
(* code or a refresh token for a new set ...                               *)
Free(r) == saving[r].step = "none" /\ purge[r].step = "none"

Register(r, i) ==
  /\ Free(r) /\ ~store.client[i]
  /\ saving' = [saving EXCEPT ![r] = [NoSave EXCEPT !.step = "index", !.issuer = i, !.what = "client"]]
  /\ UNCHANGED <<store, epoch, flight, purge, reader, minted>>

SaveTokens(r, i) ==
  /\ Free(r) /\ store.client[i] /\ minted < MaxTokens
  /\ minted' = minted + 1
  /\ saving' = [saving EXCEPT ![r] =
       [NoSave EXCEPT !.step = "index", !.issuer = i,
                      !.token = [NoToken EXCEPT !.id = minted + 1, !.since = epoch]]]
  /\ UNCHANGED <<store, epoch, flight, purge, reader>>

(* ... or a server has declared credentials invalid.  Every issuer ever    *)
(* written is looked up before the epoch moves.                            *)
Invalidate(r, scope) ==
  /\ Free(r)
  /\ purge' = [purge EXCEPT ![r] = [NoPurge EXCEPT !.step = "index", !.scope = scope]]
  /\ UNCHANGED <<store, epoch, flight, saving, reader, minted>>

PurgeIndex(r) ==
  /\ purge[r].step = "index"
  /\ purge' = [purge EXCEPT ![r].step = "pointer", ![r].targets = store.index]
  /\ UNCHANGED <<store, epoch, flight, saving, reader, minted>>

Late == [p \in Savers |-> IF saving[p].step = "none" THEN saving[p]
                          ELSE [saving[p] EXCEPT !.token.late = TRUE]]

PurgePointer(r) ==
  /\ purge[r].step = "pointer"
  /\ purge' = [purge EXCEPT ![r].step = "delete", ![r].targets = (@ \cup {store.pointer}) \ {None}]
  /\ IF purge[r].scope = "client" THEN UNCHANGED <<epoch, saving>>
     ELSE epoch' = epoch + 1 /\ saving' = Late
  /\ UNCHANGED <<store, flight, reader, minted>>

Delete(r, i) ==
  /\ purge[r].step = "delete" /\ i \in purge[r].targets
  /\ store' = [store EXCEPT
       !.tokens[i] = IF purge[r].scope = "client" THEN @ ELSE NoToken,
       !.client[i] = @ /\ purge[r].scope = "tokens"]
  /\ purge' = [purge EXCEPT ![r].targets = @ \ {i}]
  /\ UNCHANGED <<epoch, flight, saving, reader, minted>>

Purged(r) ==
  /\ purge[r].step = "delete" /\ purge[r].targets = {}
  /\ purge' = [purge EXCEPT ![r] = NoPurge]
  /\ UNCHANGED <<store, epoch, flight, saving, reader, minted>>

Purges(r) == PurgeIndex(r) \/ PurgePointer(r) \/ Purged(r) \/ \E i \in Issuers : Delete(r, i)

----------------------------------------------------------------------------
(* tokens(): the last issuer, its set, and a refresh of a set that expires *)
(* soon, joined when there is one in flight.                               *)
Read(q) ==
  /\ reader[q].step = "none"
  /\ reader' = [reader EXCEPT ![q].step = "issuer"]
  /\ UNCHANGED <<store, epoch, flight, saving, purge, minted>>

ReadIssuer(q) ==
  /\ reader[q].step = "issuer"
  /\ reader' = [reader EXCEPT ![q] = IF store.pointer = None THEN NoReader
                                     ELSE [step |-> "read", issuer |-> store.pointer]]
  /\ UNCHANGED <<store, epoch, flight, saving, purge, minted>>

ReadTokens(q) ==
  LET i == reader[q].issuer  held == store.tokens[i]
  IN  /\ reader[q].step = "read"
      /\ IF ~held.soon
         THEN reader' = [reader EXCEPT ![q] = NoReader] /\ UNCHANGED flight
         ELSE /\ reader' = [reader EXCEPT ![q].step = "joined"]
              /\ flight' = [flight EXCEPT ![i] =
                   IF @.step # "none" THEN @
                   ELSE [step |-> "prepare", since |-> epoch, stale |-> held]]
      /\ UNCHANGED <<store, epoch, saving, purge, minted>>

(* #refreshTokens: without discovery state or a client, or when anything   *)
(* fails, the stale set is returned.                                       *)
Prepare(i) ==
  /\ flight[i].step = "prepare"
  /\ \/ store.client[i] /\ flight' = [flight EXCEPT ![i].step = "fetch"] /\ UNCHANGED reader
     \/ Landed(i)
  /\ UNCHANGED <<store, epoch, saving, purge, minted>>

FetchFails(i) ==
  /\ flight[i].step = "fetch"
  /\ Landed(i)
  /\ UNCHANGED <<store, epoch, saving, purge, minted>>

MaySave_Always(i) == TRUE

(* "An invalidation that landed while the refresh was in flight wins."     *)
MaySave(i) == flight[i].since = epoch

FetchAnswers(i) ==
  /\ flight[i].step = "fetch" /\ minted < MaxTokens
  /\ minted' = minted + 1
  /\ IF MaySave(i)
     THEN /\ flight' = [flight EXCEPT ![i].step = "save"] /\ UNCHANGED reader
          /\ saving' = [saving EXCEPT ![i] =
               [NoSave EXCEPT !.step = "index", !.issuer = i,
                              !.token = [NoToken EXCEPT !.id = minted + 1, !.since = flight[i].since]]]
     ELSE Landed(i) /\ UNCHANGED saving
  /\ UNCHANGED <<store, epoch, purge>>

Flies(i) == Prepare(i) \/ FetchFails(i) \/ FetchAnswers(i)

(* Time goes by: a stored set is about to expire.                          *)
Expire(i) ==
  /\ store.tokens[i].id # 0 /\ ~store.tokens[i].soon
  /\ store' = [store EXCEPT !.tokens[i].soon = TRUE]
  /\ UNCHANGED <<epoch, flight, saving, purge, reader, minted>>

----------------------------------------------------------------------------
Next ==
  \/ \E r \in Rounds, i \in Issuers : Register(r, i) \/ SaveTokens(r, i)
  \/ \E r \in Rounds : Purges(r) \/ \E scope \in Scopes : epoch < MaxTokens /\ Invalidate(r, scope)
  \/ \E q \in Readers : Read(q) \/ ReadIssuer(q) \/ ReadTokens(q)
  \/ \E i \in Issuers : Flies(i) \/ Expire(i)
  \/ \E p \in Savers : Saves(p)

Spec == Init /\ [][Next]_vars

(* The store answers, and so does a server, or its request times out.      *)
Fairness ==
  /\ \A q \in Readers : WF_vars(ReadIssuer(q) \/ ReadTokens(q))
  /\ \A i \in Issuers : WF_vars(Flies(i))
  /\ \A p \in Savers : WF_vars(Saves(p))

----------------------------------------------------------------------------
TypeOK ==
  /\ store \in [ pointer: Issuers \cup {None}, index: SUBSET Issuers,
                 tokens: [Issuers -> Token], client: [Issuers -> BOOLEAN] ]
  /\ epoch \in Nat /\ flight \in [Issuers -> Flight] /\ saving \in [Savers -> Save]
  /\ purge \in [Rounds -> Purge] /\ reader \in [Readers -> Reader] /\ minted \in 0..MaxTokens

(* What invalidateCredentials relies on: whoever has credentials in the    *)
(* store is in the index it walks.                                         *)
IndexCovers ==
  \A i \in Issuers : store.tokens[i].id # 0 \/ store.client[i] => i \in store.index

(* An invalidation that is over has left nothing behind, and nothing asked *)
(* for before it appears afterwards: "a refresh that started earlier       *)
(* cannot re-persist".  A set that was being saved when it began may.      *)
InvalidatedGone ==
  \A i \in Issuers :
    LET held == store.tokens[i]
    IN  held.id # 0 /\ ~held.late /\ held.since < epoch
        => \E r \in Rounds : purge[r].step = "delete" /\ i \in purge[r].targets

(* A tokens() call returns, whatever becomes of the refresh it has joined. *)
ReadsReturn == \A q \in Readers : reader[q].step # "none" ~> reader[q].step = "none"
===============================================================================
