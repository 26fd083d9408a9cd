------------------------- MODULE ConnectionDefinition -------------------------
(***************************************************************************)
(* McpConnectionDefinition (src/client/connection.ts) and the helpers that *)
(* build one: which options are refused, what a definition makes of the    *)
(* others, and the shape fingerprint by which `replace` and `reconcile`    *)
(* tell one definition from another.                                       *)
(*                                                                         *)
(* Identity, policies and defaults go into the digest as they are          *)
(* normalized: one `policy` stands for them.  Tokens and header values are *)
(* secrets, handlers are closures: both are left out, as in the digest.    *)
(* `client` is what clientOptions says of the same matters.                *)
(***************************************************************************)
EXTENDS Naturals, FiniteSets

CONSTANT Undefined

Kinds == {"streamable-http", "sse", "in-process", "custom"}
Auths == {"none", "bearer", "provider", "authorization_code", "client_credentials", "jwt_bearer"}
Handlers == {"elicitation/create", "sampling/createMessage", "roots/list"}
HeaderNames == {"Authorization", "authorization", "X", "x"}
Modes == {"auto", "legacy", "modern"}

(* `policy` 0 has a number out of its range; `target` is a URL, or a       *)
(* server in this process; `init` holds the headers of                     *)
(* transportOptions.requestInit; `digest` is a transportFingerprint of the *)
(* caller's, for a bare defineConnection.                                  *)
Options ==
  [ kind: Kinds, policy: 0..2, target: {"t1", "t2"}, digest: {"d1", Undefined},
    auth: Auths, headers: SUBSET HeaderNames, init: SUBSET HeaderNames,
    store: BOOLEAN, partition: {"p1", Undefined},
    version: {"legacy", "modern", "unknown", Undefined}, era: {"legacy", "modern"},
    handlers: SUBSET Handlers, roots: {"static", "dynamic", Undefined},
    rounds: {0, 1, Undefined}, tasks: BOOLEAN, url: BOOLEAN,
    resume: {"legacy", "modern", "eraless", "unknown", Undefined},
    client: [ mode: Modes \cup {Undefined}, store: BOOLEAN, strict: BOOLEAN \cup {Undefined},
              roots: BOOLEAN \cup {Undefined} ] ]

(* What a definition amounts to.                                           *)
Http(o) == o.kind \in {"streamable-http", "sse"}

(* headerEntries and mergeHeaders: names are compared in lower case.       *)
Lower(name) == IF name = "Authorization" THEN "authorization" ELSE IF name = "X" THEN "x" ELSE name

(* An operator with a suffix is a variant of the one it precedes, with one *)
(* mistake the code could have made: a property below refutes it.          *)
Supplied_HeadersOnly(o) == {Lower(n) : n \in o.headers}

Supplied(o) == {Lower(n) : n \in o.headers \cup o.init}

----------------------------------------------------------------------------
(* What is refused.                                                        *)
Overridden(o) == Http(o) /\ o.auth # "none" /\ "authorization" \in Supplied(o)

Unpartitioned_OptionsOnly(o) ==
  Http(o) /\ o.auth # "none" /\ o.partition = Undefined /\ o.store

(* assertCachePartitioned                                                  *)
Unpartitioned(o) ==
  Http(o) /\ o.auth # "none" /\ o.partition = Undefined /\ (o.store \/ o.client.store)

HandlersRefused(o) ==
  \/ o.roots # Undefined /\ "roots/list" \in o.handlers
  \/ (o.handlers # {} \/ o.roots # Undefined) /\ o.rounds = Undefined
  \/ o.rounds = 0

(* normalizeAutoRefresh, normalizeReconnect, normalizeKeepalive            *)
PolicyRefused(o) == o.policy = 0

ResumeRefused(o) == o.kind # "sse" /\ o.resume = "unknown"

VersionRefused(o) ==
  CASE o.kind = "sse" -> o.client.mode # Undefined
    [] o.kind = "in-process" ->
         o.version # Undefined \/ o.client.mode \notin {Undefined, o.era} \cup
                                     (IF o.era = "modern" THEN {"auto"} ELSE {})
    [] OTHER -> o.version = "unknown" \/ (o.version # Undefined /\ o.client.mode # Undefined)

Refused(o) ==
  Overridden(o) \/ Unpartitioned(o) \/ HandlersRefused(o) \/ PolicyRefused(o)
  \/ ResumeRefused(o) \/ VersionRefused(o)

----------------------------------------------------------------------------
(* What the others become.                                                 *)
Negotiation(o) ==
  CASE o.kind = "sse" -> "legacy"
    [] o.kind = "in-process" -> IF o.client.mode = Undefined THEN o.era ELSE o.client.mode
    [] OTHER -> IF o.version # Undefined THEN o.version
                ELSE IF o.client.mode # Undefined THEN o.client.mode ELSE "auto"

Extensions(o) ==
  IF Http(o) THEN {"oauth-client-credentials" : x \in {o.auth} \cap {"client_credentials"}}
                  \cup {"enterprise-managed-authorization" : x \in {o.auth} \cap {"jwt_bearer"}}
  ELSE {}

(* derivedCapabilities                                                     *)
Capabilities(o) ==
  UNION { IF "elicitation/create" \in o.handlers
            THEN {"elicitation"} \cup (IF o.url THEN {"elicitation.url"} ELSE {}) ELSE {},
          IF "sampling/createMessage" \in o.handlers THEN {"sampling"} ELSE {},
          IF "roots/list" \in o.handlers \/ o.roots # Undefined
            THEN {"roots"} \cup (IF o.client.roots = TRUE \/ (o.client.roots = Undefined /\ o.roots = "dynamic")
                                 THEN {"roots.listChanged"} ELSE {}) ELSE {},
          IF o.tasks THEN {"tasks"} ELSE {} }

(* installHandlers: what the client answers.                               *)
Served(o) == o.handlers \cup (IF o.roots # Undefined THEN {"roots/list"} ELSE {})

Resumed(o) == o.kind # "sse" /\ o.resume # Undefined
Strict(o) ==
  IF o.client.strict # Undefined THEN o.client.strict ELSE IF Resumed(o) THEN Undefined ELSE TRUE

Definition(o) ==
  [ kind |-> o.kind, policy |-> o.policy, target |-> o.target,
    negotiation |-> Negotiation(o), rounds |-> o.rounds,
    auth |-> IF Http(o) THEN o.auth ELSE "none",
    interactive |-> Http(o) /\ o.auth = "authorization_code",
    headers |-> IF Http(o) THEN Supplied(o) ELSE {},
    cache |-> IF Http(o) THEN [store |-> o.store \/ o.client.store, partition |-> o.partition]
              ELSE [store |-> o.client.store, partition |-> Undefined],
    extensions |-> Extensions(o), capabilities |-> Capabilities(o), serves |-> Served(o),
    resumed |-> Resumed(o), strict |-> Strict(o) ]

----------------------------------------------------------------------------
(* authShape                                                               *)
AuthShape_Present(o) == o.auth # "none"

AuthShape(o) == o.auth

(* stableFingerprint of what a helper knows of its transport.              *)
Transport(o) ==
  CASE o.kind = "custom" -> IF o.digest = Undefined THEN Undefined ELSE [digest |-> o.digest]
    [] o.kind = "in-process" -> [era |-> o.era, server |-> o.target]
    [] OTHER -> [ url |-> o.target, headers |-> Supplied(o), auth |-> AuthShape(o),
                  partition |-> o.partition, store |-> o.store ]

(* shapeFingerprint; a transport that says nothing of itself is unique.    *)
Fingerprint(o) ==
  [ transport |-> Transport(o), policy |-> o.policy, kind |-> o.kind,
    version |-> IF o.kind = "sse" THEN Undefined ELSE o.version,
    tasks |-> o.tasks, extensions |-> Extensions(o), url |-> o.url, rounds |-> o.rounds,
    roots |-> o.roots, handlers |-> o.handlers,
    interactive |-> Http(o) /\ o.auth = "authorization_code", resumed |-> Resumed(o) ]
Comparable(o) == ~(o.kind = "custom" /\ o.digest = Undefined)

(* sameDefinition, for two objects.                                        *)
Same(o, p) == Comparable(o) /\ Comparable(p) /\ Fingerprint(o) = Fingerprint(p)

----------------------------------------------------------------------------
(* "two definitions with the same fingerprint describe the same connection *)
(* (...) so an equivalent one is left completely untouched": an edit of a  *)
(* configuration that changes what the connection does is not mistaken for *)
(* none, as long as clientOptions is left alone, which the digest omits,   *)
(* and a caller's own transportFingerprint tells its targets apart.        *)
SameShape(o, p) ==
  (/\ ~Refused(o) /\ ~Refused(p) /\ o.client = p.client
   /\ (o.kind = "custom" => o.target = p.target) /\ Same(o, p))
  => Definition(o) = Definition(p)

(* What holds of a definition that was not refused: the auth provider is   *)
(* not overridden by a header, in whatever case and place it was given;    *)
(* principals that share a store have a partition; what a client says it   *)
(* can do is what it answers; a helper that selects an era negotiates it.  *)
WellDefined(o) ==
  ~Refused(o) =>
    LET d == Definition(o)
    IN  /\ d.auth # "none" => {n \in o.headers \cup o.init : Lower(n) = "authorization"} = {}
        /\ (d.auth # "none" /\ d.cache.store) => d.cache.partition # Undefined
        /\ \A c \in {<<"elicitation", "elicitation/create">>, <<"roots", "roots/list">>,
                     <<"sampling", "sampling/createMessage">>} :
             (c[1] \in d.capabilities) = (c[2] \in d.serves)
        /\ d.serves # {} => d.rounds = 1
        /\ d.kind = "sse" => d.negotiation = "legacy"
        /\ (d.kind = "in-process" /\ o.era = "legacy") => d.negotiation = "legacy"
        /\ (d.kind = "in-process" /\ o.era = "modern") => d.negotiation # "legacy"
===============================================================================
