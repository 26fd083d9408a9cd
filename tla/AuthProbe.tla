----------------------------- MODULE AuthProbe -----------------------------
(***************************************************************************)
(* probeServerAuth and suggestAuth (src/client/oauth-flows.ts): what an    *)
(* endpoint that is not connected yet wants of a client.  A POST, repeated *)
(* along redirects within its origin, settles it, or leads to a GET or to  *)
(* the discovery of an authorization server.  One deadline is raced        *)
(* against every request, since a `fetch` may ignore its signal.           *)
(*                                                                         *)
(* An answer is what the code reads of a response: its class of status,    *)
(* whether it is a page, where it points, and the challenges it carries.   *)
(* A URL is in the origin of the endpoint ("home"), elsewhere on the web by *)
(* https ("public"), or one that metadataUrlAllowed refuses ("private").   *)
(* Versions, scopes and session headers are only reported and are left out;*)
(* a document that the SDK looks for at several URLs of one origin is one  *)
(* request.                                                                *)
(***************************************************************************)
EXTENDS Naturals, Sequences, SequencesExt

CONSTANT Undefined

VARIABLES
  at,        \* what the probe waits for
  hop,       \* redirects seen
  answer,    \* the last answer to a POST
  resource,  \* the protected-resource metadata, or Undefined
  metadata,  \* the metadata of the authorization server, or Undefined
  late,      \* the deadline has passed
  ask,       \* options and target: [get, sse]: probeGet, a path that ends in /sse
  verdict,   \* what it came to, or Undefined
  sent       \* ghost: the requests, each for what and where

vars == <<at, hop, answer, resource, metadata, late, ask, verdict, sent>>

(* PROBE_MAX_REDIRECTS                                                     *)
MaxRedirects == 3

Redirect == 300
Statuses == {200, Redirect, 304, 401, 404, 405, 500}
Schemes == {"Bearer", "Basic"}
Urls == {"home", "public", "private"}
Sent == [what: {"post", "get", "resource", "server"}, url: Urls]

(* `metadata` is the resource_metadata of a Bearer challenge.              *)
Answer == [ opaque: BOOLEAN, status: Statuses, html: BOOLEAN,
            location: Urls \cup {Undefined},
            challenges: {<<>>} \cup {<<s>> : s \in Schemes} \cup {<<"Basic", "Bearer">>},
            metadata: Urls \cup {Undefined} ]

(* What the answers differ in when they matter.                            *)
Answers ==
  {a \in Answer :
     /\ a.opaque => a.status = 200 /\ ~a.html
     /\ a.html => a.challenges = <<>> /\ a.status # Redirect
     /\ a.location # Undefined => a.status = Redirect
     /\ a.challenges # <<>> => a.status = 401
     /\ a.metadata # Undefined => "Bearer" \in ToSet(a.challenges)}
NoAnswer == [opaque |-> FALSE, status |-> 200, html |-> FALSE, location |-> Undefined,
             challenges |-> <<>>, metadata |-> Undefined]

Grants == {"authorization_code", "client_credentials", "implicit", "other"}
Resources == [covers: BOOLEAN, server: Urls \cup {Undefined}]
Servers == [ grants: {{}, {"authorization_code"}, {"client_credentials"},
                      {"other"}, {"client_credentials", "authorization_code"}},
             secure: BOOLEAN, cimd: BOOLEAN, registers: BOOLEAN ]

Init ==
  /\ at = "post" /\ hop = 0 /\ answer = NoAnswer
  /\ resource = Undefined /\ metadata = Undefined /\ late = FALSE
  /\ ask \in [get: BOOLEAN, sse: BOOLEAN]
  /\ verdict = Undefined /\ sent = <<[what |-> "post", url |-> "home"]>>

----------------------------------------------------------------------------
(* An operator with a suffix is a variant of the one it precedes, with one *)
(* mistake the code could have made: a property below refutes it.          *)

Verdict(v) == verdict' = v /\ at' = "done"
Sends(w, u) == sent' = Append(sent, [what |-> w, url |-> u])
Kind(k) == [kind |-> k, reason |-> "", grants |-> {}, registration |-> "unknown", issues |-> {}]

(* A request that fails, or that the deadline overtakes.                   *)
PostFails ==
  /\ at = "post" /\ Verdict(Kind("unreachable"))
  /\ UNCHANGED <<hop, answer, resource, metadata, late, ask, sent>>

PostAnswered ==
  /\ at = "post" /\ ~late
  /\ \E a \in Answers : answer' = a
  /\ at' = "drain"
  /\ UNCHANGED <<hop, resource, metadata, late, ask, verdict, sent>>

(* The redirect of an answer that is one.                                  *)
Followable_Anywhere(a) == a.location \in Urls

Followable(a) == a.location = "home"

Redirected ==
  /\ at = "drain" /\ ~answer.opaque /\ answer.status = Redirect
  /\ CASE answer.location = Undefined -> Verdict(Kind("error")) /\ UNCHANGED <<hop, sent>>
       [] answer.location # Undefined /\ ~Followable(answer) ->
            Verdict([Kind("redirect") EXCEPT !.reason = "cross-origin"]) /\ UNCHANGED <<hop, sent>>
       [] Followable(answer) /\ hop + 1 >= MaxRedirects ->
            Verdict([Kind("redirect") EXCEPT !.reason = "too-many-redirects"]) /\ UNCHANGED <<hop, sent>>
       [] Followable(answer) /\ hop + 1 < MaxRedirects ->
            /\ hop' = hop + 1 /\ at' = "post" /\ Sends("post", answer.location)
            /\ UNCHANGED verdict
  /\ UNCHANGED <<answer, resource, metadata, late, ask>>

Opaque ==
  /\ at = "drain" /\ answer.opaque
  /\ Verdict([Kind("redirect") EXCEPT !.reason = "opaque"])
  /\ UNCHANGED <<hop, answer, resource, metadata, late, ask, sent>>

(* The discovery a 401 calls for: with a Bearer challenge wherever it      *)
(* stands, or with none at all unless the answer is a page.                *)
Challenged == "Bearer" \in ToSet(answer.challenges)
Settled == at = "drain" /\ ~answer.opaque /\ answer.status # Redirect
Discovers ==
  Settled /\ answer.status = 401 /\ (Challenged \/ (answer.challenges = <<>> /\ ~answer.html))

Named_Always(url) == TRUE

(* metadataUrlAllowed                                                      *)
Named(url) == url # "private"

Discover ==
  /\ Discovers
  /\ at' = "resource"
  /\ Sends("resource", IF answer.metadata # Undefined /\ Named(answer.metadata)
                       THEN answer.metadata ELSE "home")
  /\ UNCHANGED <<hop, answer, resource, metadata, late, ask, verdict>>

OtherScheme ==
  /\ Settled /\ answer.status = 401 /\ answer.challenges # <<>> /\ ~Challenged
  /\ Verdict(Kind("bearer"))
  /\ UNCHANGED <<hop, answer, resource, metadata, late, ask, sent>>

(* A page, or a status that says that nothing speaks MCP here.             *)
NotMcp == Settled /\ ((answer.html /\ answer.challenges = <<>>) \/ answer.status \in {404, 405})

Sse(streams, status) ==
  IF streams \/ (ask.sse /\ answer.status = 405) THEN "sse"
  ELSE IF ask.sse /\ status # Undefined /\ status >= 400 THEN "streamable-http" ELSE ""
NotMcpAt ==
  /\ NotMcp
  /\ IF ask.get THEN at' = "get" /\ Sends("get", "home") /\ UNCHANGED verdict
     ELSE Verdict([Kind("not-mcp") EXCEPT !.reason = Sse(FALSE, Undefined)]) /\ UNCHANGED sent
  /\ UNCHANGED <<hop, answer, resource, metadata, late, ask>>

GetEnds ==
  /\ at = "get"
  /\ \E status \in {Undefined, 200, 404}, stream \in BOOLEAN :
       /\ late => status = Undefined
       /\ Verdict([Kind("not-mcp") EXCEPT !.reason = Sse(stream /\ status = 200, status)])
  /\ UNCHANGED <<hop, answer, resource, metadata, late, ask, sent>>

Plain ==
  /\ Settled /\ ~Discovers /\ ~NotMcp /\ answer.challenges = <<>>
  /\ Verdict(Kind(IF answer.status = 200 THEN "open" ELSE "error"))
  /\ UNCHANGED <<hop, answer, resource, metadata, late, ask, sent>>

(* Discovery: what cannot be read, redirects, or comes too late, is not    *)
(* there.  The first authorization server the resource names is asked next,*)
(* wherever it is.                                                         *)
Primary(r) == IF r = Undefined \/ r.server = Undefined THEN "home" ELSE r.server

ResourceRead ==
  /\ at = "resource" /\ at' = "server"
  /\ \E r \in {Undefined} \cup {q \in Resources : ~late} :
       resource' = r /\ Sends("server", Primary(r))
  /\ UNCHANGED <<hop, answer, metadata, late, ask, verdict>>

ServerRead ==
  /\ at = "server" /\ at' = "read"
  /\ metadata' \in {Undefined} \cup {m \in Servers : ~late}
  /\ UNCHANGED <<hop, answer, resource, late, ask, verdict, sent>>

Issues ==
  {i \in {"resource", "endpoint"} :
     \/ i = "resource" /\ resource # Undefined /\ ~resource.covers
     \/ i = "endpoint" /\ metadata # Undefined /\ ~metadata.secure}
Offered ==
  IF metadata = Undefined THEN {}
  ELSE IF metadata.grants = {} THEN {"authorization_code", "implicit"} ELSE metadata.grants
Registration ==
  CASE metadata = Undefined -> "unknown"
    [] metadata # Undefined /\ metadata.cimd -> "cimd"
    [] metadata # Undefined /\ ~metadata.cimd /\ metadata.registers -> "dynamic"
    [] OTHER -> "preregistered-only"

Conclude ==
  /\ at = "read"
  /\ Verdict(IF answer.challenges = <<>> /\ metadata = Undefined THEN Kind("unauthorized")
             ELSE [kind |-> "oauth", reason |-> "", grants |-> Offered,
                   registration |-> Registration, issues |-> Issues])
  /\ UNCHANGED <<hop, answer, resource, metadata, late, ask, sent>>

Deadline ==
  /\ ~late /\ at # "done" /\ late' = TRUE
  /\ UNCHANGED <<at, hop, answer, resource, metadata, ask, verdict, sent>>

Next ==
  \/ PostFails \/ PostAnswered \/ Redirected \/ Opaque \/ Discover \/ OtherScheme
  \/ NotMcpAt \/ GetEnds \/ Plain \/ ResourceRead \/ ServerRead \/ Conclude \/ Deadline

Spec == Init /\ [][Next]_vars

(* What races with the deadline is rejected once it has passed; releasing  *)
(* a body ends.  No answer is taken for granted.                           *)
Raced_PostOnly == late /\ PostFails

Raced == late /\ (PostFails \/ GetEnds \/ ResourceRead \/ ServerRead)

Proceeds == Redirected \/ Opaque \/ Discover \/ OtherScheme \/ NotMcpAt \/ Plain \/ Conclude

Fairness == WF_vars(Deadline) /\ WF_vars(Raced) /\ WF_vars(Proceeds)

----------------------------------------------------------------------------
(* suggestAuth                                                             *)
Suggested_WithIssues(v) ==
  IF v.kind # "oauth" THEN "none"
  ELSE IF v.grants = {} \/ "authorization_code" \in v.grants THEN "authorization_code"
  ELSE IF "client_credentials" \in v.grants THEN "client_credentials" ELSE "none"

Suggested(v) ==
  IF v.kind # "oauth" \/ v.issues # {} THEN "none"
  ELSE IF v.grants = {} \/ "authorization_code" \in v.grants THEN "authorization_code"
  ELSE IF "client_credentials" \in v.grants THEN "client_credentials" ELSE "none"

Verdicts == [ kind: {"unreachable", "redirect", "error", "oauth", "bearer", "unauthorized",
                     "open", "not-mcp"},
              reason: {"", "cross-origin", "too-many-redirects", "opaque", "sse", "streamable-http"},
              grants: SUBSET Grants, issues: SUBSET {"resource", "endpoint"},
              registration: {"unknown", "cimd", "dynamic", "preregistered-only"} ]
TypeOK ==
  /\ at \in {"post", "drain", "get", "resource", "server", "read", "done"}
  /\ hop \in 0..MaxRedirects /\ answer \in Answer
  /\ resource \in Resources \cup {Undefined} /\ metadata \in Servers \cup {Undefined}
  /\ late \in BOOLEAN /\ ask \in [get: BOOLEAN, sse: BOOLEAN]
  /\ verdict \in Verdicts \cup {Undefined} /\ (at = "done") = (verdict # Undefined)
  /\ sent \in Seq(Sent)

(* A sign-in is suggested only for an endpoint whose last answer asks for  *)
(* credentials, by a Bearer challenge or with an authorization server that *)
(* says so, and never when a connection would refuse that server; and only *)
(* a server that could not be read is credited with a grant unseen.        *)
SuggestionSound ==
  (verdict # Undefined /\ Suggested(verdict) # "none") =>
    /\ answer.status = 401 /\ ~answer.opaque
    /\ Challenged \/ metadata # Undefined
    /\ resource # Undefined => resource.covers
    /\ metadata # Undefined =>
         metadata.secure /\ (metadata.grants = {} \/ Suggested(verdict) \in metadata.grants)
    /\ metadata = Undefined => Suggested(verdict) = "authorization_code"

(* "Redirects are not followed across origins, and never during discovery" *)
(* (oauth-flows.ts:1163-1164): a POST or GET stays in the origin; the       *)
(* metadata of the resource is asked for there, or where the challenge of   *)
(* the last answer says if metadataUrlAllowed lets it, and that of the      *)
(* authorization server there, or where the resource names one; and a chain *)
(* does not go on for ever.                                                 *)
Asked(r) ==
  \/ r.url = "home"
  \/ r.what = "resource" /\ r.url = answer.metadata /\ r.url # "private"
  \/ r.what = "server" /\ resource # Undefined /\ r.url = resource.server
GoesWhereAsked ==
  /\ \A n \in DOMAIN sent : Asked(sent[n])
  /\ Len(sent) <= MaxRedirects + 2

(* The probe ends, whatever the endpoint answers and even if it never does.*)
ProbeSettles == <>(at = "done")
===============================================================================
