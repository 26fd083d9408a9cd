------------------------------ MODULE Admission ------------------------------
(* Who may see and call what: McpServerDefinition.admit, which builds the    *)
(* list of one server instance for the principal of the request it is built  *)
(* for, and the authorize() middleware, which asks again on each call.       *)
(* Providers and checks are awaited; what a check of the host's says of a    *)
(* principal may change at any time.                                         *)
EXTENDS ServedCapabilities

CONSTANTS
    Servers, Invocations, Principals,
    Capability,      \* the capabilities there are
    Contributions,   \* what a provider may answer; Absent: it throws
    ServedDefinitions, \* [capabilities, rules, providers (how many), declared, authorize, extras]
    ScopesOf(_),     \* the scopes in the token of a principal
    MaxChanges       \* bound: changes of authority

ASSUME AdmissionAssumption ==
    /\ MaxChanges \in Nat
    /\ \A contribution \in Contributions : contribution = Absent \/ contribution \in Seq(Capability)
    /\ \A d \in ServedDefinitions : d.capabilities \in Seq(Capability) /\ d.providers \in Nat

VARIABLES
    definition,      \* one of ServedDefinitions
    authority,       \* what checks of the host's say of each principal
    changes,
    server,          \* [phase, who, answered, provided, threw, left, admitted]: how many providers
                     \* have answered, and what; the positions, in what it offers, of what is to
                     \* be asked for still and of what is admitted; `threw` is history
    invocation       \* [phase, server, capability, who, at, ever]

admissionVars == <<definition, authority, changes, server, invocation>>

Answers == {"yes", "no", "throws"}
Holder(p) ==
    IF p = Absent THEN Absent
    ELSE [scopes |-> ScopesOf(p), roles |-> Absent, policy |-> authority[p]]

NoServer == [phase |-> "idle", who |-> Absent, answered |-> 0, provided |-> <<>>, threw |-> FALSE,
             left |-> {}, admitted |-> {}]
NoCall == [phase |-> "idle", server |-> Absent, capability |-> Absent, who |-> Absent, at |-> 0,
           ever |-> FALSE]

AdmissionTypeOK ==
    /\ authority \in [Principals -> Answers] /\ changes \in 0..MaxChanges
    /\ \A i \in Servers :
        /\ server[i].phase \in {"idle", "resolving", "admitting", "live", "failed"}
        /\ server[i].who \in Principals \cup {Absent}
    /\ \A c \in Invocations :
        /\ invocation[c].phase \in {"idle", "own", "extra", "delivered", "step-up", "forbidden"}
        /\ invocation[c].phase # "idle" => server[invocation[c].server].phase = "live"

AdmissionInit ==
    /\ definition \in ServedDefinitions
    /\ authority \in [Principals -> {"yes", "no"}] /\ changes = 0
    /\ server = [i \in Servers |-> NoServer] /\ invocation = [c \in Invocations |-> NoCall]

-----------------------------------------------------------------------------
(* Building a server: #resolve, then one check after another.               *)
(* What a server lists, before visibility and checks: `merged`.             *)
Listing(provided) == definition.capabilities \o provided

Resolved(i, provided) ==
    [server[i] EXCEPT !.phase = "admitting", !.provided = provided,
                      !.left = {k \in DOMAIN Listing(provided) :
                                    Visible(Listing(provided)[k], definition.rules)}]

Build(i, who) ==
    /\ server[i].phase = "idle"
    /\ server' = [server EXCEPT ![i] =
                    IF definition.providers = 0 THEN [Resolved(i, <<>>) EXCEPT !.who = who]
                    ELSE [@ EXCEPT !.phase = "resolving", !.who = who]]
    /\ UNCHANGED <<definition, authority, changes, invocation>>

(* An operator with a suffix is a variant, as in Composition.                *)
Refused_OnlyKinds(contribution) ==
    /\ contribution # Absent
    /\ \E j \in DOMAIN contribution : contribution[j].kind \notin definition.declared

(* A provider that throws, or answers what was not declared, fails the whole. *)
Refused(contribution) ==
    \/ contribution = Absent
    \/ \E j \in DOMAIN contribution : contribution[j].kind \notin definition.declared

Provide(i, contribution) ==
    /\ server[i].phase = "resolving"
    /\ LET provided == IF contribution = Absent THEN server[i].provided
                       ELSE server[i].provided \o contribution
           answered == server[i].answered + 1
           threw == server[i].threw \/ contribution = Absent
       IN server' = [server EXCEPT ![i] =
            CASE Refused(contribution) -> [@ EXCEPT !.phase = "failed"]
              [] ~Refused(contribution) /\ answered < definition.providers ->
                   [@ EXCEPT !.provided = provided, !.answered = answered, !.threw = threw]
              [] OTHER ->
                   IF ~Unique(Listing(provided)) THEN [@ EXCEPT !.phase = "failed"]
                   ELSE [Resolved(i, provided) EXCEPT !.answered = answered, !.threw = threw]]
    /\ UNCHANGED <<definition, authority, changes, invocation>>

(* admit(): a denial is told to onCapabilityDenied, and what that throws is   *)
(* not caught.                                                               *)
Admit(i, k, observerThrows) ==
    /\ server[i].phase = "admitting" /\ k \in server[i].left /\ \A j \in server[i].left : k <= j
    /\ LET auth == Listing(server[i].provided)[k].auth
           allowed == auth = Absent \/ EvaluateAuth(auth, Holder(server[i].who))
           admitted == IF allowed THEN server[i].admitted \cup {k} ELSE server[i].admitted
       IN /\ observerThrows => ~allowed
          /\ server' = [server EXCEPT ![i] =
                          IF observerThrows THEN [@ EXCEPT !.phase = "failed"]
                          ELSE [@ EXCEPT !.left = server[i].left \ {k}, !.admitted = admitted]]
    /\ UNCHANGED <<definition, authority, changes, invocation>>

Install(i) ==
    /\ server[i].phase = "admitting" /\ server[i].left = {}
    /\ server' = [server EXCEPT ![i].phase = "live"]
    /\ UNCHANGED <<definition, authority, changes, invocation>>

-----------------------------------------------------------------------------
(* A call, by the principal of its own request.  What is not installed is   *)
(* not found.                                                               *)
(* `context.request.authInfo ?? context.server.http?.authInfo`: the request *)
(* the instance was built for comes first.                                  *)
Principal(i, who) == IF server[i].who # Absent THEN server[i].who ELSE who
Caller(c) == Holder(Principal(c.server, c.who))

(* Where a call goes: through authorize(), or straight to the handler.      *)
Enters_Unguarded(capability) == IF definition.extras # <<>> THEN "extra" ELSE "delivered"
Enters(capability) ==
    CASE definition.authorize /\ capability.auth # Absent -> "own"
      [] definition.authorize /\ capability.auth = Absent /\ definition.extras # <<>> -> "extra"
      [] OTHER -> "delivered"

(* The auth of the capability, as of now, for the principal of a call.      *)
PassesNow(c, answers) ==
    LET who == Principal(c.server, c.who) IN
    \/ c.capability.auth = Absent
    \/ EvaluateAuth(c.capability.auth,
         IF who = Absent THEN Absent ELSE [Holder(who) EXCEPT !.policy = answers[who]])

Invoked(c, i, k, who) ==
    /\ invocation[c].phase = "idle" /\ server[i].phase = "live" /\ k \in server[i].admitted
    /\ LET capability == Listing(server[i].provided)[k]
           new == [phase |-> Enters(capability), server |-> i, capability |-> capability,
                   who |-> who, at |-> 1, ever |-> FALSE]
       IN invocation' = [invocation EXCEPT ![c] = [new EXCEPT !.ever = PassesNow(new, authority)]]
    /\ UNCHANGED <<definition, authority, changes, server>>

(* What a check makes of a call: it goes on, or fails for its scopes, or is *)
(* forbidden (which is what a check that throws amounts to).                *)
Outcome(verdict, next) ==
    CASE verdict.allowed -> next
      [] ~verdict.allowed /\ verdict.missing # {} -> "step-up"
      [] OTHER -> "forbidden"

EnforceOwn(c) ==
    /\ invocation[c].phase = "own"
    /\ LET auth == invocation[c].capability.auth
           verdict == Enforce(auth.check, auth.anonymous, Caller(invocation[c]))
       IN invocation' = [invocation EXCEPT ![c].phase =
            Outcome(verdict, IF definition.extras = <<>> THEN "delivered" ELSE "extra")]
    /\ UNCHANGED <<definition, authority, changes, server>>

EnforceExtra(c) ==
    /\ invocation[c].phase = "extra"
    /\ LET last == invocation[c].at = Len(definition.extras)
           verdict == Enforce(definition.extras[invocation[c].at], "deny", Caller(invocation[c]))
       IN invocation' = [invocation EXCEPT
            ![c].phase = Outcome(verdict, IF last THEN "delivered" ELSE "extra"),
            ![c].at = IF last THEN @ ELSE @ + 1]
    /\ UNCHANGED <<definition, authority, changes, server>>

(* The host changes its mind about a principal.                             *)
Change(p, answer) ==
    /\ changes < MaxChanges /\ authority[p] # answer
    /\ authority' = [authority EXCEPT ![p] = answer] /\ changes' = changes + 1
    /\ invocation' = [c \in Invocations |->
         IF invocation[c].phase \in {"own", "extra"}
         THEN [invocation[c] EXCEPT !.ever = @ \/ PassesNow(invocation[c], authority')]
         ELSE invocation[c]]
    /\ UNCHANGED <<definition, server>>

AdmissionNext ==
    \/ \E i \in Servers :
        \/ \E who \in Principals \cup {Absent} : Build(i, who)
        \/ \E contribution \in Contributions : Provide(i, contribution)
        \/ \E k \in server[i].left, throws \in BOOLEAN : Admit(i, k, throws)
        \/ Install(i)
        \/ \E c \in Invocations, who \in Principals \cup {Absent}, k \in server[i].admitted :
            Invoked(c, i, k, who)
    \/ \E c \in Invocations : EnforceOwn(c) \/ EnforceExtra(c)
    \/ \E p \in Principals, answer \in Answers : Change(p, answer)

AdmissionSpec == AdmissionInit /\ [][AdmissionNext]_admissionVars

-----------------------------------------------------------------------------
(* authorize(): a call that is delivered passed the auth of its capability  *)
(* at some time since it was made, for the principal the middleware goes    *)
(* by: a withdrawn authority is not outlived by the list it once shaped.    *)
CallsReEnforced ==
    \A c \in Invocations :
        invocation[c].phase = "delivered" /\ definition.authorize => invocation[c].ever

(* admit(): an anonymous request is delivered to nothing that denies it, on *)
(* whatever instance; under authorize() with checks, to nothing at all.     *)
AnonymousIsDenied ==
    \A c \in Invocations :
        LET who == Principal(invocation[c].server, invocation[c].who) IN
        invocation[c].phase = "delivered" /\ server[invocation[c].server].who = Absent =>
            /\ invocation[c].capability.auth # Absent =>
                  invocation[c].capability.auth.anonymous = "allow"
            /\ definition.authorize /\ definition.extras # <<>> => who # Absent

(* "a silently shrunken catalog is indistinguishable from an authorization  *)
(* decision" (server-definition.ts:46): a live instance has the answer of   *)
(* every provider, and lists whatever is visible and asks for no auth.      *)
FailsClosed ==
    \A i \in Servers : server[i].phase = "live" =>
        LET offers == Listing(server[i].provided) IN
        /\ server[i].answered = definition.providers /\ ~server[i].threw
        /\ \A k \in DOMAIN offers :
              Visible(offers[k], definition.rules) /\ offers[k].auth = Absent
                => k \in server[i].admitted
        /\ \A k \in server[i].admitted : Visible(offers[k], definition.rules)
        /\ \A j \in DOMAIN server[i].provided : server[i].provided[j].kind \in definition.declared

(* Admission, typed: under authorize() a call passes the auth of its        *)
(* capability as it is then, an anonymous one what lets it, and a server is *)
(* built of what every provider answered.                                   *)
AdmissionHolds == AdmissionTypeOK /\ CallsReEnforced /\ AnonymousIsDenied /\ FailsClosed

(* "long-lived instances whose principal can outlive a token"               *)
(* (authorization.ts:128): a delivered call is one its own principal could  *)
(* make, as long as no authority has changed.                               *)
OwnPrincipalAsked ==
    \A c \in Invocations :
        /\ invocation[c].phase = "delivered" /\ definition.authorize /\ changes = 0
        /\ invocation[c].capability.auth # Absent /\ invocation[c].who # Absent
        => EvaluateAuth(invocation[c].capability.auth, Holder(invocation[c].who))
=============================================================================
