---------------------------- MODULE Credentials ----------------------------
(* What the OAuth client keeps and goes through: the file its store is     *)
(* (CredentialFile), the rounds that end at a loopback endpoint            *)
(* (AuthorizationRound), the token sets by server (OAuthCredentials), the  *)
(* tokens of an enterprise IdP (EnterpriseAuth), and the probe that says   *)
(* what a server wants (AuthProbe).  The parts are independent: a behaviour*)
(* is one of one part, while the others stay as they began.                *)
EXTENDS CredentialFile, FiniteSets

CONSTANTS
    Parts,        \* the parts to explore
    None,         \* no issuer, no token, no answer
    Requests, Completers, MaxRounds, Forged,        \* AuthorizationRound
    Issuers, Readers, Authorizers, MaxMinted,       \* OAuthCredentials
    Assertions, SignIns, MaxIssued                  \* EnterpriseAuth

(* A state that was never issued is none of a round; a store holds nothing *)
(* under None.                                                             *)
ASSUME CredentialsAssumption ==
    /\ {MaxRounds, MaxMinted} \subseteq Nat /\ MaxIssued \in Nat \ {0}
    /\ Forged \notin Nat /\ None \notin Issuers \cup SignIns
    /\ Issuers \cap Authorizers = {}

VARIABLES
    part,
    round, stored, endpoint, request, completing, consumed,  \* AuthorizationRound
    store, epoch, flight, saving, purge, reader, minted,     \* OAuthCredentials
    reloads, current, tokenEndpoint, assertion, idp, kept, expired, sign, \* EnterpriseAuth
    at, hop, answer, resource, metadata, late, ask, verdict, sent          \* AuthProbe

Round == INSTANCE AuthorizationRound
Tokens == INSTANCE OAuthCredentials WITH Rounds <- Authorizers, MaxTokens <- MaxMinted
Enterprise == INSTANCE EnterpriseAuth WITH
    endpoint <- tokenEndpoint, Undefined <- None, MaxTokens <- MaxIssued
Probe == INSTANCE AuthProbe WITH Undefined <- None

(* No answer is not an answer, whatever stands for it.                      *)
ASSUME VerdictAssumption == None \notin Probe!Verdicts

roundVars == <<round, stored, endpoint, request, completing, consumed>>
tokenVars == <<store, epoch, flight, saving, purge, reader, minted>>

idpVars == <<reloads, current, tokenEndpoint, assertion, idp, kept, expired, sign>>
probeVars == <<at, hop, answer, resource, metadata, late, ask, verdict, sent>>

credentialsVars == <<part, vars, roundVars, tokenVars, idpVars, probeVars>>

(* What a part that is not this one is like.                                *)
IdleIdp ==
    /\ ~reloads /\ ~tokenEndpoint /\ current = Enterprise!First /\ idp.renews = "keeps"
IdleProbe == ask = [get |-> FALSE, sse |-> FALSE]

CredentialsInit ==
    /\ part \in Parts /\ Init /\ Round!Init /\ Tokens!Init
    /\ Enterprise!Init /\ (part # "enterprise" => IdleIdp)
    /\ Probe!Init /\ (part # "probe" => IdleProbe)
CredentialsNext ==
    /\ UNCHANGED part
    /\ \/ part = "file" /\ Next /\ UNCHANGED <<roundVars, tokenVars, idpVars, probeVars>>
       \/ part = "round" /\ Round!Next /\ UNCHANGED <<vars, tokenVars, idpVars, probeVars>>
       \/ part = "tokens" /\ Tokens!Next /\ UNCHANGED <<vars, roundVars, idpVars, probeVars>>
       \/ /\ \/ part = "enterprise" /\ Enterprise!AssertionStep
             \/ part = "sign-in" /\ Enterprise!SignInStep
          /\ UNCHANGED <<vars, roundVars, tokenVars, probeVars>>
       \/ part = "probe" /\ Probe!Next /\ UNCHANGED <<vars, roundVars, tokenVars, idpVars>>
CredentialsSpec ==
    /\ CredentialsInit
    /\ [][CredentialsNext]_credentialsVars
    /\ Fairness /\ Round!Fairness /\ Tokens!Fairness
    /\ WF_probeVars(part = "probe" /\ Probe!Deadline)
    /\ WF_probeVars(part = "probe" /\ Probe!Raced)
    /\ WF_probeVars(part = "probe" /\ Probe!Proceeds)

-----------------------------------------------------------------------------
(* AuthorizationRound, typed: an endpoint ends its wait with a callback     *)
(* only if that is of a round of its own provider which was not completed   *)
(* when it was accepted, and a state that has been verified is not read     *)
(* again.                                                                   *)
CallbackIsOwn == []Round!TypeOK /\ Round!OwnCallback

(* OAuthCredentials, typed: every server with credentials is in the index   *)
(* that an invalidation walks, and what was invalidated does not come back  *)
(* with a refresh that began before.                                        *)
InvalidatedGone == Tokens!TypeOK /\ Tokens!IndexCovers /\ Tokens!InvalidatedGone

(* EnterpriseAuth, typed: concurrent assertions present no ID token that    *)
(* was about to expire when they asked, and do not lose the refresh token;  *)
(* a sign-in ends with the token of its own round.                          *)
SessionKept ==
    /\ Enterprise!TypeOK /\ Enterprise!KeptFresh /\ Enterprise!SessionKept
    /\ Enterprise!SignInIsOwn

(* EnterpriseAuth: "keeps the ID token fresh", when the host reloads too.   *)
FreshPresented == Enterprise!FreshPresented

(* AuthProbe, typed: what a probe suggests is what the server asks for, no  *)
(* request goes where a redirect points across origins or where discovery   *)
(* was not let, and a chain of redirects ends.                              *)
SuggestionSound == Probe!TypeOK /\ Probe!SuggestionSound /\ Probe!GoesWhereAsked

(* Every set and delete settles, every endpoint stops listening, every     *)
(* tokens() call returns, and so does a probe.                              *)
CredentialsSettle ==
    /\ MutationsSettle /\ Round!EndpointStops /\ Tokens!ReadsReturn
    /\ part = "probe" ~> at = "done"
=============================================================================
