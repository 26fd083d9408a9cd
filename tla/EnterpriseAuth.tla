---------------------------- MODULE EnterpriseAuth ----------------------------
(***************************************************************************)
(* Enterprise-managed authorization (src/client/oauth-flows.ts).  A user   *)
(* signs in at the IdP of the enterprise (authorizeEnterpriseIdp); after   *)
(* that, every grant for an MCP server starts from an ID token, which      *)
(* enterpriseManagedAuth keeps fresh with the refresh token of the IdP.    *)
(* Several servers may ask for an assertion at the same time: each works   *)
(* on the one `current`, and every await lets the others in.               *)
(*                                                                         *)
(* ID tokens are numbered as the IdP issues them, and a refresh token has  *)
(* the number of the ID token it was issued with.  The IdP and the host's  *)
(* store are external: the IdP may rotate a refresh token or leave it out  *)
(* of its answer, and may ignore a PKCE verifier.                          *)
(***************************************************************************)
EXTENDS Naturals, FiniteSets

CONSTANTS
  Assertions, \* calls of the `assertion` callback
  SignIns,    \* calls of authorizeEnterpriseIdp
  MaxTokens,  \* bound: ID tokens issued by refreshes, and the first
  Undefined

VARIABLES
  reloads,   \* the host passes reloadIdpTokens
  current,   \* the tokens held
  endpoint,  \* tokenEndpoint is known
  assertion, \* the calls of `assertion`
  idp,       \* the IdP: how it renews, what it has issued, the refresh tokens it
             \* takes that anyone can hold, the codes redeemed
  kept,      \* what the host has stored
  expired,   \* ID tokens within refreshBufferMs of their expiry
  sign       \* the sign-ins

vars == <<reloads, current, endpoint, assertion, idp, kept, expired, sign>>

Tokens    == 1..MaxTokens
IdpTokens == [id: Tokens, refresh: 0..MaxTokens]
Assertion == [ step: {"none", "reload", "endpoint", "sent", "answered", "persist", "shown", "failed"},
               tokens: IdpTokens \cup {Undefined}, stale: SUBSET Tokens ]
NoAssertion == [step |-> "none", tokens |-> Undefined, stale |-> {}]
SignIn == [ step: {"none", "callback", "exchange", "token", "done", "failed"},
            state: SignIns \cup {Undefined}, code: SignIns \cup {Undefined},
            nonce: SignIns \cup {Undefined} ]
NoSignIn == [step |-> "none", state |-> Undefined, code |-> Undefined, nonce |-> Undefined]

(* With the same refresh token, with another one, or with another one that *)
(* revokes it.                                                             *)
Renewals == {"keeps", "rotates", "revokes"}

First == [id |-> 1, refresh |-> 1]
Init ==
  /\ reloads \in BOOLEAN /\ endpoint \in BOOLEAN
  /\ current \in {First, [First EXCEPT !.refresh = 0]} /\ kept = current
  /\ assertion = [a \in Assertions |-> NoAssertion]
  /\ idp \in [ renews: Renewals, issued: {1}, takes: {{current.refresh} \ {0}}, spent: {{}} ]
  /\ expired = {}
  /\ sign = [s \in SignIns |-> NoSignIn]

----------------------------------------------------------------------------
(* An operator with a suffix is a variant of the one it precedes, with one *)
(* mistake the code could have made: a property below refutes it.          *)

Step(a, from, to) == assertion[a].step = from /\ assertion' = [assertion EXCEPT ![a].step = to]

Ask(a) ==
  /\ assertion[a].step = "none"
  /\ assertion' = [assertion EXCEPT ![a] = [NoAssertion EXCEPT !.step = "reload",
                                              !.tokens = IF reloads THEN kept ELSE Undefined]]
  /\ UNCHANGED <<reloads, current, endpoint, idp, kept, expired, sign>>

Fresh_Always(tokens) == TRUE

Fresh(tokens) == tokens.id \notin expired

(* The reload resolves; validIdToken up to its first await.                *)
Check(a) ==
  LET held == IF assertion[a].tokens = Undefined THEN current ELSE assertion[a].tokens
  IN  /\ assertion[a].step = "reload"
      /\ current' = held
      /\ assertion' = [assertion EXCEPT
           ![a] = [ step |-> IF Fresh(held) THEN "shown"
                             ELSE IF held.refresh = 0 THEN "failed" ELSE "endpoint",
                    tokens |-> IF Fresh(held) THEN held ELSE Undefined,
                    stale |-> expired ]]
      /\ UNCHANGED <<reloads, endpoint, idp, kept, expired, sign>>

ReloadFails(a) ==
  /\ reloads /\ Step(a, "reload", "failed")
  /\ UNCHANGED <<reloads, current, endpoint, idp, kept, expired, sign>>

(* resolveTokenEndpoint; the refresh token is read after it.               *)
Renew(a) ==
  /\ assertion[a].step = "endpoint" /\ endpoint' = TRUE
  /\ assertion' = [assertion EXCEPT ![a].step = "sent", ![a].tokens = current]
  /\ UNCHANGED <<reloads, current, idp, kept, expired, sign>>

NoEndpoint(a) ==
  /\ ~endpoint /\ Step(a, "endpoint", "failed")
  /\ UNCHANGED <<reloads, current, endpoint, idp, kept, expired, sign>>

(* What the answer to a refresh with the token `old` comes to, `new` is    *)
(* the refresh token in it, if any: refreshIdpTokens keeps the old one.    *)
Renewed_Drops(id, old, new) == [id |-> id, refresh |-> new]

Renewed(id, old, new) == [id |-> id, refresh |-> IF new = 0 THEN old ELSE new]

IdpRenews(a) ==
  LET id == idp.issued + 1
      old == assertion[a].tokens.refresh
      new == IF idp.renews = "keeps" THEN 0 ELSE id
  IN  /\ assertion[a].step = "sent" /\ old \in idp.takes /\ id <= MaxTokens
      /\ idp' = [idp EXCEPT !.issued = id,
                   !.takes = (@ \cup ({new} \ {0})) \ (IF idp.renews = "revokes" THEN {old} ELSE {})]
      /\ assertion' = [assertion EXCEPT ![a].step = "answered",
                                        ![a].tokens = Renewed(id, old, new)]
      /\ UNCHANGED <<reloads, current, endpoint, kept, expired, sign>>

(* Its answer is lost: a refresh token in it is nobody's.                  *)
AnswerLost(a) ==
  /\ Step(a, "answered", "failed")
  /\ idp' = IF idp.renews = "keeps" THEN idp
            ELSE [idp EXCEPT !.takes = @ \ {assertion[a].tokens.refresh}]
  /\ UNCHANGED <<reloads, current, endpoint, kept, expired, sign>>

(* The IdP does not take the token, or the request fails before it does.   *)
RenewFails(a) ==
  /\ Step(a, "sent", "failed")
  /\ UNCHANGED <<reloads, current, endpoint, idp, kept, expired, sign>>

Land(a) ==
  /\ assertion[a].step = "answered"
  /\ current' = assertion[a].tokens
  /\ assertion' = [assertion EXCEPT ![a].step = "persist"]
  /\ UNCHANGED <<reloads, endpoint, idp, kept, expired, sign>>

Shown_Older(a) == kept

(* What is in hand after onIdpTokensRefreshed is what is presented.        *)
Shown(a) == current

Persist(a) ==
  /\ assertion[a].step = "persist"
  /\ kept' = assertion[a].tokens
  /\ assertion' = [assertion EXCEPT ![a].step = "shown", ![a].tokens = Shown(a)]
  /\ UNCHANGED <<reloads, current, endpoint, idp, expired, sign>>

PersistFails(a) ==
  /\ Step(a, "persist", "failed")
  /\ UNCHANGED <<reloads, current, endpoint, idp, kept, expired, sign>>

(* The ID token has been traded for a grant: the call is over.             *)
Granted(a) ==
  /\ assertion[a].step \in {"shown", "failed"}
  /\ assertion' = [assertion EXCEPT ![a] = NoAssertion]
  /\ UNCHANGED <<reloads, current, endpoint, idp, kept, expired, sign>>

(* An answer does not outlive its token, whose buffer is a minute.         *)
Expire ==
  /\ \E n \in 1..idp.issued :
       /\ \A a \in Assertions : assertion[a].step = "answered" => assertion[a].tokens.id # n
       /\ expired' = expired \cup {n}
  /\ expired' # expired
  /\ UNCHANGED <<reloads, current, endpoint, assertion, idp, kept, sign>>

----------------------------------------------------------------------------
(* authorizeEnterpriseIdp: a state, a nonce and a verifier of its own.     *)
Begin(s) ==
  /\ sign[s].step = "none"
  /\ \E step \in {"callback", "failed"} : sign' = [sign EXCEPT ![s].step = step]
  /\ UNCHANGED <<reloads, current, endpoint, assertion, idp, kept, expired>>

Accepted_AnyState(s, state, code) == code # Undefined

(* The callback a sign-in goes on with.                                    *)
Accepted(s, state, code) == state = s /\ code # Undefined

(* The callback brings a state and a code of any sign-in, or neither; an   *)
(* error ends the wait as well.                                            *)
Callback(s) ==
  /\ sign[s].step = "callback"
  /\ \E state \in SignIns \cup {Undefined},
        code \in {t \in SignIns : sign[t].step # "none"} \cup {Undefined} :
       sign' = [sign EXCEPT ![s].state = state, ![s].code = code,
                  ![s].step = IF Accepted(s, state, code) THEN "exchange" ELSE "failed"]
  /\ UNCHANGED <<reloads, current, endpoint, assertion, idp, kept, expired>>

(* The IdP redeems a code once, mostly for the verifier it belongs to.     *)
IdpRedeems(s) ==
  /\ sign[s].step = "exchange" /\ sign[s].code \notin idp.spent
  /\ idp' = [idp EXCEPT !.spent = @ \cup {sign[s].code}]
  /\ sign' = [sign EXCEPT ![s].step = "token", ![s].nonce = sign[s].code]
  /\ UNCHANGED <<reloads, current, endpoint, assertion, kept, expired>>

IdpRefuses(s) ==
  /\ sign[s].step = "exchange"
  /\ sign' = [sign EXCEPT ![s].step = "failed"]
  /\ UNCHANGED <<reloads, current, endpoint, assertion, idp, kept, expired>>

Bound_Unasked(s) == sign[s].nonce # Undefined

Bound(s) == sign[s].nonce = s

SignedIn(s) ==
  /\ sign[s].step = "token"
  /\ sign' = [sign EXCEPT ![s].step = IF Bound(s) THEN "done" ELSE "failed"]
  /\ UNCHANGED <<reloads, current, endpoint, assertion, idp, kept, expired>>

AssertionStep ==
  \/ \E a \in Assertions :
       \/ Ask(a) \/ Check(a) \/ ReloadFails(a) \/ Renew(a) \/ NoEndpoint(a)
       \/ IdpRenews(a) \/ RenewFails(a) \/ AnswerLost(a) \/ Land(a)
       \/ Persist(a) \/ PersistFails(a) \/ Granted(a)
  \/ Expire
SignInStep ==
  \E s \in SignIns : Begin(s) \/ Callback(s) \/ IdpRedeems(s) \/ IdpRefuses(s) \/ SignedIn(s)

Next == AssertionStep \/ SignInStep

Spec == Init /\ [][Next]_vars

----------------------------------------------------------------------------
TypeOK ==
  /\ reloads \in BOOLEAN /\ endpoint \in BOOLEAN
  /\ current \in IdpTokens /\ kept \in IdpTokens
  /\ assertion \in [Assertions -> Assertion]
  /\ idp \in [renews: Renewals, issued: Tokens, takes: SUBSET Tokens, spent: SUBSET SignIns]
  /\ expired \subseteq Tokens
  /\ sign \in [SignIns -> SignIn]

(* "keeps the ID token fresh": whatever other assertions put in its place  *)
(* meanwhile, a token presented is none that was about to expire when the  *)
(* call asked.                                                             *)
FreshPresented ==
  \A a \in Assertions :
    assertion[a].step = "shown" => assertion[a].tokens.id \notin assertion[a].stale

(* FreshPresented, where the host does not reload the tokens: a reload that *)
(* began before a renewal may bring the old ones back after it.            *)
KeptFresh == reloads \/ FreshPresented

(* Concurrent refreshes do not cost the session: when none is under way,   *)
(* the refresh token held is one the IdP takes, if it takes any.           *)
SessionKept ==
  (~reloads /\ \A a \in Assertions : assertion[a].step \notin {"sent", "answered"}) =>
    idp.takes = {} \/ current.refresh \in idp.takes

(* A sign-in ends with the token of its own round, whichever callbacks and *)
(* codes cross, and does not redeem the code a foreign callback brings.    *)
SignInIsOwn ==
  \A s \in SignIns :
    /\ sign[s].step = "done" => sign[s].code = s
    /\ sign[s].step \in {"exchange", "token", "done"} => sign[s].state = s
===============================================================================
