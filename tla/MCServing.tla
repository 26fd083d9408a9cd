----------------------------- MODULE MCServing -----------------------------
(* What is served, for TLC.  In part "hub" two hubs share two connections,  *)
(* with refreshes of whole hubs; in part "gateway" the gateway serves one   *)
(* hub over one connection; part "runtime" is a serving entry with the      *)
(* servers it materializes; part "admission" is a server that is built and  *)
(* called.  Parts "routes" and "composition" hold inputs of the pure        *)
(* functions of HubRoutes, Composition and Checks.  The parts are independent: a    *)
(* behaviour is one of one part.                                            *)
EXTENDS Gateway, ServerRuntime, Admission, TLC

CONSTANTS c1, c2, h1, h2, i1, i2, l1, l2, x1, x2

VARIABLES
    part,
    names,                                     \* HubRoutes: members, catalogs, mode
    derivation                                 \* Composition: what is mounted, and how

AllTools(l) == Sources

(* The content l2 gives two capabilities one name.                          *)
Distinctly(t) == \A c \in Conns : t.identity[c].list # l2

Names == INSTANCE HubRoutes WITH
    NoFilter <- None, Letters <- {"a", "b", "x", "y", "1"}, SchemeTokens <- {"a", "b", "x", "y"},
    MaxName <- 5

-----------------------------------------------------------------------------
(* Names that hold dots, renames onto each other, filters that deny what a  *)
(* template admits, URIs two members hold.                                  *)
Filters ==
    { None, [allow |-> None, deny |-> {<<"x", "*">>}], [allow |-> {<<"x">>}, deny |-> {}],
      [allow |-> {<<"x">>, <<"y", "{}">>}, deny |-> {<<"y">>, <<"y", "x">>}] }
Renames ==
    { <<>>, <<"x">> :> <<"y">>, <<"x">> :> <<"y">> @@ <<"y">> :> <<"x">>,
      <<"y">> :> <<"x", ".", "y">> }
First == [conn: {"c1"}, namespace: {<<"a">>}, tools: Filters, resources: Filters, rename: Renames]
Second == [ conn: {"c2"}, namespace: {<<"a", "b">>, <<"a", ".", "x">>, <<"1">>}, tools: {None},
            resources: {None}, rename: {<<>>} ]
Tools == UNION {[1..n -> [name: {<<"x">>, <<"y">>, <<"x", ".", "y">>}]] : n \in 0..2}
Resources == {<<>>} \cup [1..2 -> [name: {"r", "s"}, uri: {<<"x">>, <<"y">>}]]
Catalogs ==
    [tools: Tools, resources: {<<>>}, templates: {<<>>}] \cup
    [tools: {<<>>}, resources: Resources, templates: {<<>>, <<<<"x">>>>, <<<<"y", "{}">>>>}]
Other ==
    [ tools |-> <<[name |-> <<"y">>]>>, resources |-> <<[name |-> "r", uri |-> <<"x">>]>>,
      templates |-> <<<<"y", "{}">>>> ]
Inputs == [members: First \X Second, catalogs: Catalogs \X {Other},
           mode: {"namespaced", "passthrough"}]

-----------------------------------------------------------------------------
(* Definitions, for Composition and Admission.                               *)
Check(op, parts) == [op |-> op, of |-> parts, scopes |-> {"s"}, roles |-> {"r"}]
Policy(anonymous) == [anonymous |-> anonymous, check |-> Check("policy", <<>>)]
Needs(op, x, y) ==
    [anonymous |-> "deny", check |-> Check(op, <<Check(x, <<>>), Check(y, <<>>)>>)]
Auths ==
    { None, Policy("allow"), Policy("deny"), Needs("anyOf", "scopes", "policy"),
      Needs("anyOf", "policy", "scopes"), Needs("allOf", "scopes", "roles"),
      Needs("allOf", "policy", "scopes") }
Cap(kind, name, path, auth) ==
    [ kind |-> kind, name |-> <<name>>, tags |-> {"t"}, auth |-> auth, spaces |-> <<>>,
      uri |-> IF kind = "tool" THEN None ELSE [scheme |-> "app", path |-> path],
      origin |-> [name |-> name, uri |-> [scheme |-> "app", path |-> path]],
      asked |-> IF auth = None THEN <<>> ELSE <<auth>> ]
Rule(named, tags, enabled) == [names |-> named, kinds |-> None, tags |-> tags, enabled |-> enabled]
Ruled ==
    { <<>>, <<Rule(None, {"t"}, FALSE)>>, <<Rule({<<"x">>}, None, FALSE)>>,
      <<Rule(None, {"t"}, FALSE), Rule({<<"x">>, <<"r">>}, None, TRUE)>> }
Plain(capabilities) ==
    [ capabilities |-> capabilities, rules |-> <<>>, setup |-> FALSE, providers |-> 0,
      middleware |-> FALSE, declared |-> {}, authorize |-> FALSE, extras |-> <<>> ]
Children ==
    {[ Plain(<<Cap("tool", "x", <<>>, a), Cap("resource", "r", u, a),
               Cap("resource-template", "x", <<"y">>, None)>>) EXCEPT !.rules = r] :
        a \in Auths, u \in {<<>>, <<"">>, <<"p", "y">>}, r \in Ruled}
Options ==
    [ prefix: {None, <<"p">>}, separator: {<<".">>}, schemes: {None, {"app"}, {"file"}},
      allowSetup: {FALSE} ]
Derivations ==
    [child: Children, options: Options, before: BOOLEAN, after: BOOLEAN, twice: BOOLEAN]

Asked == INSTANCE Checks
Composes == INSTANCE Composition

Parent == Plain(<<Cap("tool", "z", <<>>, None)>>)
Upon(result, Step(_)) == IF result = None THEN None ELSE Step(result)
Derived(i) ==
    LET child == IF i.before THEN Composes!RestrictTag(i.child, "t", {"s"}) ELSE i.child
        mounted == Composes!Mount(Parent, child, i.options)
        again == IF i.twice THEN Upon(mounted, LAMBDA d : Composes!Mount(Parent, d,
                                [i.options EXCEPT !.prefix = <<"q">>])) ELSE mounted
    IN IF i.after THEN Upon(again, LAMBDA d : Composes!RestrictTag(d, "t", {"u"})) ELSE again

Holders ==
    {None} \cup [scopes: SUBSET {"s", "u"}, roles: {None, {"r"}}, policy: {"yes", "no", "throws"}]

(* For Admission.                                                            *)
Verdicts(check, holder) == Asked!Verdict(check, holder)
Scopes(p) == {"s"}
Listable == {Cap("tool", "x", <<>>, a) : a \in Auths} \cup {Cap("tool", "z", <<>>, None)}
FreeTool == Cap("tool", "y", <<>>, None)
ShutResource == Cap("resource", "y", <<>>, Policy("deny"))
Offerable == Listable \cup {FreeTool, ShutResource}
Provided == {None, <<>>, <<FreeTool>>, <<ShutResource>>}
Servable ==
    {[Plain(<<Cap("tool", "x", <<>>, a), Cap("tool", "z", <<>>, None)>>) EXCEPT
        !.providers = n, !.declared = {"tool"}, !.authorize = g, !.extras = e, !.rules = r] :
      a \in Auths, n \in 0..1, g \in BOOLEAN, e \in {<<>>, <<Check("scopes", <<>>)>>},
      r \in {<<>>, <<Rule({<<"z">>}, None, FALSE)>>}}
Nothing == CHOOSE d \in ServedDefinitions : TRUE

-----------------------------------------------------------------------------
(* In part "hub" no gateway is built; in part "gateway" there is one hub    *)
(* over one connection, which no one refreshes and whose first session      *)
(* alone may offer two capabilities under one name; a run of the gateway is *)
(* called by the first number that is free, and two overlap over what       *)
(* sessions, catalogs and their walks announce, not over a second update.   *)
HubsAlone == HubMoves /\ gateway = "absent" /\ \A c \in Conns : conn'[c].catalog # l2
OneOfEach ==
    /\ GatewayNext
    /\ UNCHANGED <<refresh, conn[c2], hub[h2]>>
    /\ conn'[c1].catalog = l2 => conn'[c1].generation = 1
    /\ Registered(h1)' => hub'[h1].exposes[c2] = Out
    /\ runs[2] = None /\ runs'[2] # None => runs[1] # None
    /\ runs'[2] # None => updates' < 2

ServingInit ==
    /\ part \in {"hub", "gateway", "routes", "composition", "runtime", "admission"}
    /\ GatewayInit
    /\ names \in IF part = "routes" THEN Inputs ELSE {None}
    /\ derivation \in IF part = "composition" THEN Derivations ELSE {None}
    /\ definition \in IF part = "admission" THEN ServedDefinitions ELSE {Nothing}
    /\ authority \in [Principals -> IF part = "admission" THEN {"yes", "no"} ELSE {"yes"}]
    /\ RuntimeInit /\ AdmissionInit
ServingNext ==
    /\ UNCHANGED <<part, names, derivation>>
    /\ \/ part = "hub" /\ HubsAlone /\ UNCHANGED <<runtimeVars, admissionVars>>
       \/ part = "gateway" /\ OneOfEach /\ UNCHANGED <<runtimeVars, admissionVars>>
       \/ part = "runtime" /\ RuntimeNext /\ UNCHANGED <<gatewayVars, admissionVars>>
       \/ part = "admission" /\ AdmissionNext /\ UNCHANGED <<gatewayVars, runtimeVars>>
ServingSpec ==
    ServingInit
        /\ [][ServingNext]_<<part, names, derivation, gatewayVars, runtimeVars, admissionVars>>

(* The connections are alike, and so are the hubs while no gateway serves   *)
(* one; a state of part "gateway", which moves c1 and h1 only, is the twin  *)
(* of no other.                                                             *)
Twins == Permutations({c1, c2}) \cup Permutations({h1, h2})

-----------------------------------------------------------------------------
(* HubRoutes: every route a hub lists resolves to the member and the tool   *)
(* it was listed for, no two capabilities are projected under one name or   *)
(* URI, and a URI a filter denies is not read through a template either.    *)
NamesAreSound ==
    part = "routes" =>
        /\ Names!RoutesReturn(names.members, names.catalogs)
        /\ Names!ProjectionUnambiguous(names.members, names.catalogs, names.mode)
        /\ Names!DeniedIsNeverRead(names.members, names.catalogs,
                                   {<<"x">>, <<"y">>, <<"y", "x">>})

(* Composition: what restricts a capability restricts whatever is derived   *)
(* from it, what a child hides its parent does not offer, a URI that was    *)
(* namespaced is read under its own, and a check asks for scopes once.      *)
ComposedSoundly ==
    part = "composition" =>
        LET result == Derived(derivation)
            derived == IF result = None THEN derivation.child ELSE result
        IN /\ Composes!RestrictionsSurvive(derived, Holders)
           /\ Composes!ReadsReturn(derived)
           /\ result # None => Composes!HiddenStaysHidden(result, derivation.child)
           /\ \A c \in Composes!ToSet(derived.capabilities), h \in Holders \ {None} :
                c.auth # None =>
                  /\ Asked!StepUpSuffices(c.auth.check, h)
                  /\ Composes!ListedIsCallable(c.auth, h)
=============================================================================
