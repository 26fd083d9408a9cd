----------------------------- MODULE Composition -----------------------------
(* How the definition of a server is put together (src/authoring): the      *)
(* transforms that rename, restrict and namespace capabilities, and mount() *)
(* of one server in another.                                                *)
(*                                                                          *)
(* A name or the path of a URI is a sequence of tokens; `origin` and        *)
(* `asked` are history: the capability a derived one comes from, and every  *)
(* auth that a step of its derivation asked for.  The handlers themselves,  *)
(* schemas and metadata are left out.                                       *)
EXTENDS ServedCapabilities, FiniteSets, SequencesExt

-----------------------------------------------------------------------------
(* URIs: scheme, and a path of segments, <<>> where there is none.          *)
RewriteUri(uri, space) == [uri EXCEPT !.path = <<space>> \o @]

UnwriteUri(uri, space) ==
  IF uri.path # <<>> /\ Head(uri.path) = space THEN [uri EXCEPT !.path = Tail(@)] ELSE uri

(* What a handler that was namespaced any number of times is called with,   *)
(* and under which URI the content it returns is reported.                  *)
Delegated(capability, uri) == FoldRight(LAMBDA s, u : UnwriteUri(u, s.space), capability.spaces, uri)

Reprojected(capability, uri) ==
  FoldLeft(LAMBDA u, s : IF u.scheme \in s.schemes THEN RewriteUri(u, s.space) ELSE u,
           uri, capability.spaces)

-----------------------------------------------------------------------------
(* What is visible of the capabilities of a definition.                     *)
ApplyVisibility(capabilities, rules) ==
  SelectSeq(capabilities, LAMBDA capability : Visible(capability, rules))

(* withCapabilities, on which every transform ends: a definition with two   *)
(* of a name is none.                                                       *)
WithCapabilities(definition, capabilities) ==
  IF Unique(capabilities) THEN [definition EXCEPT !.capabilities = capabilities] ELSE Absent

MapCapabilities(definition, Mapper(_)) ==
  WithCapabilities(definition,
    [i \in DOMAIN definition.capabilities |-> Mapper(definition.capabilities[i])])

PrefixNames(definition, prefix, separator) ==
  MapCapabilities(definition, LAMBDA c : [c EXCEPT !.name = prefix \o separator \o @])

(* An operator with a suffix is a variant of the one it precedes, with one  *)
(* mistake the code could have made: a property below refutes it.           *)
Restricted_KeepsAnonymous(capability, scopes) ==
  LET needs == [op |-> "scopes", scopes |-> scopes, of |-> <<>>] IN
  IF capability.auth = Absent THEN [anonymous |-> "deny", check |-> needs]
  ELSE [ capability.auth EXCEPT
           !.check = [op |-> "allOf", of |-> <<capability.auth.check, needs>>] ]

(* The auth of a capability that a restriction is put on.                   *)
Restricted(capability, scopes) ==
  LET needs == [op |-> "scopes", scopes |-> scopes, of |-> <<>>] IN
  [ anonymous |-> "deny",
    check |-> IF capability.auth = Absent THEN needs
              ELSE [op |-> "allOf", of |-> <<capability.auth.check, needs>>] ]

RestrictTag(definition, tag, scopes) ==
  MapCapabilities(definition, LAMBDA c :
    IF tag \notin c.tags THEN c
    ELSE [c EXCEPT !.auth = Restricted(c, scopes),
                   !.asked = Append(@, Restricted([c EXCEPT !.auth = Absent], scopes))])

(* namespaceUris: a URI of a scheme that is not listed is refused, and so   *)
(* is the definition.                                                       *)
Namespaced(capability, space, schemes) ==
  IF capability.kind = "tool" THEN capability
  ELSE [capability EXCEPT !.uri = RewriteUri(@, space),
                          !.spaces = Append(@, [space |-> space, schemes |-> schemes])]

NamespaceUris(definition, space, schemes) ==
  IF /\ schemes # {}
     /\ \A c \in ToSet(definition.capabilities) : c.kind # "tool" => c.uri.scheme \in schemes
  THEN MapCapabilities(definition, LAMBDA c : Namespaced(c, space, schemes))
  ELSE Absent

-----------------------------------------------------------------------------
(* mount()                                                                  *)
Mountable(child, options) ==
  /\ child.setup => options.allowSetup
  /\ child.providers = 0
  /\ ~child.middleware
  /\ options.schemes # Absent => options.prefix # Absent

(* What a child offers to a parent: what it hides stays hidden.             *)
Offered(child) == ApplyVisibility(child.capabilities, child.rules)

Mount(parent, child, options) ==
  LET shown == [child EXCEPT !.capabilities = Offered(child)]
      spaced == IF options.schemes = Absent THEN shown
                ELSE NamespaceUris(shown, options.prefix[1], options.schemes)
      named == IF options.prefix = Absent \/ spaced = Absent THEN spaced
               ELSE PrefixNames(spaced, options.prefix, options.separator)
  IN IF ~Mountable(child, options) \/ named = Absent THEN Absent
     ELSE LET both == WithCapabilities(parent, parent.capabilities \o named.capabilities) IN
          IF both = Absent THEN Absent
          ELSE [both EXCEPT !.setup = @ \/ child.setup]

(* transformTools: `pending` is what the transform has not yet found of the *)
(* names it was given; it is emptied by the first definition that has them. *)
ToolNames(definition) == {c.name : c \in {d \in ToSet(definition.capabilities) : d.kind = "tool"}}

TransformTools(pending, patches, definition) ==
  LET left == pending \ ToolNames(definition) IN
  [ pending |-> left,
    definition |->
      IF left # {} THEN Absent
      ELSE MapCapabilities(definition, LAMBDA c :
             IF c.kind = "tool" /\ c.name \in DOMAIN patches
             THEN [c EXCEPT !.name = patches[c.name].name, !.tags = patches[c.name].tags]
             ELSE c) ]

-----------------------------------------------------------------------------
(* What a derivation must not lose.  `Passes` is what the code says of the  *)
(* derived capability; `asked` lists every auth its derivation asked for.   *)
Passes(capability, holder) == capability.auth = Absent \/ EvaluateAuth(capability.auth, holder)

(* restrictTag, withName, namespaceUris, mount: whoever passes the auth of  *)
(* a derived capability passes every auth that was put on it on the way; an *)
(* anonymous request, only if all of them let it.                           *)
RestrictionsSurvive(definition, holders) ==
  \A c \in ToSet(definition.capabilities), holder \in holders :
    Passes(c, holder) => \A i \in DOMAIN c.asked : EvaluateAuth(c.asked[i], holder)

(* namespaceUris: a read of the listed URI reaches the handler under the    *)
(* URI it was written for, and what it returns under that URI is reported   *)
(* under the listed one ("reads stay consistent with listings").            *)
ReadsReturn(definition) ==
  \A c \in ToSet(definition.capabilities) : c.kind # "tool" =>
    /\ Delegated(c, c.uri) = c.origin.uri
    /\ Reprojected(c, c.origin.uri) = c.uri

(* mount: no capability that the child hides is offered by the parent.      *)
HiddenStaysHidden(definition, child) ==
  \A c \in ToSet(definition.capabilities) :
    c.origin \in {d.origin : d \in ToSet(child.capabilities)} =>
      \E d \in ToSet(child.capabilities) : d.origin = c.origin /\ Visible(d, child.rules)

(* evaluateAuth and enforce agree: what is listed can be called, as long as *)
(* the holder stays what it is.                                             *)
ListedIsCallable(auth, holder) ==
  EvaluateAuth(auth, holder) <=> Enforce(auth.check, auth.anonymous, holder).allowed

(* "Unknown names are refused": a transform that is applied to a second     *)
(* definition has names of that definition only.                            *)
UnknownNamesRefused(patches, first, second) ==
  LET once == TransformTools(DOMAIN patches, patches, first)
      twice == TransformTools(once.pending, patches, second)
  IN twice.definition # Absent => DOMAIN patches \subseteq ToolNames(second)
=============================================================================
