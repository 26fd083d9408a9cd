----------------------------- MODULE HubRoutes -----------------------------
(* The names of src/hub/hub.ts and src/gateway/gateway.ts as pure           *)
(* functions: the filters and renames of a hub member, the routes of a hub  *)
(* and their resolution, and the names and URIs a gateway projects.         *)
(*                                                                          *)
(* A string is a sequence of tokens.  ".", ":" and "*" are tokens of their  *)
(* own because routes and patterns are cut at them, and "{}" ends a URI     *)
(* template.  Items are records with the fields that decide a name; the     *)
(* rest of a capability is left out.                                        *)
EXTENDS Naturals, FiniteSets, Sequences, SequencesExt

CONSTANTS
    NoFilter,     \* an absent filter
    Letters,      \* tokens of [A-Za-z0-9][A-Za-z0-9_-]*
    SchemeTokens, \* those of them that a URI scheme may hold
    MaxName       \* the longest exposed name, 128 in the code

-----------------------------------------------------------------------------
(* Filters: [allow : NoFilter or a set of patterns, deny : a set].          *)
MatchesPattern(pattern, value) ==
    IF pattern # <<>> /\ Last(pattern) = "*" THEN IsPrefix(Front(pattern), value)
    ELSE pattern = value
Denies(filter, value) == filter # NoFilter /\ \E p \in filter.deny : MatchesPattern(p, value)
Admits(filter, value) ==
    \/ filter = NoFilter
    \/ /\ ~Denies(filter, value)
       /\ filter.allow = NoFilter \/ \E p \in filter.allow : MatchesPattern(p, value)

(* Items a key tells apart: a key held twice names neither.                 *)
Identified(items, Key(_)) ==
    SelectSeq(items, LAMBDA it :
        Cardinality({n \in DOMAIN items : Key(items[n]) = Key(it)}) = 1)
FindExactlyOne(items, Is(_)) ==
    LET found == {n \in DOMAIN items : Is(items[n])} IN
    IF Cardinality(found) = 1 THEN {items[CHOOSE n \in found : TRUE]} ELSE {}

(* The tools of a member: admitted by their upstream name, then renamed;    *)
(* two that end up under one name are both left out.                        *)
Renamed(rename, name) == IF name \in DOMAIN rename THEN rename[name] ELSE name
ExposedTools_KeepsTwins(member, items) ==
    LET named == Identified(items, LAMBDA t : t.name)
        admitted == SelectSeq(named, LAMBDA t : Admits(member.tools, t.name))
    IN [n \in DOMAIN admitted |->
          [tool |-> admitted[n], name |-> Renamed(member.rename, admitted[n].name)]]
ExposedTools(member, items) ==
    LET named == Identified(items, LAMBDA t : t.name)
        admitted == SelectSeq(named, LAMBDA t : Admits(member.tools, t.name))
        exposed == [n \in DOMAIN admitted |->
                      [tool |-> admitted[n], name |-> Renamed(member.rename, admitted[n].name)]]
    IN Identified(exposed, LAMBDA e : e.name)
ExposedResources(member, items) ==
    SelectSeq(Identified(items, LAMBDA r : r.uri), LAMBDA r : Admits(member.resources, r.uri))
ExposedTemplates(member, items) ==
    SelectSeq(Identified(items, LAMBDA t : t), LAMBDA t : Admits(member.resources, t))

-----------------------------------------------------------------------------
(* What the constructor of a definition refuses (normalizeMember,           *)
(* normalizeRename, normalizePatterns, assertUniqueMembers).                *)
NamespaceOk(ns) == ns # <<>> /\ \A n \in DOMAIN ns : ns[n] \in Letters
ExposedNameOk(name) ==
    /\ name # <<>> /\ Len(name) <= MaxName
    /\ \A n \in DOMAIN name : name[n] \in Letters \cup {"."}
PatternOk(p) == p # <<>> /\ \A n \in DOMAIN p : p[n] = "*" => n = Len(p)
FilterOk(filter) ==
    filter # NoFilter =>
        /\ \A p \in filter.deny : PatternOk(p)
        /\ filter.allow # NoFilter => \A p \in filter.allow : PatternOk(p)
RenameOk(rename) ==
    \A name \in DOMAIN rename :
        /\ name # <<>> /\ ExposedNameOk(rename[name]) /\ rename[name] # name
        /\ \A other \in DOMAIN rename \ {name} : rename[other] # rename[name]
MemberOk(m) ==
    NamespaceOk(m.namespace) /\ FilterOk(m.tools) /\ FilterOk(m.resources) /\ RenameOk(m.rename)
UniqueMembers(members) ==
    \A i, j \in DOMAIN members : i # j =>
        members[i].namespace # members[j].namespace /\ members[i].conn # members[j].conn
DefinitionOk(members) == UniqueMembers(members) /\ \A i \in DOMAIN members : MemberOk(members[i])

-----------------------------------------------------------------------------
(* The routes of a hub whose members are all usable (#catalog); catalogs[i] *)
(* is the catalog of the i-th member.                                       *)
Flat(parts) == FlattenSeq(parts)
ToolRoutes(members, catalogs) ==
    Flat([i \in DOMAIN members |->
        LET exposed == ExposedTools(members[i], catalogs[i].tools) IN
        [n \in DOMAIN exposed |->
           [route |-> members[i].namespace \o <<".">> \o exposed[n].name,
            member |-> i, source |-> exposed[n].tool.name, exposed |-> exposed[n].name]]])
ResourceRoutes(members, catalogs) ==
    Flat([i \in DOMAIN members |->
        LET exposed == ExposedResources(members[i], catalogs[i].resources) IN
        [n \in DOMAIN exposed |->
           [route |-> members[i].namespace \o <<":">> \o exposed[n].uri,
            member |-> i, uri |-> exposed[n].uri, name |-> exposed[n].name]]])
TemplateRoutes(members, catalogs) ==
    Flat([i \in DOMAIN members |->
        LET exposed == ExposedTemplates(members[i], catalogs[i].templates) IN
        [n \in DOMAIN exposed |->
           [route |-> members[i].namespace \o <<":">> \o exposed[n],
            member |-> i, uri |-> exposed[n], name |-> exposed[n]]]])

(* resolveRoute: the first member whose namespace the route starts with;    *)
(* the empty set when there is none.                                        *)
ResolveRoute(members, route) ==
    LET under == {i \in DOMAIN members :
                    LET prefix == members[i].namespace \o <<".">> IN
                    IsPrefix(prefix, route) /\ Len(route) > Len(prefix)} IN
    IF under = {} THEN {}
    ELSE LET i == CHOOSE i \in under : \A j \in under : i <= j IN
         {[member |-> i,
           name |-> SubSeq(route, Len(members[i].namespace) + 2, Len(route))]}

(* #resolveToolCall by name: the member and the upstream tool it reaches.   *)
ResolveTool(members, catalogs, route) ==
    UNION {LET found == FindExactlyOne(ExposedTools(members[match.member],
                                                    catalogs[match.member].tools),
                                       LAMBDA e : e.name = match.name)
           IN {[member |-> match.member, source |-> e.tool.name] : e \in found}
             : match \in ResolveRoute(members, route)}

(* #readResource by namespace and URI: a denial comes first, a listed       *)
(* resource must be admitted, and an unlisted URI needs an admitted         *)
(* template that matches it.                                                *)
TemplateMatches(template, uri) ==
    IF Last(template) = "{}" THEN IsPrefix(Front(template), uri) /\ Len(uri) >= Len(template)
    ELSE template = uri
DeniedFirst_Never(member, uri) == FALSE
DeniedFirst(member, uri) == Denies(member.resources, uri)
MayRead(member, catalog, uri) ==
    /\ ~DeniedFirst(member, uri)
    /\ LET listed == FindExactlyOne(catalog.resources, LAMBDA r : r.uri = uri) IN
       IF listed # {} THEN Admits(member.resources, uri)
       ELSE \E t \in ToSet(Identified(catalog.templates, LAMBDA x : x)) :
               Admits(member.resources, t) /\ TemplateMatches(t, uri)

-----------------------------------------------------------------------------
(* The gateway's projection (#build).  names and resources are the modes    *)
(* "namespaced" and "passthrough" of its policy.                            *)
NameCollisions_BySource(routes) ==
    {routes[n].source : n \in {n \in DOMAIN routes :
        \E k \in DOMAIN routes : /\ routes[k].source = routes[n].source
                                 /\ routes[k].member # routes[n].member}}
NameCollisions(routes) ==
    {routes[n].exposed : n \in {n \in DOMAIN routes :
        \E k \in DOMAIN routes : /\ routes[k].exposed = routes[n].exposed
                                 /\ routes[k].member # routes[n].member}}
Owners(routes, uri) == {routes[n].member : n \in {n \in DOMAIN routes : routes[n].uri = uri}}
UriCollisions(resources, templates) ==
    {r.uri : r \in {r \in ToSet(resources \o templates) :
        Cardinality(Owners(resources, r.uri) \cup Owners(templates, r.uri)) > 1}}
ToolName(mode, r) == IF mode = "passthrough" THEN r.exposed ELSE r.route
ProjectedTools(mode, routes) ==
    SelectSeq(routes, LAMBDA r :
        /\ ExposedNameOk(ToolName(mode, r))
        /\ mode = "passthrough" => r.exposed \notin NameCollisions(routes))
IsScheme(ns) == \A n \in DOMAIN ns : ns[n] \in SchemeTokens
ProjectedUris(mode, members, routes, collisions) ==
    SelectSeq(routes, LAMBDA r :
        IF mode = "passthrough" THEN r.uri \notin collisions
        ELSE IsScheme(members[r.member].namespace))
ProjectedUri(mode, r) == IF mode = "passthrough" THEN r.uri ELSE r.route
ProjectedResources(mode, members, catalogs) ==
    LET resources == ResourceRoutes(members, catalogs) IN
    ProjectedUris(mode, members, resources,
                  UriCollisions(resources, TemplateRoutes(members, catalogs)))
ProjectedTemplates(mode, members, catalogs) ==
    LET templates == TemplateRoutes(members, catalogs) IN
    ProjectedUris(mode, members, templates,
                  UriCollisions(ResourceRoutes(members, catalogs), templates))

Distinct(items, Key(_)) ==
    \A i, j \in DOMAIN items : Key(items[i]) = Key(items[j]) => i = j

-----------------------------------------------------------------------------
(* Every route a hub lists resolves by its name to the member and the       *)
(* upstream tool it was listed for, although names may hold dots, be        *)
(* renamed onto each other, or repeat a namespace.                          *)
RoutesReturn(members, catalogs) ==
    DefinitionOk(members) =>
        \A r \in ToSet(ToolRoutes(members, catalogs)) :
            ResolveTool(members, catalogs, r.route) = {[member |-> r.member, source |-> r.source]}

(* No two tools, no two resources and no two templates are projected under  *)
(* one name or one URI, in either mode, and none stands for a URI of        *)
(* another member: the gateway never serves one member's capability under   *)
(* another's name.                                                          *)
ProjectionUnambiguous(members, catalogs, mode) ==
    DefinitionOk(members) =>
        LET resources == ProjectedResources(mode, members, catalogs)
            templates == ProjectedTemplates(mode, members, catalogs) IN
        /\ Distinct(ProjectedTools(mode, ToolRoutes(members, catalogs)),
                    LAMBDA r : ToolName(mode, r))
        /\ Distinct(resources, LAMBDA r : ProjectedUri(mode, r))
        /\ Distinct(templates, LAMBDA r : ProjectedUri(mode, r))
        /\ \A r \in ToSet(resources), t \in ToSet(templates) :
              ProjectedUri(mode, r) = ProjectedUri(mode, t) => r.member = t.member

(* The names the gateway gives to resource capabilities are distinct too    *)
(* ("projects names collision-safely"); a definition with two of one name   *)
(* is refused as a whole.                                                   *)
ResourceNamesUnambiguous(members, catalogs, mode) ==
    DefinitionOk(members) =>
        LET found == ProjectedResources(mode, members, catalogs) IN
        Distinct(found, LAMBDA r : members[r.member].namespace \o <<".">> \o r.name)

(* A URI a member's filter denies is never read, neither as a listed        *)
(* resource nor through a template whose own text the filter admits.        *)
DeniedIsNeverRead(members, catalogs, uris) ==
    \A i \in DOMAIN members : \A uri \in uris :
        MayRead(members[i], catalogs[i], uri) => ~Denies(members[i].resources, uri)

=============================================================================
