# A formal model of kmcp

kmcp is a TypeScript library for MCP (Model Context Protocol) hosts and
servers. On the client side `McpConnectionManager` keeps connections to
upstream servers alive, discovers their catalogs and admits operations on
them; hubs group connections, a gateway serves a hub downstream, OAuth
providers hold credentials. On the server side definitions are composed into
runtimes and served over HTTP or stdio. Paths below are relative to the
repository; `manager.ts` is `src/client/manager.ts`.

Everything runs on one JavaScript thread. A handler runs without interruption
up to its next `await`; whatever happens there (another call of the host, an
answer, a timeout, a transport that closes) happens before the handler goes on.
Nearly every hard question about this code is one of *what may have changed
across an await*, and that is what these modules model: **one action is the
code between two awaits.**

## 1. Files

| files | what they are |
|---|---|
| `ConnectionLifecycle`, `GenerationService` | the lifecycle of every connection of a manager; the abstract promise about sessions and operations that it implements |
| `ListenStream`, `CatalogRefresh` | the `subscriptions/listen` stream of one connection; its catalog and automatic refresh |
| `SessionUpkeep`, `Reconcile`, `SessionAdoption`, `ConnectionDefinition` with `DefinitionEdits`, `ConfigEntries` | keepalive, error window, legacy subscriptions; `reconcile()`; a session that is resumed, and how a client closes; what options and config entries become (section 6) |
| `CredentialFile`, `AuthorizationRound`, `OAuthCredentials`, `EnterpriseAuth`, `AuthProbe`; `Credentials` puts them side by side | the OAuth client (section 7) |
| `Hub`, `HubRoutes`, `Gateway` | hubs, the names they expose, the gateway composed with the hub manager (section 8) |
| `Checks`, `ServedCapabilities`, `Composition`, `Admission`, `ServerRuntime`, `RequestPipeline` | servers: what an authorization check says, what is served and to whom, how a definition is put together, who may call it, what its hooks open, how requests are let in (section 8) |
| `ResourceFileSync`, `ConfigWatch`, `TaskPolling`, `ProjectedServer`; `Followers` puts them side by side | what follows something that changes (section 9) |
| `MCConnectionLifecycle`, `MCConnection`, `MCSession`, `MCCatalogRefresh`, `MCServing`, `MCSettles` | instances for TLC: values, symmetry, and the properties of a run as conjunctions of named properties of its modules |
| `ConnectionLifecycleProofs`, `ConnectionOrderProofs`, `ConnectionClientProofs`, `ListenStreamProofs`, `SessionProofs`, `FollowersProofs`, `CredentialsProofs`, `ServingProofs` | theorems checked by TLAPS (section 12): about `ConnectionLifecycle` (the first three); `ListenStream`; `SessionUpkeep`, `SessionAdoption`, `Reconcile` and `DefinitionEdits`; `CatalogRefresh`, and `Followers` with its four parts; `Credentials` with its five parts; `Hub` with `Gateway`, `RequestPipeline`, `ServerRuntime` and `Admission` |
| `*.cfg` | one instance per question (section 10) |
| `PROJECT.json` | components, runs, mutants, the map from definitions to lines, findings, hazards, theorems |

Most parts of the system share nothing but the manager's interface, so an MC
module puts several modules side by side: a variable `part` says which of them a behaviour is
about, the variables of the others stay as they began, and a property of the run is about the
part it names. It EXTENDS the modules that theorems are about, so that the property a run checks is the very
definition that is proved, and instantiates the others; names in a module that is extended beside others
tell of what they are (`UpkeepInit`, `RuntimeNext`). Nothing is claimed about two parts moving together, except where one module is
composed with another: `Gateway` EXTENDS `Hub`, and `Admission` and `Composition` both EXTEND `ServedCapabilities`. What a theorem is about
stands in modules without recursion: a definition that needs it (`Checks`) comes in as the value of a CONSTANT operator (`Says`).

## 2. Inventory

Each row: the state a component keeps, what drives it, and what makes it
correct. Status: M modelled, P partly, - not (section 13 says what is missing and why).

| component | state | operations and interactions | hard part, and what must be right | |
|---|---|---|---|---|
| Connection lifecycle, `client/manager.ts` | `#entries`, `ManagedConnection` (phase, definition, session, generation, pending authorization, pending cleanup, connect / disconnect / remove / replace tasks, reconnect timer and counter), `#closed`, `#generationSequence` | `register`, `connect`, `disconnect`, `remove`, `replace`, `reconcile`, `completeAuthorization`, `withClient`, `refreshCatalog`, `close`; `onclose` of a transport; timers | tasks that join, queue behind and cancel each other. No leaked client, no operation cut off by a deliberate close, no unwanted reconnect, every task settles; a diff reports what landed | P |
| Listen stream, `manager.ts` 2530-2760 | subscribed URIs, the stream in use, the SDK's own stream, watch state with retry timer, the `#relisten` chain | `subscribeResource`, `unsubscribeResource`, `#repairListen`, a remote drop, the retry timer | at most one stream, never an unwatched one, no confirmed subscription lost, a dropped stream re-opened | P |
| Catalog discovery and automatic refresh, `manager.ts` 1686-1846, 2354-2408; `client/catalog.ts` | catalog, revision, pending refresh, budget of refreshes per generation | `refreshCatalog`, list-changed notifications | a late refresh never overwrites a newer catalog; one refresh follows any burst of changes; the budget holds | P |
| Keepalive, `manager.ts` 2440-2530 | probe timer, consecutive failures | a timer, `ping` | a chain of probes that never breaks; a verdict only against the current session | M |
| Diagnostics and error window | bounded diagnostics, the error scope of an attempt | `#watchErrors`, `#reportError`, `setLogLevel` | an error published once, in the attempt that raised it | P |
| Connection definitions and transports, `client/connection.ts` | one-shot resume record | construction of transports, fingerprints, `ownServerSide` | a resume record is adopted once; equal fingerprints mean equal connections | P |
| Hub, `hub/hub.ts` | hubs and their members | manager events, `refreshCatalog`, `update`, routed calls | listeners that change hubs while hubs are walked; an answer assembled from members that moved meanwhile; routes are reversible | P |
| Gateway, `gateway/gateway.ts` | projections by topology key, instances, runs | hub events, `instantiate`, `#reconcile` | what is listed and forwarded is the present topology | P |
| OAuth client provider, `client/oauth.ts` | stored tokens, callback state, epoch, refresh in flight, issuer index | `tokens`, `saveTokens`, `invalidateCredentials`, `verifyCallbackState` | an invalidated set stays gone; a callback is consumed once | P |
| OAuth flows, `client/oauth-flows.ts` | tokens of the IdP; nothing, for a probe | `enterpriseManagedAuth`, `authorizeEnterpriseIdp`, `probeServerAuth` | concurrent renewals with rotating refresh tokens; redirects and deadlines | P |
| Credential file and loopback callback, `node/oauth.ts` | entries in memory, write chain; a pending callback | `get`, `set`, `delete`; a request, a timeout, `close` | memory and disk agree after a failure or a crash; one settlement | M |
| Resource file synchronisation, `node/resources.ts` | run in flight, follow-up, generation | `resource.updated`, lifecycle events, `stop` | the file follows the last update; nothing is written after `stop` | P |
| Config watch and parsing, `node/config.ts`, `node/command.ts` | digests, timers, queue | file events, polling, `close`; reading an entry | no edit missed, delivered in order; an edited entry is told from an untouched one | P |
| Tasks, `client/tasks.ts` | none of its own | poll loop | terminates; the caller's abort wins | M |
| HTTP serving, lifespan, runtimes, `node/serve.ts`, `authoring/*` | open servers, cleanups | `serve`, `close`, setup | a failing step does not skip the cleanups behind it | P |
| Verifiers and gate, `auth/*` | introspection cache | verify | bounded; answers out of order | P |
| Middleware and handler decorators, `authoring/middleware.ts` | token buckets | each call | numeric edges | P |
| Authorization, visibility and transforms, `authoring/*` | none | pure | a restriction survives what is derived from its capability | P |
| Capability definitions and builders | none | construction | duplicates are refused on the right key | P |
| Providers, `providers/*` | debounce timer | catalog events, `materialize` | a handler never reaches another upstream than its own; clients list again | P |
| Discovery; contracts, explanations and skills; helpers | none | pure functions | - | - |

How they interact: the manager emits events (`connection.*`, `resource.updated`)
synchronously from `#transition` and its handlers; hubs, gateway, providers and file
synchronisation listen. Hubs and providers call back through `withClient`
with the generation and catalog fingerprint they projected, and the manager
refuses a call whose generation is gone. OAuth providers are called by the SDK
during `client.connect`. So the manager's generation discipline is the one
thing everything else stands on: `Hub`, `ProjectedServer`, `ResourceFileSync` and `Reconcile` take
as given what `ConnectionLifecycle` shows, a session that comes up under a new generation.

## 3. ConnectionLifecycle

### State

| variable | code |
|---|---|
| `registry` | `#entries`: id -> entry (`None`: free) |
| `entry[e]` | a `ManagedConnection`, below |
| `op` | `withClient` calls in flight, `activeOperations` of their entry; a refresh is one of them |
| `auth` | `completeAuthorization` calls of a parked connection, between their awaits |
| `closed`, `seq` | `#closed`, `#generationSequence` |
| `attempts`, `live` | the clients made so far (each named by its attempt) and those still open: ghosts, so that a leak can be stated |
| `gone` | ghost: open clients whose session the server has answered 404 for |

Within an entry: `session`, `pending`, `cleanup` are the clients in
`active`, `pendingAuthorization` and `pendingCleanup`; `connect`, `disconnect` and
`swap` tell at which await the corresponding task is suspended (`"none"`: no
task); `removing` is `removeTask`; `onConnect` and `onDisconnect` are the
continuations registered on the connect and disconnect task, in order;
`ready` is what a settled task has released. `tries`, `timer` and `streak`
are the reconnect state; `verdict` says the era of the upstream is known from
an earlier connect, which is when `#performConnect` awaits `#repairListen`.

Continuations released by a settled promise are microtasks. They run in the
order in which they were registered and before the event loop takes a timer
or I/O event: actions of the environment carry the guard `Quiet`. Calls of the
host are not held back, because hosts call from microtasks of their own.

### Actions

| action | code (`manager.ts`) |
|---|---|
| `Register`, `Connect`, `Disconnect`, `Remove`, `Replace`, `Close` | the public methods up to their first await |
| `ConnectDrained`, `OpenFails`, `ConnectRejected`, `ConnectUnauthorized`, `ConnectSucceeds`, `ListenRepaired`, `ConnectCleaned`, `ConnectCleanupFails` | the parts of `#performConnect` |
| `DisconnectAfterConnect`, `ReleaseDone`, `QuarantineCleaned`, `Drained`, `DrainedDead`, `CloseDone`, `CloseFails` | the parts of `#performDisconnect` |
| `SwapContinues`, `RemoveAfterDisconnect`, `QueuedConnect`, `RetryAfterFailure` | what waits for a settled task in `#performReplace`, `#performRemove`, `connect` and the reconnect timer |
| `ReconnectFires`, `SessionLost`, `TimePasses` | the timer of `#scheduleReconnect`; `#handleUnexpectedClose`, also on a keepalive verdict; `resetAfterMs` going by |
| `OpStart`, `OpReturns`, `OpExpires` | `withClient`, `#inspectOperationFailure` |
| `OpRefreshCommits`, `OpRefreshFails`, `RefreshExpires` | `#performRefresh` with `#assertRefreshAuthority` |
| `CompleteAuth`, `AuthVerified`, `AuthExchanged`, `AuthSettles` | `completeAuthorization` |

`Transition`, `Rescheduled`, `Lost`, `Connected`, `Draining`,
`Adopted`, `Swapped`, ... are the helpers of the code (`#transition`,
`#scheduleReconnect`, ...), functions from record to record, so that an action
which calls three of them is their composition. An operator with a suffix
(`Connected_Twice`) is a plausible mistake in the operator before it; each
property is refuted by one of these, and `PROJECT.json` lists which.

### Properties

* `DrainBeforeClose`, `CatalogBelongs`, `ParkedCanComplete` - safety, each stated at its
  definition with the hazard it is about.
* `ClientsAccounted` is `UsableHoldsClient /\ NoOrphanClient`: every
  client there is is held by exactly one thing that can close it. `EntriesSound` is
  `RemovedIsDead /\ TimerOnlyAfterFailure /\ GenerationsUnique`.
* `ImplementsService` - refinement. `GenerationService` says what a
  manager promises and nothing of how: a session comes up under a generation
  greater than all before, operations start only on a session that is up, it
  may break under them, but one taken down on purpose is closed only when they
  are over. The mapping reads the state of a session off `session` and
  `phase`, and an operation's generation off `op`.
* `TasksSettle` (in `MCConnectionLifecycle`: `[]NoOrphanClient /\ ConnectSettles /\ DisconnectSettles /\ SwapAndRemovalSettle`),
  `RetryContinues`, `CloseStops` - liveness.
* `UsableHoldsClient`, where a connect awaits the repair of its stream, and
  `SessionMatchesDefinition` are refuted; `ReconnectOnlyFromOnline` and
  `ExpiryEndsGeneration` are false too, and not among the runs (section 11).

### Fairness

`Fairness` gives weak fairness to the runtime (continuations run), to the
steps of a connect (every request has an answer or a deadline), of a close,
to the reconnect timer, and to the end of an
operation: requests carry timeouts, and an operation that never ends does
block a graceful drain, by design. A close is bounded by `disconnectTimeoutMs` where a definition has
one (`#bounded`, 2202, 2925, 2967). The option may be left out, and then a transport whose close never ends holds up its disconnect
for ever: of such definitions the fairness of `Closing` assumes more than the code enforces, and `TasksSettle` and `CloseStops` hold
only of transports that close. Nothing is assumed of the host
(no call is ever required), and nothing of failure: an attempt may be refused
for ever, a session may be lost or may last.

## 4. ListenStream

The connection itself is reduced to what the stream depends on: a session comes
up, is lost, or is taken down. `conn` is the entry (session, phase, disconnect
task, `subscribedUris`, `listenSubscription` = `listen`, the SDK's
own stream = `auto`, `ListenWatchState` = `watch`); `turns` is the
promise chain of `#relisten`, the running turn first; `call` the subscribe and
unsubscribe calls; `stream` says of every stream whether it is open, of which
session and for which URIs; `promised` is a ghost: URIs whose `subscribeResource`
has returned in this session.

`Relisten` with `TurnEnds` is `#relisten`, `Begun`, `ListenOpens`, `ListenFails` and
`CloseConfirmed` are the parts of `#applyListenFilter`, `Watching` is
`#watchListen`, `Dropped` its reaction to a drop, `Scheduled` and
`TimerFires` are `#scheduleRelisten`, `RolledBack` is the catch of
`subscribeResource`, `Repaired` the end of `#repairListen` with the rest of
`#performConnect`. Properties: `StreamInUse` (`TypeOK /\ OneStream /\ InUseIsWatched`),
`PromiseKept`, for calls that have a URI each (`OwnUris`; with a shared one it is lost, section 11); `CallsReturn` (in `MCSettles`: `CallsSettle /\ ConnectEnds`); `DropAnswered` is the
documentation's, and is refuted.

Fairness: turns advance (a request has a timeout), a disconnect advances, the
retry timer fires. Drops, losses and calls are never required.

## 5. CatalogRefresh

Here, too, the connection is reduced: it comes up with a session and an empty
catalog, and goes down. `conn` is the entry (session, phase, `catalog`, and `AutoRefreshState`:
`count`, `timer`, `inFlight`, `pending`, `capped`); `flight` the refreshes between
their awaits, those of the host (`Calls`) and the automatic one (`Automatic`); `upstream`
how often each section has changed at the server; `told` the sections whose
change is announced and not delivered. `spent` is a ghost that counts the
automatic refreshes of a session that were not given back.

| action | code (`manager.ts`) |
|---|---|
| `RefreshCatalog`, `TimerFires` | `refreshCatalog`, called by the host and by the timer |
| `Answer` | the rest of `discoverSection` for one section: the list, the old list as `stale`, or `failed`; the sections are listed concurrently |
| `Commits`, `Refused`, `Exceeds`, `Aborts` | the ends of `#performRefresh`: commit, `#assertRefreshAuthority` says no, a bound of `assertCatalogBounds`, the signal of the host |
| `Notified` | the handler of a list-changed notification: `#scheduleAutoRefresh` (`Scheduled`) |
| `Connect`, `Down` | `#performConnect`; a loss or a drain, with `#cancelAutoRefresh` (`NoAuto`) |
| `Change` | the server: a list changes and is announced, or only announced |

`Settled` is the promise chain of an automatic refresh: `.catch` gives back an attempt that
`refreshWasAttempted` denies, `.finally` schedules the follow-up. Instead of the revision
number a refresh captures, it keeps whether that revision is still `current`;
a commit clears the flag of all others (`Fenced`). The minimum interval and the debounce
of notifications have no length: the timer may fire at any time.

Properties: `OneRefresh` (`TypeOK /\ SingleFlight`), `BudgetHolds`,
`CatalogAdvances`, `ChangesFollowed`; `CapPublishesStale` is the documentation's, and does not hold. `ChangesFollowed` is stated for times at
which the host makes no refresh of its own, because otherwise it does not hold
(section 11, last item).

Fairness: announcements arrive, timers fire, list requests end. Changes, losses and calls of the host
are never required.

## 6. Around a session

`SessionUpkeep` is what the manager keeps up for one legacy session (`manager.ts`). `phase`, `session`,
`leaving` and `made` are the lifecycle it depends on (`ConnectStarts`, `Adopt`, `ConnectFails`, `TransportCloses`,
`DisconnectAsked`, `Drain`, `CloseDone`, `CloseFails`). Three things hang on it:

* keepalive: `keepalive` is the session whose `KeepaliveState` the entry holds, `probe` the state of
  each session's (a superseded one may still have a probe flying); `ProbeFires`, `ProbeAnswered`
  and `ProbeFails` are `#startKeepalive`'s closures, `Lose` is a verdict. `ChainUnbroken`: on a session that is up a probe is
  always due or flying.
* errors: `scope` is `entry.errorScope`, `watch` the scope a transport's handlers point at (a custom transport
  may be used again), `seen` and `published` what was recorded; `TransportRaises`, `ClientRaises`
  are `#watchErrors` with `#reportError`. `ReportedOnce`: an error is published once, in the attempt that raised it.
  `ProbesGoOn` is both, typed.
* claims: `subs` and `level` are what the snapshot says, `served` what the server of each session has
  taken; `Ask`, `ServerTakes`, `Answered`, `Fails` are the legacy branches of
  `subscribeResource` and `unsubscribeResource`, and `setLogLevel`. `SubscriptionsServed`: a URI shown as subscribed is held by
  the server of this very session, unless an unsubscribe of it has been taken and not answered, or its answer was lost (`unsure`).

`Reconcile` is `reconcile()` over `remove()` and `replace()`, called by several hosts, while connections
come up, fail and park. `entry` is the registry, `diff` the state of each reconcile: the ids it has still to
drop and to apply, where the one at hand is suspended (`stage`), and the diff so far. `Begin`
computes the diff, `Remove` and `Apply` take the next id, `RemoveLands` / `RemoveFails` end the removals
that joined one task, `Replace`, `Settle`, `SwapCloses` and `Swap` are the parts of `#performReplace`; `HostConnects` and `ConnectSettles` are the rest of
the world: a connect comes up, fails, parks, or fails and is quarantined because its cleanup fails (`stuck`). `Counted` is `isReconnectVerdict` over these.
`DiffIsTrue`: what is counted as added, replaced, unchanged or removed is so at that moment (`CountedAsLanded`);
the swap of an id that is counted as failed has not landed, unless the connection is quarantined, another's by now or about to be removed (`LandedIsCounted`);
every id has one verdict at the end, and hosts that want one set, of which nothing failed, leave that set (`SameLeft`).
`FailedIsNotReplaced`, without the exception of quarantined connections, and `RoundsAreKept` are the documentation's, and are refuted (section 11).

`SessionAdoption` has the generations of one definition with a resume record
(`connection.ts` `consumeResume`, `manager.ts` `#performConnect`): `pending` is
the record, `attempt` the attempt at hand (`AttemptBegins`, `Create`, then `Adopts`, `DeclaredGone` or `Unreached`), `begun` how many there
were, `alive` and `spent` whether the server still has the session and whether it was
adopted; then the end of a generation (`CloseBegins`, `ClientEnds`, `ServerEnds`, `CloseSettles`), where `close` and `closing` are the shared tasks of
`McpClientSession.close` and `ownServerSide`. `ResumesOnce`: adopted once and not lost to a failed attempt, by a client that does not enforce what it
never learned (`AdoptedOnce`); each side of a transport closed once, and nobody told so before the server side is (`OwnedOnce`). `EnforcesAgain` is the documentation's, and does not hold (section 11).

`ConnectionDefinition` and `ConfigEntries` are pure. The first has the options a definition is made of,
what its constructors refuse (`Refused`), what it amounts to (`Definition`), and the `Fingerprint`; the second
has substitution, `parseCommandLine`, the transport and namespace of an entry and its
`Digest`. `DefinitionEdits` holds options and the edits of them that a run looks at. Its `WellDefined`, and `ReadAsWritten`, relate an input to its neighbours: two options,
or two entries, that differ in what reaches the connection must differ in their digests, and what is quoted must
come back as it was.

## 7. Credentials

| module | state and code | properties |
|---|---|---|
| `CredentialFile` | `FileKeyValueStore` (`node/oauth.ts`): `disk`, `memory` (`#entries` and whether the load promise exists), `chain` (`#writes`), `call`. `Mutate`, `Apply`, `WriteTemporary`, `Rename`, `Succeed`, `Fail` are the steps of a chained write, `Load` the first read, `Crash` the end of the process at any point | `FileDurable`: an acknowledged mutation is on disk, unless the file was unreadable when it was loaded; `MutationsSettle` |
| `AuthorizationRound` | `state`, `verifyCallbackState`, `matchesIssuedState` (`client/oauth.ts`) and `loopbackOAuthCallback` (`node/oauth.ts`): `stored` (state and PKCE verifier), `endpoint`, `request` (what each request to it waits for), `completing`. `Denial` is the error branch of `handleCallback`, which does not ask `accept`. Rounds and completions go on whether or not an endpoint is open; one endpoint is open at a time, for a provider's redirects go to one `redirect_uri` | `CallbackIsOwn`: with `accept`, a wait that ends with a callback ends with one of this provider's rounds, whose state had not been verified when it was accepted; nor had the one a completion reads to compare with. `EndpointStops`. That a stray request never ends a wait, that a wait never ends with a round which has been completed, and that a state is verified once are false (section 11) |
| `OAuthCredentials` | one provider's token sets by issuer (`client/oauth.ts`): `store` (pointer, index, tokens, clients), `epoch`, `flight` (`#refreshing`), `saving` (the four accesses of `saveTokens`), `purge` (`invalidateCredentials`), `reader` (`tokens()`). Each access of the store is a step | `InvalidatedGone`: who has credentials is in the index, and an invalidated set does not come back with a refresh that began before; `ReadsReturn` |
| `EnterpriseAuth` | `enterpriseManagedAuth` and `authorizeEnterpriseIdp` (`client/oauth-flows.ts`): `current`, `assertion` (where each call is suspended), `idp` (tokens numbered as issued; it may rotate or revoke refresh tokens), `kept` (the host's store), `sign` | `SessionKept`: no ID token is presented that was about to expire when its call asked (when the host does not reload), the refresh token is not lost, a sign-in ends with its own round's token |
| `AuthProbe` | `probeServerAuth`, `suggestAuth` (`client/oauth-flows.ts`): `at` (the await), `hop`, `answer`, `resource`, `metadata`, `late`; the ghost `sent` has each request with where it goes | `SuggestionSound`: what is suggested is what the server asked for; a POST or GET stays in the origin, the metadata of the resource is asked for there or where the challenge points if `metadataUrlAllowed` lets it, that of the authorization server there or wherever the resource names one; a probe ends |

Fairness: a file operation ends; a page is written, an endpoint's timer fires and its sockets close; the
store answers and a token request is answered or times out; a probe's deadline passes, and what it raced is then
rejected (the code races every request against it because a `fetch` may ignore its signal). Nothing is assumed of
hosts, users or of any answer.

## 8. Serving

`Hub` is the hub manager (`hub.ts`) over connections reduced to what it reads of them: registered, generation,
usable, catalog. `hub` is `#hubs`, `walk` the loop of `#onConnectionEvent`, `refresh` the
`refreshCatalog` of a hub in flight, `heard` the event of the step. `Opens`, `Lost`, `Committed`, `Gone` are
the manager's events; `Visit` is one turn of the walk; `Register`, `Update`, `Remove` may be called by a
listener inside a walk; `RefreshCatalog`, `MemberRefreshed`, `MemberRejects`, `RefreshEnds` are the refresh of a
whole hub with its fences. `HubMembersKnown`: between walks every member is a registered connection.
`AnswerIsOneTopology`, an action property: a refresh that answers
does so for the membership it began with, whose sessions were not replaced meanwhile.

`Gateway` EXTENDS it with `gateway.ts`: `cached` is `#projection`, `routes` the index handlers forward by, `inst` the
instances with what is installed on them, `runs` the calls of `#notifyDownstream`, which are not awaited and may overlap. The constant
`Builds` says of which topologies a definition can be made: `#build` throws for the others (a name twice, a URI twice), before it replaces the routes. `Project` is
`#project`, `ProjectFor` `#projectFor`, `Announce` the listener of `start()`: what it throws is swallowed by `#publish` of the hub, and projection, routes and instances stay as they
were (`Unbuilt`). `Instantiate`, `Materialized`, `Connected`, `Closed` are the life of an instance; `ReconcileStarts`, `Reconciles`,
`ReconcileFails`, `RunThrows`, `RunEnds` a run; `Call` a forwarded call, `fenced` but for a resource template, which the hub answers by what it exposes now (`Reads`).
`DownstreamCurrent`: while the gateway watches, its routes are those of the projection in hand, and that is the one of the
present topology if a definition can be made of it (`RoutesCurrent`); an instance that a run reconciled alone lists the names of that
projection at its versions (`InLine`; not always its tools, see `ListsProjection` in section 11); a call is delivered only to a tool the hub exposes on a usable session, and a fenced one only to the generation,
catalog and tool its route was projected from. `AlwaysRebuilt` and `AlwaysFenced`, without these exceptions, are the documentation's, and are refuted. An instance that a
topology change misses, and two runs that overlap, are in section 11.

`HubRoutes` is pure: filters, renames, exposed names, `routeTo` and its resolution, the names and URIs a gateway projects.
`NamesAreSound`: a listed route resolves to the member and tool it was listed for, projected names are unique,
a denied URI is not read through a template.

`Checks` is pure, too: the built-in checks and `allOf` / `anyOf`, trees that `Verdict` evaluates. `ServedCapabilities` has what the others share: keys,
visibility rules, and `EvaluateAuth` and `Enforce` over whatever a check `Says`. `Composition` is what is made of capabilities: `prefixNames`, `restrictTag`, URI namespaces,
`transformTools`, `mount`. A capability carries its history (`origin`, `asked`), against which `ComposedSoundly` is stated: a restriction
survives any derivation, what a child hides its parent does not offer, a namespaced URI is read under its own. `Admission`
is `McpServerDefinition.admit` and the `authorize()` middleware, with each check an await: `server` is one that is being
built for a principal (`left` and `admitted` are positions in what it offers), `invocation` a call on it, `authority` what the host's checks say, which may change. `AdmissionHolds`: a delivered
call passed the auth of its capability at some time since it was made, an anonymous one reaches nothing that denies it,
and a server is not built from a provider that failed.

`ServerRuntime` is a serving entry (`serveWithLifespan` around `serveMcpHttp`: `StartLifespan`, `Serve`, `StopAfterFailure`, `CloseEntry`, `ServerCloses`,
`McpCloses`, `EntryStops`) and the servers it materializes (`runtime`; `Materialize`, `Admitted`, `InstallFails`, `SetUp`, `Undo`, `Discard`, `CloseRuntime`,
`RuntimeServerCloses`, `ChildCleansUp`, `ParentCleansUp`), each of whose awaits may fail, those that clean up included. `thrown` is what has failed of a materialization,
`error` what it rejects with: an error on the way out joins the one before it (`Fails`) or takes its place (`FailsFor`). `Released`: what a hook opened is cleaned up once and
in order whichever steps fail, the lifespan is stopped once and before any `close()` is answered, every failure of the entry is reported, and of a
materialization each but the child's when the parent's cleanup fails after it. `EveryFailureReported`, without that exception, is refuted.

`RequestPipeline` is a request on its way in: `introspectionVerifier` with its cache, the gate's check of expiry, the token bucket (`Arrive`,
`Introspect`, `Answered` or `Unavailable`, `Invoke`), beside a clock (`Tick`) and an authorization server that may `Revoke`. `AdmissionBounded`: a revoked token is honoured no longer than the cache and an answer's latency explain,
whatever order answers arrive in; the cache keeps to its limit; a principal gets no more than capacity and refill.

## 9. Followers

| module | state and code | properties |
|---|---|---|
| `ResourceFileSync` | `syncResourceToFile` (`node/resources.ts`): `run` (`inFlight`), `pending` (the coalesced follow-up), `generation`, `lastError`, `resub`, `stage`, `caller`, `again` (a later `stop()`, `StopAgain`); `version`, `session`, `note` are the manager. A write is the rename. A run (`RunFails`) and a renewal of the subscription (`ResubscribeFails`) may fail on a session that is up; neither is tried again | `CopiesFollow`: a file that is followed ends at the last version, unless the last failure is told (`lastError`) or the renewal of this generation was refused; `StopIsFinal`: an answered `sync()` read no earlier than it was called, no read begins after the first `stop()` (`NothingBegins`), and when that one has resolved nothing is written and no subscription is left. A later `stop()` resolves at once: `EveryStopIsFinal` is refuted |
| `ConfigWatch` | `watchMcpConfigs` (`node/config.ts`) for one file and its directory: `handle` (the live watcher, bound to the directory it was opened on), `poll`, `timer`, `queue` (chained emits), `digest`, `told` | `WatchFollows`: the watch ends at what the file holds, through edits, deletions and replaced directories; each delivery is newer than the last; silent when closed |
| `TaskPolling` | `waitForTask`, `callToolViaTask` (`client/tasks.ts`): `wait` (the await), `answer` (what the server has read for the request in flight), `signal`; `task` at the server | `CallsReturn`: a wait for a task that is over ends, an aborted one at once; `StopIsFinal`: with the caller's reason |
| `ProjectedServer` | `connectionProvider`, `notifyOnCatalogChange` (`providers/`): `bridge` (timer, notification under way), `client` (what a downstream client has listed), `invoked` (a handler's call and the control it was resolved from) | `CopiesFollow`: once the upstream rests, clients list its catalog; `StopIsFinal`: no notification after an unsubscribe, a handler reaches only what it was projected from |

`Followers` has their variables, constants and fairness; where two of them, or `CatalogRefresh`, have one name, it gives a new one: `missed` and `delivered` are
`gap` and `told` of `ConfigWatch`, `behind` is `upstream` of `ProjectedServer`, `MaxOnline` the `MaxSessions` of `ResourceFileSync`. `NewerEveryTime`, which `WatchFollows`
contains, is the action property: onChange is called with a newer content every time.

Fairness: events are delivered, timers fire, reads and requests end, the poll ticks, and the manager reconnects
(for `ResourceFileSync`, whose promise is about a connection that comes back). Edits, losses, `stop`, `close`, callers and
aborts are never required. A task that never ends, and a server that never
answers a request without a signal, are waited for: `TaskFairness` asks the server to answer.

## 10. Runs

| run | instance | what it shows |
|---|---|---|
| `core_safety` | one id, two entries (an id is removed and registered again), two definitions of which one reconnects and the other parks in an authorization, two operations, three attempts | `TypeOK`, `DrainBeforeClose`, `CatalogBelongs`, `ClientsAccounted`, `EntriesSound` and the refinement `ImplementsService` |
| `connection` | lifecycle: an interactive definition, two concurrent `completeAuthorization`, one operation. Definitions: several thousand combinations of the options that act on each other, each beside its neighbours. Config: command lines of up to three tokens, ids of up to three characters, two entries per file, every edit of one field. Adoption: three attempts, two callers of `close`. Pipeline: three requests, two tokens, five ticks | `ParkedCanComplete`, `WellDefined`, `ReadAsWritten`, `ResumesOnce`, `AdmissionBounded` |
| `session` | two callers with a URI each on one listen stream, two sessions; legacy claims with two overlapping calls; probes and errors with two transports and three attempts; two hosts that reconcile two ids | `StreamInUse`, `PromiseKept`, `ProbesGoOn`, `SubscriptionsServed`, `DiffIsTrue` |
| `refresh` | two sections, one refresh of the host beside the automatic one, a budget of two, one change and any number of announcements, two sessions | `OneRefresh`, `BudgetHolds`, `CatalogAdvances`, `ChangesFollowed` |
| `credentials` | two keys and writers; two requests at an endpoint that is opened again and again, two rounds, one completion at a time; two issuers, one round and one reader of tokens; two assertions over three ID tokens, two sign-ins; every answer of a probed server that the code tells apart | `FileDurable`, `CallbackIsOwn`, `InvalidatedGone`, `SessionKept`, `SuggestionSound`, `CredentialsSettle` |
| `serving` | two hubs over two connections; a gateway over one of each, one instance, two runs, two contents of a catalog of which one makes no definition; two materializations and two callers of `close`; one server built and called under 112 definitions; members and catalogs of up to two items; every derivation by two mounts and two restrictions | `HubMembersKnown`, `AnswerIsOneTopology`, `DownstreamCurrent`, `NamesAreSound`, `ComposedSoundly`, `AdmissionHolds`, `Released` |
| `core_settles` | one entry, two definitions: one reconnects, repairs its stream in a connect and has `resetAfterMs`, the other is interactive; one operation, three attempts, two retries | `TasksSettle`, `RetryContinues`, `CloseStops` |
| `settles` | one caller of a listen stream; a synced file with three versions, two sessions and two callers of `sync()` beside the updates; a watched file with three contents and two directories; one task; two generations of a projected server | `StopIsFinal`, `CallsReturn`, `CopiesFollow`, `WatchFollows` |
| `listen_race`, `swap_race`, `drop_retry`, `swap_cancels_round` | the smallest instance each | a counterexample to one sentence of the documentation (section 11) |

Bounds, and why they are enough:

* `MaxAttempts` (guard `Room`): attempts after which the host calls connect,
  replace and completeAuthorization no more, the reconnect timer does not fire and
  no session is lost by itself. Deliberate shutdown stays possible. Three
  attempts give a session, the one that succeeds it, and one that is in flight
  or parked while the second is taken down; no guard of the code looks further back
  than the session before the current one. `gen` and `seq` are bounded by it.
* `MaxTries` is `reconnect.maxAttempts`: with 1 the counter meets its limit and is
  reset within three attempts. `core_settles` has 2, so that a retry which fails is due
  another one; a timer that is armed counts as going on, whether or not `Room` lets it fire.
* two `Entries` and one `Ids`: entries share only the generation counter, the
  registry and `closed`; two entries of one id are the interesting case (an old entry
  whose continuations still run beside its successor). `MaxConnections` = 1: the limit is met, and freed by a removal.
* two `Ops`: two refreshes that overlap, or a refresh and a call that expires.
* `MaxSessions` = 2 throughout, and `MaxOnline` (three for probes, where a probe may be two sessions old): what began in
  one session ends in the next. `Streams` of ListenStream are names: at most two streams are open
  at once and two more are still referred to by a turn; a closed one that
  nobody refers to may be used again (`Spare`).
* `MaxRefreshes` = 2 in CatalogRefresh is `maxRefreshesPerGeneration`: a refresh and its follow-up,
  then the limit. `MaxChanges` = 1: a list before and after a change; announcements
  may repeat without one, so a burst is not bounded.
* `MaxEntries` = 3 and `MaxHostConnects` = 1 in Reconcile: an id is removed and added again under a reconcile in flight, and a
  connect that is not the reconcile's own meets each of its awaits.
* `MaxRounds` = 2, `MaxTokens` = 2: a round and the one that overtakes it, a token set and the one that replaces it; three ID tokens let
  one call renew what another has just put back.
* `Gateway`: `MaxGenerations` = 2, `MaxUpdates` = 2, `MaxRuns` = 2: a run that is overtaken by a second. `OneOfEach` and `HubsAlone` in
  MCServing say which of its steps the run takes: a hub over two connections without a gateway, a gateway over one of each. The content
  `l2`, which makes no definition (`Distinctly`), is met by the gateway only, and in the first generation, so that a projection in hand is kept
  over it and built anew after it. Two runs of the gateway overlap over what sessions and catalogs announce, a hub that is updated once more has one. The theorems have no such restriction, and `Builds` is any operator there.
* `ClaimsAlone` and `ProbesAlone` in MCSession split SessionUpkeep in two, claims with two sessions and probes with errors with three attempts; the
  theorems are about both at once.
* `MaxVersions` = 3: the content read, the one that overtakes it, one more that comes while that is written.
  `MaxGap` = 0: with 1 the follow properties fail (section 11).
* `MaxClock` = 4 with `CacheTtl` 2 and `NegativeTtl` 1: entries expire and are asked for again; `MaxEntries` = 1 forces evictions.
* `CHECK_DEADLOCK FALSE` throughout: with the bounds reached and nobody calling,
  a manager, a hub or a store at rest is a legal end.

Symmetry (`Twins`) permutes entries, operations, callers, requests, tokens, hubs or connections that a module
never tells apart; in `session` a caller goes with its own URI. It is used in runs of invariants and of
action properties, whose definitions treat them alike, never under liveness (`refresh`, `credentials`, `core_settles`, `settles` have none).

Each property of a passing run is shown to be refutable: an operator with a suffix
(`Connected_Twice`) is a plausible mistake in the operator of that name, and `PROJECT.json` lists which of them break which property.

## 11. Where code and documentation part

Each of these four is a run whose counterexample TLC finds; the quotations are in `PROJECT.json`.

* `listen_race`: a session lost while its connect awaits `#repairListen` is reported
  online, without a session, its scheduled reconnect cancelled.
* `swap_race`: a connect queued behind the disconnect of a replace opens the
  old server, and the swap's own reconnect joins it.
* `drop_retry`: `.catch` schedules the next attempt before `.finally` clears `reopening`,
  so a re-opening that fails is the last.
* `swap_cancels_round`: `#performReplace` refuses a connection that is authorizing before it waits for the
  connect in flight and does not look again; a round that begins meanwhile is abandoned.

These are stated as definitions beside the models and kept out of the runs; adding the name to the cfg shows the
counterexample (`I!P` needs a definition `P == I!P` in the MC module first, with values for its parameters where it has some):

| property, and the cfg | what the code does |
|---|---|
| `ReconnectOnlyFromOnline`, `CoreSafety.cfg` | after a timed-out close the connection is quarantined; if the transport closes later, `#handleUnexpectedClose` fails it and reconnects what the host took down |
| `ExpiryEndsGeneration`, `CoreSafety.cfg` | a 404 inside a catalog refresh is turned into a failed section |
| `EnforcesAgain`, `Connection.cfg` | every generation of a definition that once resumed is lax, not only the one that adopted the session |
| `CapPublishesStale`, `CatalogRefresh.cfg` | a change that comes when the budget is spent, while the last refresh is in flight, marks the connection degraded; the commit of that refresh marks it online again, with the outdated catalog |
| `SubscribeNeverPretends`, `LevelTaken`, `Session.cfg` | a legacy subscribe resolves although its session was replaced; a log level is claimed of a session that was not asked |
| `FreshPresented`, `Credentials.cfg` | with `reloadIdpTokens`, an assertion may present an ID token another call has put back |
| `Round!OneUse`, `Credentials.cfg` with two `Completers` | two overlapping `verifyCallbackState` calls both pass |
| `Round!StrayKeepsListening`, `Round!EndsUnspent` (a property), `Credentials.cfg` | a local request with `?error=` ends the wait, whatever its state; a state stays accepted until the completion that has read it deletes it, so an endpoint opened meanwhile may end with it again |
| `FailedIsNotReplaced` (a property), `Session.cfg` | a swap that landed, whose reconnect fails and is quarantined because its cleanup fails too, is missing from `replaced` |
| `Sync!EveryStopIsFinal`, `Sync!FailureStays`, `Settles.cfg` | a second `stop()` resolves while the run in flight writes; a `sync()` that succeeds clears the error of a renewal that was refused, and no update is heard any more |
| `AlwaysRebuilt`, `AlwaysFenced`, `Serving.cfg` | a topology that makes no definition leaves the old routes in place, and nobody is told; a resource template is read without the fence of its route |
| `EveryFailureReported`, `Serving.cfg` | the failure of the parent's cleanup is thrown instead of what the child has failed with |
| `InvalidatedGone` with two `Authorizers` | the index of issuers loses an entry of two concurrent rounds, and with it what `invalidateCredentials` walks |
| `Names!ResourceNamesUnambiguous`, `Asked!GateDisclosesNothing`, `Composes!UnknownNamesRefused`, `OwnPrincipalAsked`, `Serving.cfg` | two resources of one name refuse a projection; a nested `allOf` discloses what is behind a gate; a transform applied twice overlooks unknown names; `authorize()` asks for the principal of the instance |
| `ListsProjection`, `Serving.cfg` with `Sources = {"x", "y"}` | a rename that exposes another tool of the same catalog under the old name leaves its version as it was, and with it the tool an instance has installed |
| `CopiesFollow`, `WatchFollows` with `MaxGap` = 1 | an update between the first read and the listener, or between the priming and the watcher, is missed |
| `Front!ListEmpties`, `Settles.cfg` | a connection that goes down tells no downstream client that its list is empty |

Found by reading, for the models leave their subject out or take it as it is:
`resetAfterMs` counts from the last success at every retry; `connectAll` with `atomic` also disconnects what
was online before; `ownServerSide` answers a retried close with the first rejection; the definition digest leaves out
`clientOptions` and others; the probe follows two redirects of three; an invalidation that lands inside the save of a refreshed set
is undone (`InvalidatedGone` excepts the sets being saved when it began); a gateway's instance misses a topology change
before it joins, and the older of two overlapping runs may win (`InLine` is about instances that were reached, by a run that was alone); a run that throws
(`RunThrows`: the projection for a legacy instance) rejects a promise nobody awaits, and leaves the instances behind it unvisited; `create()` drops a setup's cleanup; `maxEntries: 0` keeps one entry (and so says `CacheBounded`); a task found in
`input_required` that fails rejects with the server's error. `PROJECT.json` has the lines.

Seen, and held against no sentence of the repository:

* `completeAuthorization` releases whatever is parked on the entry after its awaits
  (980): a stale completion can release the client of a later round, and a client
  then is held by nobody, or takes an entry that was removed up again. With such a completion `NoOrphanClient`,
  `EntriesSound` and `ImplementsService` fail, so they belong to `core_safety`, which has no `Callers`, and not to `connection`;
* a failed subscribe takes back the URI that a second caller has been promised meanwhile (1316): `PromiseKept` holds with
  `OwnUris` only;
* a stream that drops while its re-opening waits for the close of another is not
  re-opened (2714), by the same flag as in `drop_retry`;
* a drop of the old stream during a subscribe makes the call fail as if the session had
  changed (2640);
* an automatic refresh is refused when a refresh of the host has committed first, also if
  that one had read the lists before they changed: its attempt is given back, and the change is not
  followed until the next one is announced (2396).

## 12. What is proved

TLAPS checks these theorems for every value of the constants: any number of ids, entries, definitions,
operations, callers, streams, lists, keys, writers, issuers, hubs, tokens and so on, and every value of the bounds.

| module | theorem | statement | hypothesis |
|---|---|---|---|
| `ConnectionLifecycleProofs` | `InductiveInvariant` | `Spec => []IInv` | |
| | `TypeCorrect` | `Spec => []TypeOK` | |
| | `CatalogAlwaysBelongs` | `Spec => []CatalogBelongs` | |
| | `DrainAlwaysBeforeClose` | `Spec => []DrainBeforeClose` | |
| `ConnectionOrderProofs` | `OrderAlways` | `Spec => [](IInv /\ Order)` | `Callers = {}` |
| | `ServiceImplemented` | `Spec => ImplementsService`, which is `Service!Spec` | `Callers = {}` |
| | `EntriesAlwaysSound` | `Spec => []EntriesSound` | `Callers = {}` |
| | `NoClientOrphaned` | `Spec => []NoOrphanClient` | `Callers = {}` |
| `ConnectionClientProofs` | `AccountedAlways` | `Spec => [](IInv /\ Accounted)` | |
| | `ParkedAlwaysCompletes` | `Spec => []ParkedCanComplete` | |
| | `UsableAlwaysHolds` | `Spec => []UsableHoldsClient` | `RepairsListen = {}` |
| | `ClientsAlwaysAccounted` | `Spec => []ClientsAccounted` | `Callers = {}`, `RepairsListen = {}` |
| `FollowersProofs` | `InvAlways` | `Spec => []IInv` of CatalogRefresh | |
| | `OneRefreshAlways` | `Spec => []OneRefresh` | |
| | `BudgetAlwaysHolds` | `Spec => []BudgetHolds` | |
| | `CatalogAlwaysAdvances` | `Spec => CatalogAdvances`, an action property | |
| | `StopAlwaysFinal` | `FollowersSpec => StopIsFinal`, an invariant and an action property | |
| | `AlwaysNewer` | `FollowersSpec => NewerEveryTime`, an action property | |
| `ListenStreamProofs` | `InvAlways` | `Spec => []IInv` | |
| | `StreamAlwaysInUse` | `Spec => []StreamInUse` | |
| | `PromiseAlwaysKept` | `Spec => []PromiseKept` | `OwnUris` |
| `CredentialsProofs` | `FileInvAlways` | `Spec => []FileInv` of CredentialFile | |
| | `FileAlwaysDurable`, `CredentialsDurable` | `Spec => []FileDurable`, of CredentialFile and of all five parts | |
| | `CallbackAlwaysOwn` | `CredentialsSpec => CallbackIsOwn`, an invariant and an action property | |
| | `InvalidatedAlwaysGone` | `CredentialsSpec => []InvalidatedGone` | one of `Authorizers` |
| | `SessionAlwaysKept` | `CredentialsSpec => []SessionKept` | |
| | `SuggestionAlwaysSound` | `CredentialsSpec => []SuggestionSound` | |
| `SessionProofs` | `UpkeepInvAlways` | `UpkeepSpec => []UpkeepInv` | |
| | `ProbesAlwaysGoOn` | `UpkeepSpec => []ProbesGoOn` | |
| | `SubscriptionsAlwaysServed` | `UpkeepSpec => []SubscriptionsServed` | |
| | `SessionAlwaysResumesOnce` | `AdoptionSpec => []ResumesOnce` | |
| | `DiffAlwaysTrue` | `ReconcileSpec => DiffIsTrue`, an invariant and an action property | |
| | `OptionsAlwaysTold` | `WellDefined`, of any options and any edits of them | both are options |
| `ServingProofs` | `GatewayInvAlways` | `GatewaySpec => []GatewayInv` | |
| | `MembersAlwaysKnown` | `GatewaySpec => []HubMembersKnown` | |
| | `AnswersAreOneTopology` | `GatewaySpec => AnswerIsOneTopology`, an action property | |
| | `DownstreamAlwaysCurrent` | `GatewaySpec => []DownstreamCurrent` | |
| | `AdmissionAlwaysBounded` | `PipelineSpec => []AdmissionBounded` | |
| | `AlwaysReleased` | `RuntimeSpec => []Released` | |
| | `AdmissionAlwaysHolds` | `AdmissionSpec => []AdmissionHolds` | |

The assumptions are those on the constants that each module declares (`ConstantsAssumption`, `StoreAssumption`,
`CredentialsAssumption` with `VerdictAssumption`, `UpkeepAssumption`, `AdoptionAssumption`, `HubAssumption` with `GatewayAssumption`,
`PipelineAssumption`, `AdmissionAssumption`, `ReconcileAssumption`, `FollowersAssumption`): policies are about definitions; `None` and its like are no id, token, list or record; a definition
exposes tools that there are; a threshold, a capacity and the cost of a call are not 0; bounds and lifetimes are natural numbers. TLC evaluates
each of them in the runs. In particular a cache may have room for nothing and a lifetime may be 0.

The hypotheses are no convenience: without each of them the code breaks the property (section 11). A stale
`completeAuthorization` (980) can leave a client with nobody, which is why theorems that are about every client are about
hosts that complete no authorization (their rounds may begin, and are abandoned or park): `Callers = {}`. A connect that waits
for the repair of a listen stream (2166) may come up with a client that is gone: `RepairsListen = {}` says that no definition
leads to such a wait. When two calls are about one URI, a subscribe that fails takes back what the other was promised (1316): `OwnUris`.
Two concurrent rounds of one provider overwrite each other's index of issuers: one of `Authorizers`, which may still begin
as often as it likes, beside any number of refreshes and readers.

**Types, catalogs, drains.** `IInv` of ConnectionLifecycleProofs is `TypeOK` together with `entry \in Legal`: each entry is `Sound`, that is, typed,
with a catalog only when it is usable and of its own generation, and closing
only when no operation is left on it. None of the three properties is inductive alone: a
refresh that commits keeps `CatalogBelongs` because its fences compare it with an entry
that is typed; `DrainBeforeClose` survives an admission because an entry that
is closing has a disconnect task, and a call that a rejected close leads to starts
from a record that is sound again. Everything a handler does to an entry is a composition of
helpers, so the proof goes along them: first each helper maps sound records to sound
records, then each handler leaves the table of entries legal, then each
action preserves `IInv`, and `Next` is their disjunction.

**The order of a connection's tasks, and the service.** `Order` says what the manager relies on and writes down nowhere. For
each entry (`Orderly`): in which phases a connect task may be at which await, and which client it then holds (`ConnectOrder`,
`ClientOrder`); which stage of a disconnect goes with which phase (`DisconnectOrder`); that no continuation waits twice
(`TokenOrder`); that operations run only on a session that is up or draining (`BusyOrder`); that an entry which was removed has nothing left (`RemovalOrder`). Between
entries: generations are unique and not above the counter (`GenOrder`), the registry names entries by their owners (`RegOrder`), attempts are
numbered (`AttemptOrder`), each open client is held (`LiveHeld`), each operation is of its entry's generation (`OpOrder`). The refinement needs all of it: that an
operation ends with the session it was admitted on, say, holds because a session is taken away only by a handler that
finds no disconnect ahead of it (`DisconnectOrder`) or by one whose drain is over (`BusyOrder`). Each action is then
shown to be a step of `GenerationService` under the mapping, or to leave what it maps to unchanged, in the same lemma that shows it preserves `Order`.

**Whose client it is.** `Accounted` gives each client at most one place: the session of an entry, the client it has parked, keeps for a
cleanup or releases, the one its attempt is opening (`Holdings`), or the closing of a completion (`Closings`). So what a handler closes it
takes from one place, and the clients that an entry relies on (`Needs`: the parked one, the one that is opening, the
session of a usable connection) stay open. `Parking` adds that an authorization without its client has a
completion which is about to move it on; `ParkedCanComplete` follows from both. The records of one entry go along two
relations: `Keeps` (no place is filled but from another one, nothing more is needed) and `Begins` (the same, and one new attempt);
every helper is shown to do the one or the other, then every handler, then every action. This invariant holds with stale
completions too, where `Order` does not, so these proofs use `IInv` only, and the theorem on `ParkedCanComplete` has no hypothesis;
`ClientsAccounted` is `UsableHoldsClient` together with `NoClientOrphaned` of the module before.

**Catalogs.** `AutoOrder` ties the timer, the refresh in flight, the attempts counted and the attempts paid to each other; `BudgetHolds` follows because
an attempt that is given back was counted and not paid. `FlightOrder` says of a refresh in flight that
what it has read is no older than the catalog as long as its revision is current, which is why the
commit that compares revisions never goes back.

**The listen stream.** Sessions are numbered (`SessionOrder`); the turns of `#relisten` run one after the other and a call that waits for one is in
flight (`QueueOrder`); while a connect opens its stream no other turn is of its session (`ConnectOrder`); a stream is closed for a
disconnect only when no call is left (`PhaseOrder`). `StreamOrder` says which streams can be open: the one that is watched, and the SDK's
own until the turn that replaced it has closed it; `StreamInUse` follows when no turn is left. `PromiseOrder` and
`FilterOrder` say that a turn which will open a stream asks for every promised URI, because a promise is made only by a turn
and turns do not overlap.

**The credential file.** The write chain gives one call the turn (`TurnOrder`); the one that has it has put its value in the map and
in the image it writes (`WriteOrder`); the map shows what was acknowledged (`MemoryOrder`). The image that is renamed
thus holds every acknowledged value, whoever wrote it, and so does the file after any crash. `FileInv` is these and `Durable`.

**A round of authorization.** `RoundOrder`: a state that is stored is of a round which has begun, and has not been verified, for the step that verifies one deletes whatever is
stored. An endpoint lets a request pass, and a completion reads what to compare with, only while it is stored; so the state either of them takes was unverified at that
moment, and what an endpoint with `accept` ends with is of a round of this provider. Nothing is assumed of how many completions overlap, or of when endpoints open.

**The tokens of a provider.** Who saves, refreshes or reads does so for an issuer (`TokenIssuers`). Only the round writes the index, so what it has seen
of the index is the index (`IndexKnown`), and each issuer gets into it before it gets anything else. A set that is of an epoch gone by is one of those that
the invalidation which ended that epoch has still to delete (`SetsCurrent`); sets that were being saved when it began (`late`) are the exception the code makes.

**The IdP.** An assertion that has an answer in hand has an ID token that was never about to expire (`TokensInHand`), unless the host reloads its own
(`NoneReloaded`). What the IdP takes as refresh token is the one that is held or one that is in an answer under way, a different one in each
(`RefreshTaken`): that is what lets concurrent renewals land in any order. A sign-in has the nonce of its own code (`SignInOrder`).

**A probe.** Each POST and each GET is one hop of its path and went home; the metadata of the resource was asked for at home or where the last
answer says, and only after that the metadata of an authorization server, at home or where the resource says (`ProbePath`). It looks for an authorization server only after a 401 that asks for one (`ProbeAsked`).

**Keepalive, errors, claims.** `LifeOrder`: one session at a time, that of the last attempt, and none but that of the keepalive when it is up. The chain of
probes is unbroken because a probe's continuation looks at the keepalive of its own session only. `WindowOrder` says that a transport points at the
window of the attempt under way or at none, so an error which reaches the window through the client and through the transport finds itself `seen` there (`ReportOrder`).
`CallOrder`: while the session is usable, a call under way is of this session; hence an answer that adds a claim is about a URI this server has.

**A session that is resumed, a client that closes.** `RecordOrder`: while an attempt is under way the record is as the attempt found it,
so that only an attempt that carries the session can spend it. `CloseOrder`: how far the shared close is determines which sides were closed and
what a caller who is told `closed` has waited for.

**Hosts that reconcile.** A registered id has a definition and the number it was registered under (`RegistryOrder`). `HandOrder` says of the id a
reconcile has in hand which entry it found, and that two swaps of one entry exclude each other; so the definition that a swap installed is still there
when the verdict of its connect comes, whoever else replaces, removes and adds in between, and only if the entry is still this one. The other direction is by cases over the
ways a reconcile fails an id: before the swap the definition is not the wanted one, because `replace()` has looked at it and only this host may swap it; after the swap
`Counted` counts it, but for a connection that is quarantined. `VerdictOrder`: each
id is still to be dropped or applied, is in hand, or has exactly one verdict. `AgreeOrder`: where all hosts want the same, nothing that one has brought about is undone
by another.

**What follows.** A call of `sync()` that waits for a run in flight asked no later than that run reads (`SyncCalls`): a run that has read takes no more callers, they go
to the one behind it. Once a sync drops its subscription no run is left and no renewal under way (`SyncOrder`), so nothing starts a run again; and from the first `stop()` on,
whatever an action does to the run in flight, it begins none, because a run that ends drops the follow-up and a renewal that lands starts nothing. A handler of a projected server, and a bridge
that is unsubscribed, keep their property by each step, and so does the wait for a task, whose outcome is set when it ends and then only (`TaskInv`). Of a watch: reads run one at a time, the
first of the queue (`WatchOrder`); what was read is no newer than the disk, and neither is older than what was told last. A content with the version told last has
the digest that is recorded, unless it cannot be read (`WatchNewest`), so what passes the comparison of digests is newer.

**Hubs and the gateway.** A walk of the hub manager may be overtaken by its own listeners. `WalkOrder`: a walk visits registered hubs only, and a member that is not
registered any more belongs to a hub which the walk of its removal has still to visit. `RefreshOrder`: a member whose session was replaced during a refresh of the hub
has a later generation than the refresh has recorded, which the fence at its end compares. For the gateway, the projection in hand and the routes are of one
topology, which is the present one unless a walk has still to announce the change of a member (`Pending`) or no definition can be made of the present one (`RoutesOrder`). It is not enough that
the key of the projection is compared when it is used: the handlers go by the routes, which nothing compares. An instance in line is connected (`LineOrder`), and `InLine` and
`DeliveredIsFenced` are kept by each step themselves.

**A request on its way in.** `Timely` bounds by the time of the revocation what the cache says of a token and what an answer under way says of it, and says that a request is
admitted at the present time. `Paid` strengthens `BurstBounded` to calls that are still to come: what was let through since
any call, with what is left in the bucket, fits in a capacity and the refill of the time between. The cache is a sequence; that dropping, evicting and replacing
keep one entry a token are lemmas of their own (`Within`).

**A server and its lifespan.** `InOrder` says for each await of a materialization what its hooks hold and what was undone, `Accounted` what has failed of it against what it
is to reject with, so that only the failure of a parent's cleanup can have taken the place of another; `EntryOrder` for each phase of
the entry what has failed, whether its lifespan is stopped and who can have been answered.

**Who may see and call what.** `BuiltInOrder`: while a server is built, what is left to be asked for is visible, and what is left and what is admitted
hold together all that is visible and asks for no auth; so when nothing is left, all of it is admitted. `CalledInOrder`: a call that stands before the check of its own
capability has passed that check if it would pass now, and behind it has passed it at some time. A change of authority keeps both,
because it looks again at each call under way. What a check says is a CONSTANT operator, `Says`, so the theorem is for any checks, however they are nested.

**Options and edits.** Options that are not refused give each conjunct by what was not refused. That equal fingerprints mean equal definitions is shown field by field,
for each kind of transport.

Each invariant was checked by TLC, on the instance of its run or one like it, before it was proved; a proof has one lemma for each action.

Only model-checked:

* liveness: `TasksSettle`, `RetryContinues`, `CloseStops`, `ChangesFollowed`, `CredentialsSettle`, `CallsReturn`, `CopiesFollow`, `WatchFollows`;
* `ComposedSoundly`: its part about step-up is about `Verdict`, which recurses over trees, and the others are about what folds make of definitions;
* `NamesAreSound` and `ReadAsWritten`: what `HubRoutes` and `ConfigEntries` compute by folds and recursion over names and command lines of any length needs an induction
  over data;
* the four refuted sentences, which are counterexamples.

## 13. Not modelled, and why

In ConnectionLifecycle:

* the text of errors, events, snapshots, capabilities and logging;
* `connectAll`, `listConnections`: calls of the operations above in a
  loop, or reads;
* what a keepalive counts: its verdict is a `SessionLost`, which may happen at any time (`SessionUpkeep` has the count);
* `completeAuthorization` of a connection that is up: it changes no lifecycle state;
* a second `replace` of an id waits for the first before it looks at anything: it is a later call;
* the clock: `streak` tells only whether `resetAfterMs` has gone by since the last success, or what an
  entry without a success has tried;
* the disconnect task is installed one microtask longer than here, during which a second `disconnect`
  joins a task that has nothing left to do.

Elsewhere:

* ListenStream: lengths of the backoff and the count of attempts; the manager's `close()`, a disconnect. A
  `close()` of a stream takes effect when called and only its confirmation is awaited. The kinds of list-changed
  notifications are one flag.
* CatalogRefresh: what a list contains, how it is cloned and queried; the drain of a
  disconnect (from its start the connection counts as down); listing errors beyond "no list".
* SessionUpkeep: the ring of diagnostics and what a diagnostic says.
* Definitions and config: the construction of the SDK's transports, the wire tap, where each host keeps its file.
* RequestPipeline: a clock that is set back (the bucket then counts its refill from the earlier time, `middleware.ts` 175), and `defaultTtlSeconds`,
  which stands in for an expiry the answer does not have.
* AuthorizationRound: two endpoints at a time: the redirects of a provider go to one `redirect_uri`, and so to one of them.
* Credentials: registration of clients and its metadata, status reports, JWTs, keyrings and the grants that are one
  request each; the page a browser is shown; opening one.
* Hub and Gateway: labels, tags, snapshots and health of hubs; the relay of input rounds, completion and subscriptions through a
  gateway; a member offers one tool, which stands for its capabilities.
* Servers: the HTTP binding (headers, sessions, body limits), JWT verification and metadata documents; the
  call cache, handler wrapping and logging; a tool's schemas and what a builder infers from them.
* ResourceFileSync, ConfigWatch: the bytes of a resource and of a file; other programs that write the synchronised file.
* TaskPolling: the length of an interval; an `onUpdate` that throws is the caller's.

Out of scope altogether: discovery (ranking by real-valued scores over text), contracts, explanations and skills (functions over JSON
schemas and text, where the difficulty is in the data and in no order of steps), wire formats, CLI, tests and
examples; the official SDK is outside the repository and appears as answers and failures.

## 14. Plan

The code whose difficulty lies in orders of steps is modelled, and each invariant a run checks has its theorem, but for those listed in section 12, which are about
functions over data. What would be next:

1. Theorems without the hypotheses of section 12, for a `completeAuthorization` that looks again at what it completes, a `verifyCallbackState` that reads and
   deletes in one step, and an index of issuers that is written under a lock: the proofs would then show such a repair to be enough.
2. To be modelled still, where it would tell something new: the relay of input rounds through a gateway, and the call cache of the middleware.
