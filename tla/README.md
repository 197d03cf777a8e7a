# Formal model of fleet-gateway

fleet-gateway is an API server that stands in front of a fleet of managed
clusters. `kubectl` lists resources of all clusters through a search backend,
reaches one cluster through a cluster proxy, and learns from the gateway's own
discovery endpoints what can be listed. A kubectl plugin writes the contexts.

This directory holds TLA+ modules translated from the Go source, the TLC
configurations that check them on small instances, and TLAPS proofs of their safety
properties for every instance. `PROJECT.json` maps every definition to the
lines it models and lists the runs, the hazards and the findings.

## Inventory

| part | source | state | operations |
|---|---|---|---|
| discovery controller | `pkg/apiserver/discovery_controller.go` | the slice variables of `sync`, one worker goroutine, the stop channel | `sync` every 5 s, `Run` |
| discovery handlers | `pkg/apiserver/discovery.go` | two maps behind read-write locks; listers that are closures over `sync`'s variables | `ServeHTTP`, `getDiscovery`, `setDiscovery` of each |
| request router | `pkg/apiserver/handler.go` | none that outlives a request | `ServeHTTP`, `serveResource`, `requestInfo`, `ClusterPathFromAndStrip` |
| cluster proxy client | `pkg/client/proxy/interface.go` | a transport with its connections per request; reads ManagedServiceAccount and Secret from the hub for every request | `Proxy`, `getManagedServiceAccountToken` |
| search client, storage | `pkg/client/search/interface.go`, `pkg/registry/resource/store.go` | the catalog (constant); one list in the making per request | `List`, `Resources`, `PrinterfFor`, `defaultConverter` |
| table converter | `pkg/api/resourceInfo.go` | the shipped columns (constant) | `NewConverter`, `ConvertToTable`, `cellForJSONValue` |
| kubectl plugin | `cli/kubectl-gw` | the kubeconfig file and its lock file | `Complete`, `Run` |
| server assembly | `pkg/apiserver/apiserver.go`, `pkg/cmd/server`, `cmd/server` | the process, the context of `Run`, the post-start hook, the stop channel | `main`, `Complete`, `Validate`, `Config`, `New`, `Run`, the hook |
| codecs | `pkg/apiserver/handler.go` from line 399, `pkg/resourcescheme` | none between calls; an object changed in place during one | `Decode`, `apply`, `DecoderToVersion`, `EncoderForVersion` |

How they interact. The router calls the discovery handlers, the proxy client and
the storage synchronously, one goroutine per request. The controller writes the
handlers' maps, which the requests read: shared state, locked for the map
operations and unlocked for the slice that a lister returns. The proxy client
depends on objects that the hub's controllers create, rotate and delete at any
time. Two filters of the generic API server surround every handler. One logs a panic
and panics again (`HandleCrash` with `ReallyCrash`, which nothing turns off), so that the
server drops the connection and the 500 that the filter wrote is never sent; the other
answers when the time is up. The plugin shares the kubeconfig with every other run of itself.

Which behaviours are hard, and what makes each part correct:

* discovery: a request calls a lister while `sync` appends to the slice variable
  the lister closes over; each resync replaces full listings by partial ones;
  three tables are published one after the other. Correct means that a listing
  has every resource that was published before the lookup, that nothing
  advertised is refused, and that every sync ends with the whole catalog
  published.
* router and proxy: many ways out of one handler, two reads of the hub that are
  not atomic, reads that outlive the request, panics. Correct means at most one answer, none
  only when the connection is dropped, the right token, and no error or panic while everything
  was in place.
* search: the filters decide what is in a list, one bad item may spoil it, rows
  have to line up with headers. Correct means complete up to the limit, and
  nothing that was not asked for.
* plugin: a snapshot without a lock, many writes of a whole file, crashes.
  Correct means that the file is consistent when nobody writes it, that a success is
  one replacement of the file, and that its message is true.
* server: a hook that only returns at shutdown, signals, restarts with empty tables.
  Correct means that each life publishes the catalog, takes nothing back once it has, and
  ends when told to, in the documented order.
* codecs: an object changed in place between two sources of errors, under settings
  (no schemas, pruning on) of which one alone would empty every object. Correct means
  that no returned object lost a field.

## Modules

| module | models | size of state |
|---|---|---|
| `Discovery` | the controller, both handlers, the clients | worker position, slices, tables, requests |
| `DiscoveryService` | what discovery promises, without worker, slices and locks | guarantee per version, requests |
| `DiscoveryProofs` | proofs about `Discovery` | |
| `ServiceProofs` | proofs that relate answers of `Discovery` to later ones, and its refinement of `DiscoveryService` | |
| `Gateway` | the router, the proxy client, the filters, the hub's objects | position, answers and token per request |
| `SearchList` | one list after another: filters, backend, loop, table | index, rest of the answer, list, table |
| `Kubeconfig` | the plugin and `clientcmd.ModifyConfig`, write by write | file, lock, position per invocation |
| `KubeconfigStore` | what concurrent runs of the plugin make of the kubeconfig, without files and locks | content or torn, snapshot and argument per client |
| `Lifecycle` | the process around `Discovery`: start-up, hook, readiness, signal, drain, restart | phase, hook, context, exit, and all of `Discovery` |
| `Codec` | the coercing decoder of the resource handlers' serializer | one call, its object and strict errors |
| `GatewayProofs`, `SearchListProofs`, `KubeconfigProofs`, `LifecycleProofs`, `CodecProofs` | proofs about the module of that name; `KubeconfigProofs` also the refinement of `KubeconfigStore` | |
| `MC...` | the constants of the TLC runs | |

### Discovery

`StartSync`, `BeginGroupVersion` (the keys come in any order, as from a Go map),
then per resource an append and `SetVersionDiscovery`, then `SetGroupDiscovery`,
`AddGroupVersion`, `FinishSync`. A map operation under its lock is one step. The
append is not: `GrowSlice` publishes a larger array, `StoreLen` the length,
`StoreElement` the element, and a request loads the two words of the slice
header in any order (`LoadPtr`, `LoadLen`) and then encodes the elements
(`WriteListing`). This is the data race of `discovery_controller.go:76` and
`:83`. The stores are taken in the order in which the compiler emits them on
amd64 (pointer, length, element), which that machine keeps. A request that combines an
old pointer with a new length reads beyond an array: it may get garbage
(`Stray`) or fault, and a fault ends the process (`FaultOnStray`); it may also
see an element before it is written (`Blank`). The array behind a slice variable
is identified by its capacity, because a variable's array is only ever replaced
by a larger one. Growth copies the elements written so far.

`DiscoveryService` says what survives: each version has a number of guaranteed
resources (`floor`), a rebuild drops it to one, requests get at least what was
guaranteed when they looked their version up, documents name published versions
only, and a document may replace another. `Discovery` is checked to implement it (`ImplementsService`), the mapping is at
the end of `Discovery.tla`.

### Gateway

A request moves through `ServeHTTP`, then `GetMSA`, `GetSecret`, `UpstreamBegins` and
`UpstreamEnds` for a proxied path, or `Search` for a list, or it is answered at once. The
targets are what the code tells apart: a cluster path, a path without a resource by
its first segment and length, a resource request by verb and subresource. `HubStep` is
the rest of the world: accounts without status, secrets without token, rotation,
deletion and re-creation between any two steps. `HubFails` is every error of the two
reads. Between `UpstreamBegins` and `UpstreamEnds` the reverse proxy relays: a watch, a
log or an exec stays there. `UpstreamFails` is an upstream that cannot be reached, breaks
off, or whose request was cancelled: before the answer has begun the `ErrorHandler`
answers, afterwards the answer is cut.

`Timeout` ends the request's context, because its time is up or its client gone. If nothing
was answered yet the filter answers; the handler goes on, and its writes go nowhere. The
calls of the backend and of the upstream were given the context and end with it
(`Cancelled`); the two reads of the hub use `context.TODO()` and do not. `conn` is the
connection of the transport that `Proxy` makes for each request: open during the
request, idle in a pool of its own afterwards, closed by `IdleConnTimeout`.

A nil `TokenSecretRef` is a panic, and so are a field selector and an item without a required
string in a list (`Panic`). The timeout filter, which runs the handler in a goroutine, hands the
panic on to the panic filter, and that to `net/http`: the request ends as `aborted`, without
an answer. After the timeout filter has answered, the panic is only logged. That the code
panics there is a weakness which no document contradicts; the properties confine it:
`SteadyClusterIsReached` says that no request for a cluster with a ready account meets it,
`OneAnswerUnlessPanic` that it never follows an answer, and `NoClientLeftWaiting` that its
client is released.

What is in the discovery tables is left to `Discovery` (`known`), and
what is in a list to `SearchList`; here only their outcomes count. The branch of
`ServeHTTP` for a request without RequestInfo is dead, since a filter always attaches
one, and so is the error of `ClusterPathFromAndStrip`, which returns none.

### SearchList

`Ask`, `Search` (the backend answers from its index of that moment), `Collect`
once per item, `Convert`. Items and values are reduced to what the code looks
at: the four filter properties, the cluster, the kind of the creation time,
whether a required string is missing (`broken`: the type assertion panics), and
the kind of each column value. `Object` labels an object under the key of package `search`, and
`LabelKey` is the key under which a converter looks the cluster up, of package `api` for the
catalog's resources and of package `search` for the default converter: constants that are
equal today. A list with a field selector panics before `List` is
called (`SelectFields`): the list handler converts the selector through
`RequestScope.Convertor`, which `requestInfo` does not set. `Shown` is `cellForJSONValue` together with the
printing of string columns, for all column types, also those that no shipped
column uses.

### Kubeconfig

`Start` is `Complete` and the part of `Run` up to `modifyConfig`; the snapshot is
read without the lock, possibly while the file is truncated. `Lock`,
`Truncate`/`Fill` per write, `Advance` from one kind of entry to the next,
`Finish`: `clientcmd.ModifyConfig`, which is external, as the code uses it (the
lock file taken with O_EXCL and never waited for, the current context written first,
one write per changed cluster, one for all changed contexts, then the
deletions). `WriteFails` and `Kill` may hit at every write. Users and preferences are
the same for all contexts and left out; so is a kubeconfig of several files.

`KubeconfigStore` is what it comes to: a client takes a snapshot at any time, and later
replaces the store by what it makes of that snapshot, alone and as a whole. While the lock
file exists the store is torn, and a snapshot may hold anything; a failed replacement
leaves anything; a client that dies leaves the store torn. `ImplementsStore` checks that the
lock file and the writes of `ModifyConfig` implement it, with the mapping at the end of
`Kubeconfig.tla`. What the store does not promise is the hazard: a replacement undoes
what was committed after its snapshot.

### Lifecycle

`Lifecycle` extends `Discovery` and puts each of its actions into a process. The command
goes from `CompleteOptions` to `Listen`, or fails at any step. The server listens before the
post-start hook runs; the hook starts the worker and waits for the stop channel. `Terminate` is
SIGTERM: with the command's `context.TODO()` it ends the process at once, with a
cancellable context, which `Server.Run` accepts as well, it leads to `StopServing`, the end
of the requests in flight and `Drained`, which calls the destroy functions. Neither waits
for the worker. `Kill` and `Restart` come at any time; a restart keeps only what the
clients know.

### Codec

A call gets a body, a lax or strict serializer, and perhaps a default kind and a
target. `Decode` is the delegate, `Apply` the coercer, `Convert` the versioning codec.
`structuralSchemaGK` has its zero value, and the coercer prunes an object whose kind and
group are empty down to its identity; `ReturnedObjectsAreWhole` says that no such object
is ever returned. The decoder is what `requestInfo` hands to every resource handler;
the only verb served today, list, decodes no body, so the module's caller is any handler
that would.

## Runs

| run | instance | distinct states | shows |
|---|---|---|---|
| `discovery_safety` | shipped catalog, 1 client, 2 syncs | 382 thousand | `ListingCoversHandler`, `AdvertisedIsServed`, `ShrinkOnlyByResync`, `ImplementsService` |
| `discovery_live` | same | 382 thousand | `SyncCompletes`, `ShutdownStopsWorker` |
| `gateway_safety` | 2 requests, 2 clusters, 2 tokens each | 5.5 million | `OneAnswerUnlessPanic`, `TokenHeldDuringRequest`, `SteadyClusterIsReached`, `TableOwnsPath` |
| `gateway_live` | 1 request, 2 clusters, 2 tokens each | 109 thousand | `NoClientLeftWaiting`, `CancellationEndsHandlers`, `ConnectionsClosed` |
| `search_safety` | 7 items, 52 queries, limit 3 | 923 thousand | `ListIsComplete`, `ListMatchesRequest`, `RowsFitHeaders`, `AgesAreValid`, `PanicsExplained` |
| `search_selector` | same | violated | `ListMatchesLabel` |
| `kubeconfig_safety` | 3 invocations, 4 names | 352 thousand | `LockExcludes`, `CurrentContextExists`, `NestingOnlyByCollision`, `ImplementsStore` |
| `kubeconfig_live` | 3 invocations, 3 names | 654 thousand | `RunsEnd` |
| `kubeconfig_dangling` | 3 invocations, 4 names | violated | `CurrentClusterExists` |
| `lifecycle` | 2 lives of 1 sync each, 1 client, both contexts, 3 resources | 147 thousand | `ServingIsNeverReady`, `RefusedOnlyWhenYoung`, `EveryLifePublishes`, `ApiPromiseKept`, `SignalEnds` |
| `lifecycle_signal` | same, context of the command | violated | `DestroyedLast` |
| `codec` | 6,912 calls: 2 kinds, 2 groups, 2 fields | 18 thousand | `ReturnedObjectsAreWhole`, `StrictErrorsAreComplete` |

Each module's type invariant is checked by its safety run. For
each property the module holds a variant of one definition, marked as such and
used nowhere, with a plausible bug in it; TLC finds the property violated when the
variant takes the definition's place.

The bounds and why they are enough:

* two syncs: the interesting moment is a second sync over the result of a first
  one; a third adds nothing that the second does not do to the first. Four
  resources make the array grow at capacities 0, 1 and 2 and leave it once with
  room, so that every kind of append meets a reader. Clients do not interact, and
  properties speak of one client, so one is enough; the proofs hold for all numbers.
* two requests: they share nothing but the hub, the second is there for bugs
  that would make them share something (a cache of tokens). Liveness is about each
  request by itself, so its run has one. Two writes of a
  token are one rotation. Two clusters, so that a request could get another's token.
* search: the items differ in everything the code looks at, four of them match one
  query, and the limit of three cuts that answer. 100 in the code, any number in the model.
* three invocations: the finding needs all three (one that writes, one that takes
  its snapshot in the middle, one whose entry is dropped). Four names: the root context,
  its cluster, and two managed clusters, so that one could be derived from the other; the
  liveness run does with one of these.
* two lives: a restart over what clients learned before. One sync per life, since what a
  second sync does within a life is in `discovery_safety`, and two resources in the core
  version, the least with which a published listing still grows.
* codec: one call, since the decoder keeps nothing between calls; two fields, so that some
  could be lost and some not.

Deadlock is not checked where the system may really stop: when the server has shut
down and the syncs are used up, when the process has ended for the last time, when all
invocations or requests have ended, when the decoder's call has returned.

Fairness. `Discovery`: the worker and the goroutine of each request in flight run
when they can; nothing is assumed of the clients or the stop channel. `wait.Until`
ends at the latest after the current sync. `Gateway`: `ServeHTTP`, which
computes without waiting, the timers of the timeout filter and of the idle connections,
and the end of calls whose context is done, are fair; the hub, the search backend and the
proxied cluster may stay silent for ever. `Lifecycle`: the steps of the command, the hook,
the worker, the requests in flight and the shutdown sequence are fair; errors, signals,
kills, restarts and clients are not. `Kubeconfig`:
each process runs; a kill or a failed write may happen and need not.

## Findings

* `kubeconfig_dangling`: `Run` prints `Current cluster is the "a".` although the
  kubeconfig it leaves has no cluster `a`. Without a lock, the snapshot can be taken when
  another invocation has deleted the cluster and not yet the context, and the branch at
  `cluster.go:106` looks for the context only. TLC's trace takes three
  invocations; no failure or kill is needed.
* `lifecycle_signal`: the comment at `handler.go:391` says that `destroy` is called as the last
  step of the shutdown sequence. The command runs with `context.TODO()` and installs no signal
  handler, so that the sequence never runs: SIGTERM ends the process with its requests.
* `search_selector`: the comment at `store.go:68` says the list holds what matches the
  label; `searchClient.List` never looks at the list options.

Smaller disagreements that no run is about: the README's start command spells a flag
`--searh-host`; the comment at `handler.go:262` describes a tear-down of storage that
`tearDown`, which has no caller, does not do; the health and readiness checks include the
post-start hook, which returns only when the server stops (`ServingIsNeverReady`); the comment at `cluster.go:115` speaks of
the current context where the code takes the context `root`.

## Proofs

All theorems are about `Safety` (or `Spec`, `LifeSafety`): the initial states and the steps,
without fairness. They hold for every value of the constants that satisfies the named
assumptions of the modules. Each follows from an inductive invariant, which TLC was made to
check on the instance of the module's safety run before it was proved; each proof has a
lemma per action, and under it a step per conjunct that the action can disturb.

| module | theorems | state the property of a run |
|---|---|---|
| `DiscoveryProofs` | `Invariance`, `TypeCorrect`, `ListingsCover`, `AdvertisedServed` | `TypeOK`, `ListingCoversHandler`, `AdvertisedIsServed` |
| `ServiceProofs` | `ServiceInvariance`, `ShrinksByResync`, `ServiceRefinement` | `ShrinkOnlyByResync`, `ImplementsService` |
| `LifecycleProofs` | `LifeInvariance`, `LifeTypeCorrect`, `NeverReady`, `LifeListingsCover`, `RefusalsAreOld` | `LifeTypeOK`, `ServingIsNeverReady`, `ListingCoversHandler`, `RefusedOnlyWhenYoung` |
| `GatewayProofs` | `Invariance`, `TypeCorrect`, `OneAnswerOrPanic`, `TokensAreHeld`, `SteadyClustersAreReached`, `TableOwnsItsPaths` | `TypeOK`, `OneAnswerUnlessPanic`, `TokenHeldDuringRequest`, `SteadyClusterIsReached`, `TableOwnsPath` |
| `KubeconfigProofs` | `Invariance`, `TypeCorrect`, `LockIsExclusive`, `CurrentContextStands`, `ServersStayFlat`, `StoreRefinement` | `TypeOK`, `LockExcludes`, `CurrentContextExists`, `NestingOnlyByCollision`, `ImplementsStore` |
| `SearchListProofs` | `Invariance`, `TypeCorrect`, `PanicsHaveReasons`, `ListedAsAsked`, `ListsAreComplete`, `RowsAreWhole`, `AgesStandUp` | `TypeOK`, `PanicsExplained`, `ListMatchesRequest`, `ListIsComplete`, `RowsFitHeaders`, `AgesAreValid` |
| `CodecProofs` | `Invariance`, `TypeCorrect`, `NothingIsPruned`, `NothingGoesUnreported` | `TypeOK`, `ReturnedObjectsAreWhole`, `StrictErrorsAreComplete` |

### The invariants, and why they are needed

`Discovery`. A listing is complete up to its handler's count because the
handler was installed after its elements were written (`TableInv`), because lengths,
capacities and written elements never shrink within one slice variable
(`SliceInv`: at most one element, that of the current append, is unwritten), because
each iteration declares its variable anew (`FreshInv`), and because the words a
request has loaded are at least its handler's count (`RequestInv`). `WorkerInv` ties the
worker's position to the slice. An advertised version is served because every document
names only versions with an entry in both tables (`DocumentInv`), which the order
of the three publications in `sync` establishes. These parts make up `ProcessInv`, which
holds of a process whatever its clients learned before; `IInv` adds that what
they learned is documented (`LearnedInv`). The two are apart because a restart breaks the
second and not the first.

`DiscoveryService`. `ServiceInv` adds what relates two answers. `AppendInv`: between two
appends the handler of the version in the worker's hands counts what was appended, so that
`SetVersionDiscovery` is a rebuild or an extension by one. `ReplyInv`: what a listing
showed is still written in its slice, and a request that follows it and reads the same slice loads
no less. From it follow `ShrinkOnlyByResync`, and the refinement: `ServiceInit`
maps the initial state, and a lemma per action maps each step to a step of the
service or a stutter (`SetVersionMaps`, `AdvertiseMaps`, `ServeVersionMaps`, `LoadStutters`,
`WriteListingMaps`, `DocumentMaps`, `FaultMaps`).

`Lifecycle`. `LifeInv` is `ProcessInv`, step by step from the lemmas of `DiscoveryProofs`, with
`HookInv` (the hook returns only when the stop channel is closed, which only the
end of serving does) and `SyncInv` (in its first sync a life has documented a version or will
still come to it). The second gives `RefusedOnlyWhenYoung`: after the first sync
everything is documented, and what is documented is not refused.

`Gateway`. `IInv` is a statement about each request and one about the hub. `AnswerOK` says
at each position of the handler how many answers there are, the timeout's
among them, and that a handler that was aborted has none; `BranchOK` and `ConnOK` tie the position to the kind of request and to its
connection. `TokenOK` carries `oldest`, the newest token when the request came in, across the two
reads of the hub: what the secret holds, or will be given next, is not older.
`SteadyOK` says that the history variable `steady` still describes the hub as long as the
handler may look at it.

`Kubeconfig`. `ProgressOK` says for each phase of `ModifyConfig` what the run that holds the lock
has made of the file, written or not, and that no later phase undid it, so
that the last write makes the file the run's own configuration: the replacement of
`KubeconfigStore`. `FlatInv` is what `NestingOnlyByCollision` needs of snapshots and writes in
progress. `LockExcludes` is part of the invariant, since two runs under the lock would undo each
other.

`SearchList`. `CollectOK` names the answer of the backend, which no variable keeps: the objects
still to be looked at are part of it, and the dated ones of the others are in the list, each
once. With the cardinality of that answer it gives `ListIsComplete`. `ListOK` keeps out objects
that were not seen and not dated, `TableOK` says that the table is made row by row from
the whole list. `LabelFound`, that each converter finds the label which `List` wrote, rests on the
equality of the two label constants and would fail with them.

`Codec`. `WholeOK`: an object that goes on to be returned had a kind, because the delegate insists on
one whenever there is a target, and what has a kind is not pruned.

### What the proofs changed

* The `Advertise` of `DiscoveryService` used to add a version to what is advertised. The
  proof of `AdvertiseMaps` failed: `SetGroupDiscovery` replaces the entry of a group, so
  that with two versions in one group, and no aggregated entry for them, it takes one away.
  TLC agrees on such a catalog; the runs, with one version per group, never met it. The
  action now may drop what a document named before, and the theorem holds for all catalogs.
* Three `CASE` expressions (`EditsIn`, `FindResults`, `Shown`) had arms that overlap. TLC takes the first one; to the
  provers the value is not determined. They were rewritten to say what the code does.
* Assumptions that the proofs showed to be needed, each a fact of the code or of the notation:
  every group but the core group has a version (`Groups` is read off the catalog); a column that
  shows the creation time is a date (all columns with `.created` in `search.resourceInfos` are);
  `Nothing` is not a request of the service and `None` is not a configuration (values that stand for
  absence).

### Only model-checked

* Liveness under fairness, for which the prover has no backend: `SyncCompletes`,
  `ShutdownStopsWorker`, `NoClientLeftWaiting`, `CancellationEndsHandlers`,
  `ConnectionsClosed`, `RunsEnd`, `EveryLifePublishes`, `ApiPromiseKept`, `SignalEnds`.
* The violations of the three runs that are findings: a counterexample is a matter for TLC.

Every invariant, every action property and both refinements that a passing run checks are
theorems. No module uses a recursive operator, and no theorem rests on an induction over data:
sequences grow and shrink by one element per action.

## Not modelled

* flags and options beyond the order in which they are completed, validated and used: they
  are constants after start-up. `unsetDiscovery`, `DynamicClient`, `Watch`, `Categories`,
  `tearDown` and `clone` have no caller; `destroy` takes a lock and releases it;
* `schemaCoercingConverter`, which nobody instantiates, the typers and the creator, whose
  contribution the JSON serializer overrides, and the encoder, whose nil converter is not
  called because every response type is unversioned;
* in the runs, a catalog with two versions in a group: the shipped one has none. The entry of such a
  group would name one version only, and `SyncCompletes` would fail; the safety theorems hold
  for it as well;
* a memory model weaker than amd64's order of stores for the slice race;
* text: paths, URLs (an encoded slash in a proxied path), messages, the layout of tables.

## Plan

1. Extended so far: `Lifecycle`, `Codec`, `KubeconfigStore` and its refinement, relaying,
   cancellation and connections in `Gateway`, field selectors in `SearchList`. Open: an
   abstract specification of `Gateway` (ask, answer once).
2. Proved so far: all that the passing runs check, except liveness. Open: the safety parts on
   which the liveness properties rest (that a position in `sync`, in the router and in
   `ModifyConfig` always has a successor that decreases what is left to do), and the refinement
   of the abstract `Gateway` once it is written.
