# A formal model of the IPFS OCI registry

TLA+ modules, TLC configurations and TLAPS proofs for the Go program in `src/`: an OCI
registry that answers pulls and pushes over HTTP, keeps content on an IPFS node, keeps
`digest -> CID` mappings in a bolt database, pulls through from upstream registries and
exchanges mappings with its peers over IPFS pubsub.

Everything here is translated from the code. Line numbers are those of the files under
`src/`; `PROJECT.json` (`map`) names the lines behind every definition.

## 1. The system

### Components

| Component | Code | State it keeps | Operations | Model |
|---|---|---|---|---|
| Blob upload | `internal/registry/handler.go` 405-677 | `uploadMu` (a mutex per upload), temp files, bucket `uploads` | POST, PATCH, PUT, monolithic PUT, mount | `UploadSession`, `AtomicUpload` |
| Manifest and blob handlers | `handler.go` 194-405 | none of their own | GET, HEAD, PUT, DELETE | `Registry` |
| Resolver | `resolver.go` | none of its own | by tag, by digest, blob; local store, then federation, then upstream | `Registry` |
| Metadata store | `internal/storage/store.go` | bolt buckets `digests`, `tags`, `repositories`, `uploads` | one transaction per operation | `ContentStore`, `UploadSession`; its locks and Close: `Lifecycle` |
| Garbage collector | `internal/gc/gc.go` | a ticker | sweep over old mappings, then over stale uploads; Start, Stop | `ContentStore`, `UploadSession`, `Lifecycle` |
| IPFS client | `internal/ipfs/client.go` | none (the node: blocks, pins) | Add, Cat, Stat, Unpin, pubsub | `ContentStore`, `Federation` |
| Federation | `internal/federation/federation.go` | cache of mappings with expiry goroutines, table of pending queries | announce, query, respond, cache | `Federation` |
| Rate limiter | `internal/middleware/ratelimit.go` | a counter per address | allow, cleanup | `RateLimiter`, `RequestBudget` |
| Upstream client | `internal/upstream/client.go` | token cache | fetch with authentication | `UpstreamAuth`; its outcome in `Registry` |
| Process | `cmd/registry/main.go` | none | start, shutdown | `Lifecycle`; crash and restart also in `UploadSession` and `Registry` |
| Auth, configuration, metrics, health, listings, deployment | `internal/middleware/auth.go`, `internal/config`, `internal/metrics`, charts | counters nothing reads | | not modelled |

### How they interact

* Every HTTP request is a goroutine. Requests share the store (one bolt transaction is
  atomic, two are not), the IPFS node, the temp directory, `uploadMu`, the limiter's map,
  the federation's cache and table. Only uploads are guarded by a lock that is held across
  several of those.
* The collector is one more goroutine. It takes no upload mutex and nothing keeps a handler
  from storing a mapping under it: it decides on a snapshot (`ForEachMapping`) and deletes later.
* The federation has one goroutine for messages, one per cached mapping for its expiry, and
  its queries run in the handlers' goroutines under a timeout.
* All fetches from one upstream registry share one entry of the token cache, whichever
  repositories they are for.
* Everybody shares bbolt's locks: a write transaction excludes others, a read transaction
  keeps the file from being mapped anew, `Close` waits for both. The collector deletes
  mappings in write transactions while its own read transaction is open.
* A stored mapping is announced to peers when `shouldAnnounce` says so; a miss asks the
  peers, then the upstream.

### What is hard here

* Two handlers of one upload, with the collector between their steps, and a mutex map whose
  entries are removed while others wait on them.
* Content hashed in one read and stored from another.
* A sweep that decides on a snapshot and acts on the current state.
* Several transactions (mapping, tag, repository) with a crash or a failure in between.
* Stale tags: revalidate, fall back through up to three attempts, never to a refusal if the
  cache could answer.
* Messages that are lost, late, out of order, or carry a request ID that somebody else has.
* Fixed windows with a clean-up that runs at any moment.
* A token that is dropped by nobody, replaced by other repositories' fetches, and about to
  expire while a request carries it.
* A signal in the middle of everything: requests that outlive Shutdown's deadline, a sweep
  that `Stop` does not wait for, a store that closes under both.

### What makes each part correct

* Upload: nobody else works on an upload whose mutex a handler has; a 201 means that the
  digest is stored (until somebody deletes it or it is collected) and what is stored has that
  digest; a closed upload stays closed; no temp file is left behind; every request is answered.
* Handlers, resolver: only true mappings are kept on the routes that compare; a manifest
  from the cache or a peer is the one its digest names; a stale tag is revalidated, and
  served from the cache when the upstream is down; every request is answered.
* Store and collector: a tag names a digest that was stored; what this registry stored and
  is young is pinned and not collected; what is old goes away.
* Federation: an answer matches its query; the table and the cache drain.
* Rate limiter: it keeps the promise of a budget per window, and locks nobody out.
* Upstream client: whatever the cache holds, a fetch is refused only for a cause; a cached
  token is still alive when it arrives; every fetch ends.
* Process: only late handlers find the store closed, stopping a sweep leaks at most one pin, a
  mapping whose pin was given up is deleted whatever main does meanwhile, every store
  call and every shutdown ends unless the collector waits for itself.

`PROJECT.json` (`hazards`) lists each of these dangers at its line, with the properties that
would catch it, or why none does yet.

## 2. Modules

```
AtomicUpload (abstract)                       RequestBudget (abstract)
      ^ implements                                  ^ implements
UploadSession ---- MCUploadSession            RateLimiter ---- RateLimiterProofs
      |
      +-- UploadSessionProofs                 Federation ---- MCFederation
                |                                   +---- FederationProofs
                +-- AtomicUploadProofs
                                              UpstreamAuth ---- MCUpstreamAuth
ContentStore <-- Registry ---- MCRegistry           +---- UpstreamAuthProofs
                    |
                    +-- RegistryProofs        Lifecycle ---- MCLifecycle
                            |                       +---- LifecycleProofs
                            +-- RegistryCacheProofs
```

`Registry` builds on `ContentStore` (`EXTENDS`); the modules on the right stand beside it: what
they share with it is an outcome (an upstream answer, an announced mapping, a crash).

An action is one step on shared state: a call on a mutex, a bolt transaction, a system call,
a call to the node, a message. Guards are the code's conditions and early returns. A failed
call is an action or a disjunct of its own, allowed by the constant `Faults`. Definitions
marked *Mutant* stand beside the one they change: each is a plausible slip in that code, and
`PROJECT.json` (`mutants`) names the property that it breaks.

Digests and CIDs are records around the content they were computed from: equal exactly when
the contents are (no collisions), and never the content itself.

### UploadSession

State: the bucket `uploads` (`sessions`, `bytes`, `aged`), the temp files (`files`,
`content`), `uploadMu` (`lockMap`: upload to mutex) and the locked mutexes (`held`), the
mappings, the node's contents, and per request a program counter and its locals. A mutex is
named by the request whose `LoadOrStore` made it, so an entry that is deleted and made again
is a different mutex, as in Go. Removing a path leaves open descriptors on the old file
(`Detached`), so what a PATCH writes after the collector removed its file is lost, as under
POSIX.

`ArrivePatch`, `ArrivePut` are `getUploadLock`; `Lock`, `GetUpload`, `OpenFile`,
`CopyBlock`, `SaveSession`, `Unlock` the body of PATCH; PUT goes on with `CopyDone`, `Hash`,
`AddToIPFS`, `PutMapping`, `DropFile`, `DropSession`, then `Unlock` **and then** `DropLock`, in the
order of its deferred calls. `Mono...` is the monolithic upload; `GCList`,
`GCDeleteUpload`, `GCRemoveTempFile` the collector's second half. What takes a stored mapping away
again, DELETE and the collector's first half, is in `Registry` and `ContentStore`: here "stored"
means stored until then. `Crash` empties memory and keeps
disk, database and node. `Quiet` is the end of an instance whose requests are all
served; deadlock is checked.

A PUT that fails after taking the mutex leaves the session, unlocks, and deletes the
entry of `uploadMu`: a waiter on the old mutex and a newcomer on a new one then work on
the upload together. The history variable `spoiled` records uploads that were let go of in this
way. The safety properties are stated for all others (where they hold and are proved); the
run `upload_integrity` shows what happens to these.

### AtomicUpload

What a client may rely on, as a specification of five variables: the data of an upload grows
block by block or is discarded; a closing request takes all of it at one moment (`Take`),
stores it under its own digest (`Store`) and is acknowledged after that; a monolithic upload
is one step (`PutWhole`); requests fail, and what is stored stays as far as uploads go.
`UploadSession` implements it through the mapping at its end: `Taken` is the content behind the CID that a PUT has
received from the node, `Stored` the mappings, `Acked` the requests answered 201. Everything
else, hashing, mutexes, the collector's sessions, is a stuttering step. Once `spoiled`
is not empty the abstract upload is `broken` and promises nothing more.

### ContentStore and Registry

`ContentStore` has the buckets `mapping`, `tag`, `repo`, the node (`node`, `pinned`), other
IPFS peers (`remote`), the clock and the collector. The sweep is `GCBegin` (cutoff and
snapshot in one), then per old mapping `GCUnpin` and `GCDelete`. The delete is a write
transaction inside the sweep's read transaction: where `MayGrow`, it may wait for itself (`GCHangs`),
and from then on (`Stuck`) no transaction of anybody begins. `Lifecycle` has the locks that
lead there; here it is what may happen at any delete. `NodeGC` and `PeerLeaves`
are the world outside, read off what `ipfs.pin_content` is for.

`Registry` adds the handlers. `Arrive...` is the routing; `plan` holds the attempts that
`getManifestByTag` has left (`Plan` and `Fail` are its fallbacks); `held` a handler's
variables. A lookup goes `Lookup`, `CatManifest` or `CatBlob`, `Query`, `PeerManifest` or `PeerBlob`,
`FetchManifest` or `FetchBlob`, `AddContent` or `AddBlob`, `MapContent`, `TagContent`, `Publish`; each has
its failing form, or one with another step: a read that fails is taken for a key that is not there
(`TagMissing`, `Lookup`), and an add that fails may have added and pinned all the same
(`MaybeAdded`). `Transact` are the steps that are a transaction, which wait while the store is
`Stuck`; `CallOut` those that ask somebody else. `UpstreamPush` moves the tag at the
upstream. The upstream client is its outcome: an answer, another body, another digest header, or a failure. The peers are their
answers: a CID for the digest, a wrong one under the fault `"peer"`, or none.

`Source` tells the routes of a mapping apart further than the code's field does, because what
the code guarantees about a mapping depends on its route: manifests from an upstream are kept
under the digest of a header nobody compares, blobs from a peer after a `Stat`.

### Federation

Several registries on one topic. `inbox` is a set of messages under way (no order);
`Lose` takes one away, which is also what a subscription that has ended does to all later
ones (nobody subscribes again). `Lookup`, `Create`, `Send`, `Receive`, `Timeout`, `Cancel` are
`QueryDigest` step by step; `HandleMapping`, `HandleQuery`, `HandleResponse`, `Remember`
the message goroutine; `Set` and `Expire` the cache, one counted goroutine per `Set`.
Request IDs come from a clock, so `Create` may choose one that is in use; `collided` records who
shares one. Tag announcements are left out: `AnnounceTag`, `GetCachedTag`, `SetTagHandler` and
`SetMappingHandler` have no caller.

### RateLimiter and RequestBudget

`RequestBudget` is the promise: a window opens with an address's first request, at most
`Budget` requests are admitted until it has passed, passed windows may be forgotten.
`RateLimiter` is the code: counters that count refused requests as well, and a clean-up.
`Windows` maps a counter to the window it closes, its count capped at the budget, so that
refused requests are stuttering steps. The history `log` counts, for every moment, the requests
admitted before it, so that what a span has admitted is a difference of two entries, and a
theorem can speak of it (a sum over the span would be data to do induction on).

### UpstreamAuth

One upstream registry, several fetchers, each serving fetch after fetch. `Arrive` reads the
token cache (`getCachedToken`), `Serve`, `Challenge`, `NoRealm` are the first answer,
`IssueToken`, `IssueNothing`, `TokenFails` the token server's, `StoreToken` caches, `RetryRefused`
is the second 401, `Limited` a 429, `Redirect` and `Follow` the one redirect, which goes out without
credentials. A token is its scope and its life: the upstream and the token server
are modelled by what the client's code distinguishes. When the challenge names no scope the
client builds one from the path and keeps the component `manifests` or `blobs` in it
(`Scope`), so the token is for a repository that does not exist; `granted` records whether a token was
issued for the repository the fetch is about. `expires_in` may be absent; the client then assumes
300 s, the server something shorter, so only tokens that stated their life (`exact`) carry a guarantee.

### Lifecycle

`main` from `Start` through `Signal`, `Drained` or `Deadline`, `StopCollector`, `CloseWaits` and
`Close` to `Exit`, beside handlers that make store calls and a collector that sweeps. bbolt
(external) is modelled by its locks as the calls in `src/` meet them: `writer` holds `rwlock`; `readers`
hold `mmaplock` for reading, and a writer that has to map a grown file (`MustGrow`), as well as
`Close`, takes it for writing, which keeps new readers out (`MapWanted`). `metalock` is left
out for the reason the module states. The sweep runs inside `ForEachMapping`'s read
transaction; each `DeleteMapping` is a write transaction within it. `Hung` is the state in which the
collector waits for itself: its own write transaction has to grow the file, or waits for a
writer or a `Close` that waits for the collector's read transaction.

## 3. Runs

| Run | Question | States, time |
|---|---|---|
| `upload_faults` | three requests on one upload with failing files, copies, IPFS calls, transactions and crashes: exclusion, true pushes, ranges within the file, acknowledged pushes stored (nothing deletes here); all of it implements `AtomicUpload` | 1.4 M, 70 s |
| `upload_live` | two requests and the collector with failing copies and IPFS calls, fair: closed uploads stay closed, a file without session comes from a failed request, every request is answered, stale sessions go away | 58 k, 20 s |
| `upload_integrity` (violation) | "always validate content matches digest": not after a PUT has let go of an open upload | seconds |
| `registry_tags` | three GETs and PUTs of one tag, TTL, moving or failing upstream, crashes: revalidation, fallback to the cache, no tag before its mapping | 0.7 M, 35 s |
| `registry_lies` | wrong bodies, headers and peers, failing calls, the collector: what is kept and served is verified | 2.1 M, 70 s |
| `registry_collector` | pushes, pulls and deletes during sweeps, with failing IPFS calls and upstreams, fair: pins, young mappings; every request is answered and old mappings go away, unless a sweep waits for itself | 0.2 M, 85 s |
| `registry_fallback` (violation) | "failures fall back to upstream": not for a mapped blob whose content is gone | seconds |
| `federation` | two registries, two queries, three mappings of two digests, losses, reordering, timeouts, expiry | 0.9 M, 65 s |
| `rate_limiter` | two addresses over four windows, clean-ups at any moment; refinement of `RequestBudget` | 65 k, 5 s |
| `upstream_auth` | two fetchers, a permitted and a refused repository, all challenges and faults, fair: whose token the retry carries, the margin, causes of a refusal, every fetch ends | 0.3 M, 60 s |
| `lifecycle` | two handlers, a sweep over two mappings, signals, deadlines, growth, crashes and restarts, fair: who is refused, leaked pins, unpinned mappings are deleted, every call and every shutdown ends unless the collector waits for itself | 65 k, 40 s |
| `store_shutdown` (violation) | "Graceful shutdown": a signal need not end the process | seconds |

Bounds, and why they suffice:

* Uploads: one upload, because nothing is shared between two but the node, which only grows;
  three requests, because the hazard of the mutex map needs one that lets go, one that waits
  and one that is new; bodies of at most one block and declared contents of one or two, so
  that a chunk can complete or spoil another's content.
* Registry: two contents and one name, so that a tag can move and a CID can be wrong;
  two or three requests, each served once; `TagTTL` and `MaxAge` of one tick and two ticks of
  time, so that a tag and a mapping can be young, become old, and be stored anew. Liveness
  with one content and two requests. `registry_lies` needs no clock: with `MaxAge = 0`
  everything is old at once.
* Federation: two nodes (a third only adds a second answer, which `inbox` has as a late
  response), two CIDs for one digest so that an entry can be replaced, two queries and two
  IDs so that IDs can collide or not; the clock makes one step, enough for an expiry
  before and after an update. `MaxSent` bounds the announcements. The proofs have no such bound.
* Rate limiter: a budget of two, windows of one tick, counters to four, so that refusals
  are counted past the budget; five readings of the clock hold two full windows.

* Upstream: two fetchers, because what one does to the other goes through one cache entry;
  two repositories, one of them refused; lives of one tick or none stated, a margin of
  one tick, three readings of the clock: a token can be read in time and arrive late.
* Life cycle: one-call requests (a request of several calls meets the same locks one after the
  other), two handlers so that one can hold what the other waits for, two mappings so that
  a sweep has something left when it is stopped. Restart is unbounded.

Requests are interchangeable (`SYMMETRY`) in the runs without liveness. Deadlock is
not checked in the `registry` and `federation` runs, whose instances end when the requests
are served and the clock stops, nor in `store_shutdown`, which is about the process stopping
for good. It is checked in the others, `upstream_auth` and `lifecycle` included.

Fairness, used in `upload_live`, `registry_collector`, `upstream_auth`, `lifecycle` and
`store_shutdown`. Weak fairness of a handler's steps:
goroutines are scheduled; every call out has a timeout (the HTTP clients' 60 s, the
configured IPFS and federation timeouts), and the server's 30 s ReadTimeout ends a copy
from a client that stops sending. Strong fairness of `Lock`, and of what is granted by bbolt's
locks: Go's `sync.Mutex` hands itself to a waiter that has waited a millisecond, and a waiting
writer of a `sync.RWMutex` keeps new readers out. Weak fairness of the
collector in `upload_live` and `registry_collector`: its ticker fires while the process lives; neither
run has crashes. In `registry_collector` this does not assume the sweep's hang away: `GCHangs` may be
taken at any delete, it disables every step that is a transaction, and the liveness properties end
in `Stuck`. `upload_live` has the sessions' half of the sweep alone and is about a system whose
other half does not hang. In `lifecycle` no tick is assumed, only that a sweep goes on. Nothing is assumed
of signals, clients, requests, peers, upstreams, messages, crashes or the growth of the file.

## 4. What the violation runs show

* `upload_integrity`: nothing fails in this run. A PUT without a digest is answered 400
  (`handler.go:517`) while the upload stays open; its deferred function unlocks and then removes
  the mutex from `uploadMu` (511-513). A handler that waited on that mutex and a newcomer with a
  new one enter together; a PATCH appends between the other PUT's hash (543-557) and its
  second read for IPFS (567-570): the content stored under the digest is another.
* `registry_fallback`: a mapped blob that the node cannot read is answered 500 for ever
  (`handler.go:371`), the upstream is not asked.
* `store_shutdown`: a signal arrives while the collector's callback is about to delete a mapping;
  requests drain, `Stop` only cancels the context (`gc.go:47`), and `store.Close` takes the
  write lock and then waits for the sweep's read transaction, whose `DeleteMapping` waits for
  the write lock. A second SIGTERM is caught and not read, so that only a kill ends the process
  (`main.go:196`, "Graceful shutdown").

The counterparts that do hold are checked beside them: `PushIntegrity` and
`ImplementsAtomicUpload`, `CacheOutlivesUpstream`, `StopsUnlessHung`. More limits of the
code are written into properties that hold, which therefore do not catch these hazards but bound
them (`hazards` says so at each): blobs are streamed while they are hashed
(`handler.go:387`), so `ServedManifestsVerified` speaks of manifests; and a mapping that is
stored anew while a sweep holds the old one is deleted with it (`gc.go:111`) or unpinned
(`gc.go:102`), so `SparesYoung` and `OwnContentPinned` speak of the others; a mapping announced anew under
the same CID expires with its first announcement (`federation.go:71`), so `NoEarlyExpiry` speaks
of replaced ones; a scope built from the path opens nothing (`client.go:248`), so `RefusedForCause`
counts it as a cause. Another limit came out of the proof of
`OwnContentPinned` and TLC has the trace: an upstream that sends a wrong digest header, or a peer that
names a wrong CID, makes a digest map to another digest's CID, and the sweep that collects this
mapping unpins the other's content, young and pushed here as it may be (`gc.go:103`). The property
therefore speaks of registries whose upstreams and peers are `Truthful`.

## 5. Proofs

`tlapm` checks every theorem for all values of the constants, under the named
assumptions of each module (sets, sentinels outside them, natural numbers), which TLC
evaluates in the runs.

**Uploads** (`UploadSessionProofs`).
* `TypeCorrect`: `TypeInv` adds to the types what a handler's locals hold at each label.
* `UploadExclusion`: `ExclusiveWriter` is not inductive. `ExclusionInv` adds `MutexInv` (a
  handler in its critical section has a locked mutex, and alone) and `EntryInv` (while an upload
  is alive and not let go of, all its handlers use the one mutex that its entry holds).
  Crashes, faults and the collector included.
* `PushesAreTrue`: `IntegrityInv` adds what a handler that has matched the digest vouches for
  until the mapping is stored; it rests on exclusion, because the file is read twice.
* `AcknowledgedPushesAreStored`: `AckInv` follows the CID from the add to the mapping.
* `ClosedUploadsStayClosed`: `ClosedInv` says that the upload of an acknowledged PUT was issued and
  is alive no more; that no waiter revives it is `EntryInv` (whoever waits on the mutex finds
  the session gone).
* `RangesLieWithinFiles`: `RangeInv` counts, for a handler that has read the session and copied
  blocks (`Backed`), what it saw and what it copied against its file. It needs no
  exclusion: files only grow until they are removed, and a removed upload is spoken of no more.
* `OrphansComeFromFailures`: every file is its session's, the collector's to remove next, or some
  handler's to finish or to answer for with 500 (`Owned`). The theorem assumes that `Faults` has no failing file operation, no
  failing transaction and no crash, and needs it: a `SaveSession` that fails after the
  collector has deleted the session leaves a file and a 202, and so does a removal that fails.
  Failing copies and adds, the collector and lost mutex entries are included.

* `UploadsAreAtomic` (`AtomicUploadProofs`): every step is a step of `AtomicUpload` or a
  stutter. The invariant is the conjunction of the three above with `AnsweredInv` (a
  status is set only by returning). A stored mapping is one abstract blob because `Integrity`
  makes the mapping it replaces equal to it (`StoresBlob`); an acknowledgement finds its
  blob because the digest is mapped and vouched for (`MappedIsStored`); a crash is `Fail` of
  all requests under way. One lemma per action that shows, one for all that do not.

**Rate limiter** (`RateLimiterProofs`).
* `LimiterTypeCorrect`, `NobodyLockedOut`: the invariant is `OpenedByAdmission`, the request
  that opened a counter's window was admitted and lies back at most a window.
* `LimiterImplementsBudget`: initial states map to initial states; `Open` to `Open`; `Count` to
  `Use` or, refused, to a stutter; `Cleanup` to `Forget`.
* `AtMostTwoBudgets`: a span as long as a window meets at most two windows. `SpanInv` says
  so without sums: since the counter's window opened no more than its capped count was admitted, in
  a span that ended where it opened at most one budget, and an expired or missing counter has
  admitted nothing at this moment, so a new window does not share its first moment with an old one.

**Federation** (`FederationProofs`).
* `FederationTypeCorrect`, `TableOfQueriesDrains`: together one invariant (`Table`), because a
  response that fills a channel must find a query that is under way.
* `CacheDrains`: an entry's goroutine is only used up by taking the entry out.
* `NothingExpiresEarly`, an action property: `DueInTime` says that the timers that fit an entry
  set while none slept are due a TTL after it was set. Timers of a replaced CID do not fit.
* `AnswersMatchQueries`: `MatchInv` says that a query or response under way carries the
  digest of some query with its ID, and that two queries with one ID have both collided.

**Registry** (`RegistryProofs`, `RegistryCacheProofs`). Every invariant rests on `TypeInv`: the
types, what a handler's variables hold at each label (`Knows`), and that what is left of a
sweep was old in its snapshot (`SweepOK`).
* `RegistryTypeCorrect`.
* `MappingsAreVerified`: `VouchInv` adds what a handler has compared before it stores; pushes,
  blobs from an upstream and manifests from peers reach `map` only with their digest's own CID.
* `ServedIsVerified`: `ServeInv` adds that among the manifest reads only those that asked an upstream
  ever store, and these are the ones the property excepts (`straight`).
* `TagsNameStored`: `TagInv` adds that who is about to store a tag has stored its mapping.
  A crash between the two loses the handler, not the order.
* `StaleTagsRevalidated`: `StaleInv` follows a handler that found its tag stale: what the upstream
  has now is among what was `seen`, the handler fetches by tag first, and only a failure of the
  upstream takes it off the route (and out of `stale`).
* `CollectorSparesYoung`, an action property, from `SweepOK`.
* `OwnContentStaysPinned`: `TruthInv` (with truthful upstreams and peers every digest in a
  mapping, a snapshot or a handler goes with its own CID) makes unpinning a matter of one digest;
  `PinInv` adds that what a handler has added and not yet mapped is pinned, unless the
  collector has passed by (`raced`).
* `CacheServes`: `KeptInv` holds where nothing is deleted or collected: what is tagged is mapped, what
  is mapped is pinned on the node, and a GET that found its tag still has an attempt
  left that needs neither upstream nor peer.

**Upstream client** (`UpstreamAuthProofs`). `AuthInv` is `TypeOK`, whose part `CacheOK` bounds
what the cache promises by the token's life less the margin, with what each fetch knows at its
label (`Knows`).
* `AuthTypeCorrect`; `RetriesCarryOwnScope`, for any interleaving of fetches; `MarginCovers`: the
  time a token spends on its way to the cache and the request on its way to the upstream add up
  to no more than the margin.
* `FetchesRefusedForCause`, an action property: of all steps only `RetryRefused` ends a fetch
  unauthorized, and there the invariant leaves the three causes.

**Process** (`LifecycleProofs`). `LifeInv` joins the state properties with `Stages` (what main's
stage says of the database and of the requests), `ClosedIsQuiet` (bbolt closes under no transaction),
`Serving` and `Sweeping` (who waits or has a transaction is in a call or in the sweep; the sweep keeps its
read transaction until it ends) and `Pins` (no mapping is lost before the one whose turn it
was at the cancel). One lemma per action.
* `LifecycleTypeCorrect`, `OnlyLateHandlersRefused`, `OnePinLost`.
* `NoPinlessMapping`, an action property: a sweep that has given up a pin is inside its own read
  transaction, so `Close` is not through, its delete is not refused, and its next step deletes the
  mapping. It would not hold of a collector that deleted outside `ForEachMapping`, hang or no hang.

Every safety invariant and every safety action property that a passing run checks has its theorem.
Only model-checked: liveness (`EveryRequestAnswered`, `StaleSessionCollected`, `OldIsCollected`,
`FetchEnds`, `EveryCallEnds`, `StopsUnlessHung`), because nothing can be proved here under fairness or
with ENABLED.

## 6. Left out, and the plan

### Not modelled

Left out for good: formats and encodings (JSON, base64, multipart), headers and status
texts, logging, metrics, health endpoints, the stateless authentication check, configuration
loading, deployment files.

What the models leave of the modelled parts, and why:

* Two revalidations of one tag that overlap (`resolver.go:220`): the older upstream answer may be
  stored last, and stays for a TTL. `Registry` has these behaviours (`seen` collects what the
  upstream held); nothing in the code or its documentation promises an order, so no
  property is stated.
* A monolithic upload's temp file after a crash, a blob that fails verification after it was added and
  pinned, tags of deleted manifests: the code has no step that would clean them up and promises none.
  The models contain these states; `hazards` names the lines.
* Tag announcements and `Federation.Stop`: the former have no caller, the latter waits for
  goroutines that touch nothing the models share.
* bbolt's `metalock` and file lock; the directories and the configuration chosen at start.
* `parseImageName`, `normalizeDigest`, `shouldAnnounce` and `ListTags`: pure functions
  of strings (the first character up to a slash, a colon or a dot). Which upstream a name leads to
  and whether a mapping is announced are constants of `Registry` and `UploadSession`.

### Plan

1. Lemmas that the liveness properties rest on and that are safety: a measure of a request's steps
   that every step of its handler lowers, an attempt of `plan` never comes back.
2. A wider abstract specification: a registry that answers a GET with what was stored or
   what an upstream sent, implemented by `Registry`.
3. The pure functions against reference definitions over small alphabets.

New questions are first asked in runs that exist already, with a wider instance, before a
run is added.
