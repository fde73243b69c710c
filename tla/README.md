# TLA+ models of the indexing service

This directory holds the TLA+ modules, the TLC configurations and the project file
(`PROJECT.json`) for the indexing service in `../src`. The models cover:

- the query engine of `pkg/service/service.go`, with the job walker that drives it
  and the claim and index caches it calls;
- an abstract specification of what `Query` promises, which the engine is checked
  to implement;
- an abstract specification of what the job walker promises (`WalkSpec`), which the
  walker driving an arbitrary handler is checked to implement;
- the provider cache: `ProviderIndex.Find` and `Publish` over the Redis provider
  store of `pkg/redis/providerstore.go`;
- the advertisement-entries iterator of `pkg/service/providerindex/publisher/store.go`.

The natural-language spec is `../spec.md`.

## 1. Inventory

### Components

| Component | Source | State it keeps | Operations |
|---|---|---|---|
| **QueryEngine** (`IndexingService`) | `service.go` | Per query: `queryState{q, qr{Claims, Indexes}, visits}`. Per handler: the provider results, the decoded protocols, the current record and the index it fetched. | `Query`; `jobHandler` (dedup, `providerIndex.Find`, decode metadata, `LookupClaim`, the equals/index/location dispatch, `blobIndexLookup.Find`, spawning shard jobs); `CacheClaim` and `PublishClaim` (both unimplemented); `NewIndexingService` / `WithConcurrency` |
| **JobWalker** (serial, parallel) | `pkg/internal/jobwalker/...` (not in `src/`; spec.md 4.1, 5) | The work queue, the workers, the shared state behind `Access`/`CmpSwap`, and the first error. | `Walk`, `spawn`, `CmpSwap`, `Access` |
| **ProviderIndex** | interface in `service.go` 44-58 (spec.md 4.2) | The provider cache (Redis), plus IPNI and legacy stores outside the process. | `Find` (read-through, then claim-type and space filters), `Publish` |
| **ClaimLookup** | interface in `service.go` 60-67 (spec.md 4.3) | A claim cache keyed by claim CID. | `LookupClaim` (probe, fetch, store) |
| **BlobIndexLookup** | interface in `service.go` 69-78 (spec.md 4.4) | An index cache keyed by context ID. | `Find` (probe, fetch, store, and an async `Publish` of the index's multihashes) |
| **Redis provider store** | `pkg/redis/providerstore.go`, and the test with its mock client in `unnamed/part_001` | key → (CBOR value, expiration) | `Set(k, v, expirable)`, `SetExpirable`, `Get` (`ErrKeyNotFound`) |
| **Provider results codec** | `unnamed/part_000` | none | `MarshalCBOR`, `UnmarshalCBOR`, `Equals` |
| **Advert store** | `publisher/store.go` | a datastore, read-only | `Advert`, `Entries` (a range-over-func iterator over a linked chain of entry chunks) |
| **Assertion schema** | `assert.ipldsch` | none | none; it is a data layout |

### How the components interact

`Query` builds one `standard` job per input hash. It hands them to the walker
together with `jobHandler` and the shared `queryState`. The handler makes
synchronous calls to ProviderIndex, ClaimLookup and BlobIndexLookup. It mutates
the shared state only through `CmpSwap`, and it creates new jobs through the
walker's `spawn` callback:

- an equals claim leads to a `location` job for the other side;
- an index claim leads to an `equals_or_location` job for the index blob, which
  carries `indexForMh` and the provider record;
- the location of an index blob leads to fetching the index, then to an
  `equals_or_location` job for each shard that holds `indexForMh`.

ProviderIndex reads through its Redis cache to IPNI. `Publish` writes a record into
the same cache and announces it to IPNI. BlobIndexLookup publishes back into
ProviderIndex, asynchronously.

### What makes it hard

- **Concurrency.**
  - In parallel mode, N workers run handlers at once. They race on `visits`,
    `Claims` and `Indexes`, on the queue, on the two caches, and on the walker's
    decision that the walk is done.
  - In the provider cache, `Find` calls and `Publish` calls race on the same Redis
    keys, while Redis expires entries and IPNI ingests advertisements on its own
    time.
- **Cycles.** An equals claim is published under both of its hashes, and a
  `location` job acts on every claim of a record it gets back. So location jobs
  of the two hashes spawn each other, and the job graph has a cycle. Termination
  rests on deduplication by job key.
- **Failure.**
  - Every I/O call may fail. The first error cancels the walk and returns a
    partial result.
  - `Publish` has no error result, so a failure halfway through it is silent.
- **Ordering.** Jobs, and the shards of an index, run in an order nobody controls.
  The result must not depend on that order.
- **Conventions between components.**
  - The equals branch reads a record's context ID as a multihash.
  - ProviderIndex's space filter makes the context ID `H(space, hash)` instead.
- **Range-over-func iterators.** Once `yield` has returned false, calling it again
  panics.

## 2. Modules

| Module | Models | Kind |
|---|---|---|
| `JobWalker.tla` | The walker: queue, worker pool, `Take`, `Spawn`, `ReturnNil`, `ReturnErr` (first error cancels), `Finish`, `ReturnCancelled` (returns the error once every handler is idle). | spec-modelled, because its code is not in `src/` |
| `WalkSpec.tla` | What `Walk` promises: a bag of outstanding jobs; handling a job replaces it by the jobs it spawns; the walk completes only at quiescence; after an error work may be abandoned, but the error is returned only once nothing is in flight; the walk returns. | abstract specification |
| `GenericWalk.tla` | The walker driving a handler that only spawns (`Begin`, `SpawnNext`, `Fails`, `Returns`), with the refinement mapping to `WalkSpec`. It `EXTENDS JobWalker`. | spec-modelled |
| `MCGenericWalk.tla` | A diamond of jobs (J1 spawns J2 and J3, both spawn J4), three workers, any handler may fail. | model |
| `QueryEngine.tla` | `Query` and `jobHandler`, step by step, one action per code path. Also the claim and index caches' read-through steps. The collaborators' calls succeed or fail. It `EXTENDS JobWalker`. | from `service.go`; the cache steps come from the interface comments and spec.md 4.3-4.4 |
| `QuerySpec.tla` | What `Query` promises. The result grows only by promised claims and indexes, and an index is never replaced. The query completes only with everything promised, or fails. It always returns, and the result is frozen afterwards. | abstract specification |
| `MCQueryEngine.tla` | The backends for the query runs: the spec.md 8 scenarios folded into one graph, plus space-scoped and mixed-protocol variants. | model |
| `RedisStore.tla` | `ProviderStore` over the Redis client: keys made by `multihashKeyString`; SET, EXPIRE and PERSIST as the mock implements them; `Set`, `SetExpirable` and `Get` as the store's test requires them; Redis expiry. | from `providerstore.go` and `part_001` |
| `ProviderCache.tla` | Concurrent `Find` and `Publish` calls over `RedisStore`, with IPNI ingestion and Redis expiry as the environment, and a crash of the service process as a fault. | from the `ProviderIndex` interface comment (the implementation is not in `src/`) |
| `MCProviderCache.tla` | Two multihashes, IPNI records with and without content claims, two Publishes and two Finds. | model |
| `AdvertEntries.tla` | `Entries` of `publisher/store.go`, with a RECURSIVE reference definition of what a chain yields. | from `store.go` |
| `MCAdvertEntries.tla` | Every datastore over three links and two multihashes in which each chunk holds at most two entries and links point forward, with missing and corrupt blocks. | model |

### How QueryEngine corresponds to the code

Each worker `w` has a program counter `wpc[w]` that follows the handler:

| Location | Actions | Code |
|---|---|---|
| `dedup` | `Visit`, `SkipVisited` | the `CmpSwap` on `visits`, lines 126-134 |
| `find` | `FindProviders`, `FindFails` | `providerIndex.Find`, lines 137-144 |
| `results` | `DecodeMetadata`, `DecodeFails`, `HandlerDone` | the outer loop and `UnmarshalBinary`, lines 145-151 and 238 |
| `protocols` | `SkipNonClaim`, `ClaimCacheHit`, `ClaimCacheMiss`, `ProtocolsDone` | the inner loop, lines 154-160, and the cache probe of `LookupClaim` |
| `fetch` | `FetchClaim`, `FetchClaimFails` | `LookupClaim`'s fetch and store, lines 161-167 |
| `dispatch` | `HandleEquals`, `HandleIndex`, `HandleLocation`, `IndexCacheHit`, `IndexCacheMiss` | the claim `CmpSwap` and the type switch, lines 168-214 |
| `fetchindex` | `FetchIndex`, `IndexLookupFails` | `blobIndexLookup.Find`'s fetch and store, lines 211-214 |
| `index` | `AddIndex` | the index `CmpSwap` and the shard spawns, lines 215-234 |

Within these actions:

- every claim action first adds the claim (`AddClaim`, the `CmpSwap` of lines
  168-177);
- `AddIndex` sets `indexes` under the result's context ID if it is absent. It then
  spawns the shard jobs in any order (`SetToSeqs`), because map iteration order is
  unspecified;
- a failing call returns the error (`ReturnErr`). The first error moves the walk to
  `cancelling` and cancels its context. The state changes made before the failure
  remain.

**Cancellation.** A handler goroutine does not look at the walk's status. It runs
its next step whatever the status, and cancellation reaches it only through its
I/O calls: once the walk is cancelled, every I/O call fails (`IOFails`). Decoding
metadata is not I/O and still succeeds. `Walk` returns the first error
(`ReturnCancelled`, status `failed`) only when every worker is idle. Until then the
caller cannot tell that the walk was cancelled, so the refinement maps `cancelling`
to `running` (`QueryStatus`).

The two caches are `claimCache` (claim CIDs) and `indexCache` (context ID → blob).
`fetched` is a history bag of every key fetched from origin, used only by
`CacheTransparency`.

The data are abstracted as follows:

- Multihashes, claim CIDs and spaces are model values.
- A record is `[ctx, blocks]`.
- A claim is identified by its CID.
- An index is a function from a shard to the multihashes it holds.
- `EncodedContextID(s, h)` is the pair `<<s, h>>`, an injective hash.
- The job key is the tuple `<<mh, kind, indexForMh>>`. The code concatenates the
  bytes, which is injective because multihashes are self-delimiting.

The provider address and the URLs are dropped, because both URL helpers return
`url.URL{}`.

### The refinement of QuerySpec

`QueryEngine` instantiates `QuerySpec` with `claims` and `indexes` mapped to
themselves and `status` to `QueryStatus`. `Promised` and `PromisedIndexes` are mapped to `NeededClaims` and
`NeededIndexes`, which are computed from the backend:

- every claim found for a queried hash;
- the location claims of the other side of each equals claim;
- for each index claim: the location of the index blob, the index itself, and the
  location claims of the shards that hold the hash.

`QuerySpecRefined == QS!Spec` is checked as a PROPERTY. It carries the safety part
(every step is a `Gather`, `Fail` or `Complete` step, or a stutter). It also
carries the liveness part: the query eventually fails or completes.

### The refinement of WalkSpec

`GenericWalk` runs the walker with a handler that spawns the children
`Spawns[j]` of its job one at a time, and may fail at any point. The mapping
`Outstanding` gives `WalkSpec`'s bag of pending jobs:

- the queue, counted only while the walk is running (a cancelled walk abandons it);
- plus, for each worker, its job if the handler has not started;
- or the children it has not yet spawned, once it has started.

`WalkSpecRefined == W!Spec` is checked as a PROPERTY. It fails if a job is lost or
handled twice, if the walk completes while something is queued or in flight, if
the error is returned while a handler still runs, or if the walk never returns.

### How ProviderCache corresponds to the code

| Call | Actions | Steps (interface comment, `service.go` 46-57) |
|---|---|---|
| `Find(f)` | `FindHit`, `FindGetFails`, `FindMiss`, `FindQueryIpni`, `FindFill` | GET the key; on a miss, query IPNI and keep the content-claim records; SET them, expirable |
| `Publish(p)` | `PublishWrite`, `PublishAnnounce`, `PublishExpire`, `PublishExpireFails`, `PublishDone` | SET the record without expiration under each multihash; announce; EXPIRE each entry ("no expiration until publishing is complete") |
| environment | `Ingest(p)`, `Expiry(k)` | IPNI ingests an announced advertisement; Redis drops an expirable key |
| fault | `Crash` (when `CanCrash`) | the service process dies: every Find and Publish in flight is lost and none is resumed; Redis and IPNI keep their state |

`RedisStore` follows the mock client:

- SET replaces both the value and the expiration;
- EXPIRE and PERSIST act only on a present key;
- `Set(k, v, expirable)` stores with `DefaultExpire` or 0;
- `SetExpirable(true/false)` is EXPIRE or PERSIST;
- the codec is an encoding that decoding inverts.

## 3. Runs

| Run | Config | Bounds | Shows |
|---|---|---|---|
| `query_serial` | `MCQueryEngine_serial.cfg` | 1 worker; query `<<H1, H2, H1>>`; every I/O may fail; the location jobs of H1 and H2 spawn each other; the index blob HI is located by two index claims (about 350 states) | `TypeOK` and `QuerySpecRefined` hold, both on success and at every failure point. The walk returns although the job graph has a cycle, and the second lookup of HI hits the index cache. |
| `query_parallel` | `MCQueryEngine_parallel.cfg` | 2 workers; the same query over the cyclic backend without the second index claim (about 124,000 states) | `QuerySpecRefined` holds under every interleaving of two handlers and every order of the shard spawns. |
| `query_space_equals` | `MCQueryEngine_space.cfg` | 1 worker; query `<<H2>>` scoped to `Sp1` | Violation of `QueryPromise`: the content side of the equals claim is never looked up. |
| `query_kind_filter` | `MCQueryEngine_kind.cfg` | 1 worker; query `<<H1>>`; H2's record lists a location and an index claim together | Violation of `KindRespected`: a `location` job handles an index claim. |
| `query_cache_parallel` | `MCQueryEngine_cache.cfg` | 2 workers; no failures | Violation of `CacheTransparency`: two handlers miss on the same claim CID and both fetch it. |
| `walker_generic` | `MCGenericWalk.cfg` | 3 workers; the diamond J1 → J2, J3 → J4; `MaxQueue = 4`; every handler may fail (about 1,300 states) | `WalkSpecRefined` holds: no job is lost or duplicated, completion only at quiescence, the error only after every handler has returned, and the walk always returns. |
| `provider_cache` | `MCProviderCache.cfg` | 2 Publishes (one shares a key with the other), 2 Finds, GET may fail (about 21,000 states) | `NoStrayPersistentEntry` and `PublishedEventuallyServed` hold. |
| `provider_cache_expire_one` | `MCProviderCache_expire_one.cfg` | 1 Publish whose EXPIRE may fail, 2 Finds, GET may fail, the process may crash at any point (about 2,650 states) | `PublishedEventuallyServed` still holds. A failed EXPIRE or a crash leaves a stray entry, but with one Publish that entry holds the published record; a crash after the Publish returned takes nothing back. Two Publishes are in `provider_cache_crash`. |
| `provider_cache_fill_race` | `MCProviderCache_visible.cfg` | 1 Publish, 2 Finds | Violation of `PublishedVisibleWhilePublishing`: Find's read-through fill overwrites the Publish's entry. |
| `provider_cache_expire_error` | `MCProviderCache_expire.cfg` | EXPIRE may fail; the process may crash | Violation of `NoStrayPersistentEntry`: a Publish cut off after its write (here by a crash) leaves an entry that never expires. |
| `provider_cache_crash` | `MCProviderCache_crash.cfg` | 2 Publishes sharing K1, 2 Finds; EXPIRE and GET do not fail; the process may crash | Violation of `PublishedEventuallyServed`: P2 returns, P1 overwrites K1 without expiration and the process dies, so P2's record is never served for K1 again. |
| `advert_entries` | `MCAdvertEntries.cfg` | All acyclic chains of three links, at most two entries per chunk, missing or corrupt blocks; the consumer may stop at any yield; `MaxYields = 7` (about 78,600 states) | `EntriesMatchChain` (checked against the RECURSIVE `ChainItems`), `NoYieldAfterStop` and `Termination` hold. |

**Properties that relate several steps.**

- `QuerySpecRefined` is a refinement. It fails if any step shrinks the result,
  replaces an index, or adds something not promised. It also fails if the query
  completes without everything promised, or if it never returns.
- `KindRespected` is an action property. A step that handles a claim must handle a
  claim of a type the job's kind targets.
- `WalkSpecRefined` is a refinement whose mapping sums the queue and every
  worker's unfinished work. It fails if the walk completes or returns its error
  while some handler is still running.
- `PublishedEventuallyServed` is `<>[]`: every finished Publish is eventually, and
  from then on for ever, visible to Find.

**Why these bounds are enough.** The query backend contains, once each:

- a direct location claim;
- an equals claim seen from both sides, in records that also list each hash's
  location commitment, so the location jobs of H1 and H2 spawn each other (a
  cycle that only dedup ends);
- an index claim, whose index blob is located by a record that also lists a
  non-claim protocol;
- a second index claim for the same blob, so the index cache is hit;
- an index with two shards that hold the hash, which can be spawned in either
  order, and one shard that does not;
- a hash queried twice.

With two workers, the two handlers that both reach the equals claim run truly in
parallel, and so does the completion check, which races the shard spawns. The
parallel run leaves out the second index claim. With it the state space grows
eightfold (about 460,000 states) without adding a new kind of race. `MaxQueue = 8`
is never reached: if it were, a spawn would block and the refinement's liveness
would fail.

The provider-cache instance has two keys and two Publishes that share one key. One
key starts with an IPNI record that lacks content claims. With two Finds, each
Find's three steps can interleave with each Publish step on the same key.

**Fairness.**

- Query and walker runs assume weak fairness of every worker, of `Finish` and of
  `ReturnCancelled`. Workers are
  goroutines, so each runnable one is eventually scheduled. Every I/O call either
  returns or fails, because the caller's context bounds it.
- The provider cache assumes weak fairness of each call, and also:
  - of `Ingest`: IPNI eventually ingests an announced advertisement;
  - of `Expiry`: a key with a TTL eventually expires.

  Both are properties of the environment that the code relies on. `Crash` has no
  fairness: a process may or may not die.
- `CHECK_DEADLOCK FALSE` is used where the system really does stop: a query in
  `done` or `failed`, and a provider cache with every call returned and no
  expirable key left.

**Mutants.** Each property of a passing run is shown to be breakable by a plausible
code bug (see `mutants` in `PROJECT.json`):

| Mutant | Fault | Property it breaks |
|---|---|---|
| `VisitNoDedup` | the dedup predicate is dropped | `QuerySpecRefined` (serial): the cycle never ends, so the query never returns |
| `HandleIndexNilRecord` | the spawned job keeps `indexForMh` but not the record | `TypeOK` |
| `FetchClaimFailsIgnored` | a lookup error is dropped and the loop goes on | `QuerySpecRefined` (serial) |
| `ShardJobsAll` | every shard is spawned, holding the hash or not | `QuerySpecRefined` (parallel) |
| `TakeOffByOne` | off-by-one in the queue check | `QuerySpecRefined` (its liveness) |
| `ReturnCancelledEarly` | `Walk` returns the error without waiting for in-flight handlers | `QuerySpecRefined` (parallel): a handler still adds to the returned result |
| `FinishQueueEmpty` | completion checks only the queue, not the busy workers | `WalkSpecRefined` |
| `StoreSetExpirableSwapped` | `SetExpirable` swaps EXPIRE and PERSIST | `NoStrayPersistentEntry` |
| `PublishAnnounceDropped` | the advertisement is never announced | `PublishedEventuallyServed` |
| `ReadFailsSilently` | a failed read returns without reporting the error | `EntriesMatchChain` |
| `YieldEntryIgnoringStop` | the result of `yield` is ignored | `NoYieldAfterStop` |
| `NextChunkStuck` | `cur` is not advanced | `Termination` of `Entries` |

## 4. Findings

**Space-scoped queries never resolve an equals claim from its equals side**
(`service.go:191`; run `query_space_equals`).

- The handler spawns `job{multihash.Multihash(result.ContextID), ..., location}`.
- ProviderIndex's space filter (`service.go` 51, spec.md 4.2 step 3) keeps only
  records whose context ID is `H(space, hash)`. So a surviving record's context ID
  is never the content multihash, and the spawned job finds nothing.
- spec.md 8 scenario 3 and the `Query` doc comment expect the content side's
  location claims.

**A job handles claims its kind does not target** (`service.go:154`; run
`query_kind_filter`).

- `targetClaims` selects which records come back.
- The loop then dispatches every claim protocol of each record. A record that lists
  a location commitment and an index claim makes a `location` job follow the index
  claim.
- spec.md 3 says the kind constrains which protocol types the handler acts upon.

**Concurrent misses fetch the same claim twice** (`service.go:164`; run
`query_cache_parallel`).

- Two handlers that reach the same claim CID both probe the cache, both miss, and
  both fetch.
- spec.md 8 asks for cache transparency: an identical lookup is fetched from origin
  at most once.
- The `LookupClaim` contract has no single-flight, so the code is consistent with
  its contract. The spec's requirement is the gap.

**A read-through fill hides a record while it is being published**
(`service.go:48`; run `provider_cache_fill_race`).

- `Find` misses and reads IPNI's older list.
- `Publish` writes its record without expiration.
- `Find`'s SET then replaces the entry with IPNI's list. The published record is
  not found until the stale entry expires and IPNI has ingested the advertisement.
- The `Publish` comment says the entries stay in the cache "with no expiration
  until publishing is complete".

**An unfinished Publish leaves an entry without expiration for ever**
(`service.go:57`; run `provider_cache_expire_error`).

- `Publish` returns nothing, so an EXPIRE error after the announcement cannot be
  reported or retried.
- Redis outlives the service process, and nothing records a Publish in progress.
  A process that dies between the write and the EXPIRE leaves the same entry.
- The entry then shadows IPNI for that multihash for good.
- With two Publishes sharing a key, the same failure can hide for ever the record
  of a Publish that has returned; see the next finding.

**A crash during one Publish hides another Publish's record for ever**
(`service.go:55`; run `provider_cache_crash`).

- P2 publishes R2 for K1 and returns.
- P1 then writes R1 to K1 without expiration, which replaces R2's entry, and the
  process dies before P1's SetExpirable.
- `Find` of K1 hits that entry for ever, so R2 is never returned for K1 although
  IPNI has ingested it. `PublishedEventuallyServed` fails.
- The interface comment says the entries lose their no-expiration status once
  publishing is complete. Nothing outside the process records a Publish in
  progress, so a restart can neither finish nor undo it.
- This depends on SET replacing the value, which is how the mock behaves.

**Not a finding: the loop-variable alias.** `&result` in the index branch
(line 198) is a fresh variable on each iteration, because the code uses
range-over-func and so needs Go ≥ 1.23.

## 5. Not modelled, and why

- **Handlers still running after `Walk` returns.** spec.md 7 says `Walk` returns
  the first error deterministically and that handlers observe cancellation. The
  model takes this to mean that `Walk` waits for them. The `ReturnCancelledEarly`
  mutant shows that a walker which did not wait would break `QuerySpec`.
- **`WithConcurrency(0)`.** `WithConcurrency` passes any int to the parallel walker,
  and `defaultConcurrency` is never used. Under spec.md 4.1's walker, no worker
  would take a job and `Query` would hang (`JobWalker` allows `Workers = {}`). The
  walker package is not in `src/`, so whether it clamps the count cannot be read
  from the code. The hazard is listed, but no run is spent on it.
- **Index publish (spec.md 4.4 step 3).** It is asynchronous and best-effort. Within
  one query nothing reads it, and its effect on the provider cache is a `Publish`,
  which `ProviderCache` models.
- **ProviderIndex's legacy fallback**, and `Set` errors inside `Publish` and `Find`'s
  fill. Both are unspecified beyond "can fail".
- **CBOR codec and schemas.** The codec and `assert.ipldsch` are byte-level
  encodings done by IPLD libraries. The model treats records as values.
- **`Advert`.** It is one get and one decode, with no state, and nothing in the
  sources calls it.
- **`CacheClaim` and `PublishClaim`.** Both return "not implemented" and change
  nothing.
- **Cyclic entry chains.** Links are CIDs of chunks that contain the next link, so a
  chain cannot cycle.

## 6. What further work would need

- **The query composed with the provider cache.** `ProviderFind` could read through
  `ProviderCache`. But `QuerySpec`'s promise is computed from a fixed backend, and a
  concurrent Publish changes what is promised while the query runs. The two
  components already show their races separately: the fill race in
  `provider_cache_fill_race`, and the cycle and the cache races in the query runs. A
  composed run would need a promise defined over a changing backend, and a state
  space that TLC cannot reach with the current backend.
- **Caches across queries.** Claims are keyed by CID and never go stale. The only
  cache key that could go stale is the context ID of the index cache. It would
  need index blobs that share a context ID. A context ID is H(space ‖ multihash)
  (spec.md 2), and the content-hash convention of spec.md 9 is for equals claims
  only, so records of different index blobs do not share one.
- **Serial against parallel.** A completed query's result equals the promised set
  (`QuerySpec`'s `Complete` together with `ClaimsGrow`), whatever the walker. So
  both modes have the same outcome by the refinement they already pass.
