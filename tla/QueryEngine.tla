---------------------------- MODULE QueryEngine ----------------------------
(***************************************************************************)
(* The query engine of src/pkg/service/service.go: IndexingService.Query   *)
(* and its job handler, run by the job walker.                             *)
(*                                                                         *)
(* Data are abstracted to what the properties tell apart: multihashes,     *)
(* claim CIDs and spaces are model values; a provider record is its        *)
(* context ID and its decoded metadata (a sequence of protocol blocks);    *)
(* a claim is its CID (a claim is fetched by CID, so equal CIDs give equal *)
(* claims); a sharded DAG index is a function from shard multihash to the  *)
(* set of multihashes the shard holds.  Provider addresses and URLs are    *)
(* left out: fetchClaimUrl and fetchRetrievalUrl ignore them.              *)
(*                                                                         *)
(* The collaborators (ProviderIndex, ClaimLookup, BlobIndexLookup) are     *)
(* interfaces whose implementations are not among the sources; here each   *)
(* call returns what its spec.md contract says, or an error.               *)
(***************************************************************************)
EXTENDS JobWalker, SequencesExt, Bags, TLC

CONSTANTS
  Multihashes,  \* content multihashes of the backend
  ClaimCids,    \* CIDs of the content claims of the backend
  Spaces,       \* space DIDs
  None,         \* a nil pointer / absent optional field
  Records,      \* Records[h]: provider records the routing index holds for h
  Blobs,        \* Blobs[h]: the sharded DAG index stored in the blob h
  QueryHashes,  \* q.Hashes, a sequence
  QuerySubject, \* q.Match.Subject, a set of spaces
  CanFail       \* whether the I/O calls of the handler may return errors

(* EncodedContextID: the hash of a space DID with a multihash.  Modelled  *)
(* as the pair, which is what an injective hash tells apart.              *)
EncodedContextID(space, h) == <<space, h>>

(* Byte strings that occur as multihashes or context IDs. *)
Bytes == Multihashes \cup {EncodedContextID(s, h) : s \in Spaces, h \in Multihashes}

(* Protocol blocks of a record's metadata.  The content field of an       *)
(* equals block is not on the wire: it records what the claim asserts     *)
(* (content = equals) and is read only by the properties.                 *)
EqualsBlocks == [type : {"equals"}, claim : ClaimCids, equals : Multihashes, content : Multihashes]
IndexBlocks == [type : {"index"}, claim : ClaimCids, index : Multihashes]
LocationBlocks == [type : {"location"}, claim : ClaimCids, shard : Multihashes \cup {None}]
OtherBlocks == [type : {"other"}]   \* a protocol without a claim CID (e.g. a transport)
Blocks == EqualsBlocks \cup IndexBlocks \cup LocationBlocks \cup OtherBlocks

ProviderRecords == [ctx : Bytes, blocks : Seq(Blocks)]

ASSUME Records \in [Multihashes -> Seq(ProviderRecords)]
ASSUME \A h \in DOMAIN Blobs : Blobs[h] \in [DOMAIN Blobs[h] -> SUBSET Multihashes]
ASSUME QueryHashes \in Seq(Multihashes) /\ QuerySubject \subseteq Spaces
ASSUME CanFail \in BOOLEAN

JobTypes == {"standard", "location", "equals_or_location"}

(* targetClaims: the protocols a ProviderIndex query asks for, per job type. *)
targetClaims ==
  [standard |-> {"equals", "index", "location"},
   location |-> {"location"},
   equals_or_location |-> {"index", "location"}]

(* A job.  indexForMh and indexProviderRecord are set together (only an  *)
(* index claim spawns them), as the dereference of indexProviderRecord in  *)
(* the handler requires.                                                    *)
Jobs == [mh : Bytes, indexForMh : {None}, indexProviderRecord : {None}, kind : JobTypes]
        \cup [mh : Bytes, indexForMh : Bytes, indexProviderRecord : ProviderRecords,
               kind : JobTypes]

MkJob(mh, indexForMh, rec, kind) ==
  [mh |-> mh, indexForMh |-> indexForMh, indexProviderRecord |-> rec, kind |-> kind]

(* job.key: mh ++ jobType ++ indexForMh.  A multihash is self-delimiting,  *)
(* so the concatenation tells keys apart exactly as the tuple does.       *)
key(j) == <<j.mh, j.kind, j.indexForMh>>

(* ProviderIndex.Find (spec.md 4.2, steps 2 and 3): the routing index's    *)
(* records for h, keeping those with a block of a targeted protocol and,   *)
(* when spaces are given, those whose context ID is H(space, h).           *)
ProviderFind(h, spaces, target) ==
  LET recs == IF h \in Multihashes THEN Records[h] ELSE << >>
      Wanted(r) ==
        /\ \E i \in DOMAIN r.blocks : r.blocks[i].type \in target
        /\ spaces # {} => \E s \in spaces : r.ctx = EncodedContextID(s, h)
  IN SelectSeq(recs, Wanted)

(* The blob holding the index: the shard of the location commitment, or    *)
(* the raw CID of the located multihash.                                   *)
ShardOf(b, j) == IF b.shard = None THEN j.mh ELSE b.shard

-----------------------------------------------------------------------------


VARIABLES
  visits,   \* queryState.visits: keys of the jobs whose handler body ran
  claims,   \* DOMAIN of QueryResult.Claims
  indexes,  \* QueryResult.Indexes: context ID -> blob whose index it holds
  results,  \* results[w]: provider results handler w has not yet decoded
  current,  \* current[w]: the provider result handler w is working on
  protos,   \* protos[w]: protocols of current[w] not yet handled
  claimCache, \* ClaimLookup's cache: the claim CIDs it holds
  indexCache, \* BlobIndexLookup's cache: context ID -> blob whose index it holds
  index,    \* index[w]: the blob whose index blobIndexLookup.Find returned to w
  fetched   \* history: bag of the cache keys (claim CIDs, context IDs) fetched from origin

qeVars == <<visits, claims, indexes, results, current, protos, claimCache, indexCache, index,
           fetched>>
vars == <<walkerVars, qeVars>>

(* Query: one standard job per q.Hashes, empty results and visits. *)
InitialJobs == [i \in DOMAIN QueryHashes |-> MkJob(QueryHashes[i], None, None, "standard")]

Init ==
  /\ WalkerInit(InitialJobs)
  /\ visits = {}
  /\ claims = {}
  /\ indexes = [c \in {} |-> None]
  /\ results = [w \in Workers |-> << >>]
  /\ current = [w \in Workers |-> None]
  /\ protos = [w \in Workers |-> << >>]
  /\ claimCache = {}
  /\ indexCache = [c \in {} |-> None]
  /\ index = [w \in Workers |-> None]
  /\ fetched = EmptyBag

(* A worker goroutine runs the next step of its handler whatever the walk   *)
(* status: cancellation reaches it only through its I/O calls.             *)
At(w, pc) == wpc[w] = pc
GoTo(w, pc) == wpc' = [wpc EXCEPT ![w] = pc] /\ UNCHANGED wjob

(* The walker stays where it is while a handler step touches only state. *)
Local == UNCHANGED <<queue, status>>

(* An I/O call (ProviderIndex.Find, LookupClaim, blobIndexLookup.Find)   *)
(* returns an error: the backend fails, or the walk's context has been     *)
(* cancelled and the call observes it.                                      *)
IOFails == CanFail \/ Cancelled

(* Seeded fault: the dedup predicate is dropped. *)
VisitNoDedup(w) ==
  LET k == key(wjob[w]) IN
  /\ At(w, "dedup")
  /\ visits' = visits \cup {k}
  /\ GoTo(w, "find") /\ Local
  /\ UNCHANGED <<claims, indexes, results, current, protos, claimCache, fetched, indexCache, index>>

(* Dedup: CmpSwap inserts the job's key into visits if it is absent. *)
Visit(w) ==
  LET k == key(wjob[w]) IN
  /\ At(w, "dedup")
  /\ k \notin visits
  /\ visits' = visits \cup {k}
  /\ GoTo(w, "find") /\ Local
  /\ UNCHANGED <<claims, indexes, results, current, protos, claimCache, fetched, indexCache, index>>

(* ... and when it was present the handler returns nil. *)
SkipVisited(w) ==
  /\ At(w, "dedup")
  /\ key(wjob[w]) \in visits
  /\ ReturnNil(w) /\ Local
  /\ UNCHANGED qeVars

(* providerIndex.Find for the job's multihash, with the target claims of   *)
(* its type and the query's spaces.                                         *)
FindProviders(w) ==
  LET j == wjob[w] IN
  /\ At(w, "find")
  /\ results' = [results EXCEPT ![w] = ProviderFind(j.mh, QuerySubject, targetClaims[j.kind])]
  /\ GoTo(w, "results") /\ Local
  /\ UNCHANGED <<visits, claims, indexes, current, protos, claimCache, fetched, indexCache, index>>

FindFails(w) ==
  /\ At(w, "find")
  /\ IOFails
  /\ ReturnErr(w)
  /\ UNCHANGED qeVars

(* The next provider result: its metadata is decoded into protocols. *)
DecodeMetadata(w) ==
  /\ At(w, "results")
  /\ results[w] # << >>
  /\ current' = [current EXCEPT ![w] = Head(results[w])]
  /\ protos' = [protos EXCEPT ![w] = Head(results[w]).blocks]
  /\ results' = [results EXCEPT ![w] = Tail(results[w])]
  /\ GoTo(w, "protocols") /\ Local
  /\ UNCHANGED <<visits, claims, indexes, claimCache, fetched, indexCache, index>>

DecodeFails(w) ==
  /\ At(w, "results")
  /\ results[w] # << >>
  /\ CanFail
  /\ ReturnErr(w)
  /\ UNCHANGED qeVars

(* All provider results handled: the handler returns nil. *)
HandlerDone(w) ==
  /\ At(w, "results")
  /\ results[w] = << >>
  /\ ReturnNil(w) /\ Local
  /\ UNCHANGED qeVars

(* All protocols of the current result handled: on to the next result. *)
ProtocolsDone(w) ==
  /\ At(w, "protocols")
  /\ protos[w] = << >>
  /\ GoTo(w, "results") /\ Local
  /\ UNCHANGED qeVars

Proto(w) == Head(protos[w])
AtProto(w, types) == At(w, "protocols") /\ protos[w] # << >> /\ Proto(w).type \in types
NextProto(w) == protos' = [protos EXCEPT ![w] = Tail(protos[w])]

(* A protocol that carries no claim CID is skipped. *)
SkipNonClaim(w) ==
  /\ AtProto(w, {"other"})
  /\ NextProto(w) /\ Local /\ UNCHANGED wpc /\ UNCHANGED wjob
  /\ UNCHANGED <<visits, claims, indexes, results, current, claimCache, fetched, indexCache, index>>

ClaimTypes == {"equals", "index", "location"}

(* claimLookup.LookupClaim (spec.md 4.3), step 1: the cache is probed by   *)
(* the claim CID; a hit returns the cached claim.                          *)
ClaimCacheHit(w) ==
  /\ AtProto(w, ClaimTypes)
  /\ Proto(w).claim \in claimCache
  /\ GoTo(w, "dispatch") /\ Local
  /\ UNCHANGED qeVars

ClaimCacheMiss(w) ==
  /\ AtProto(w, ClaimTypes)
  /\ Proto(w).claim \notin claimCache
  /\ GoTo(w, "fetch") /\ Local
  /\ UNCHANGED qeVars

(* Step 2: on a miss the claim is fetched from its URL, parsed, stored in  *)
(* the cache and returned.                                                  *)
FetchClaim(w) ==
  LET c == Proto(w).claim IN
  /\ At(w, "fetch")
  /\ fetched' = fetched (+) SetToBag({c})
  /\ claimCache' = claimCache \cup {c}
  /\ GoTo(w, "dispatch") /\ Local
  /\ UNCHANGED <<visits, claims, indexes, results, current, protos, indexCache, index>>

(* The handler goes on with the next protocol of the record. *)
StepOn(w) == NextProto(w) /\ GoTo(w, "protocols") /\ UNCHANGED status

(* Seeded fault: the lookup error is dropped and the loop goes on with the *)
(* next protocol.                                                           *)
FetchClaimFailsIgnored(w) ==
  /\ At(w, "fetch")
  /\ IOFails
  /\ StepOn(w) /\ UNCHANGED queue
  /\ UNCHANGED <<visits, claims, indexes, results, current, claimCache, indexCache, index,
                 fetched>>

(* The fetch or the parse fails: LookupClaim returns the error, nothing is *)
(* cached, and the handler returns it.                                      *)
FetchClaimFails(w) ==
  /\ At(w, "fetch")
  /\ IOFails
  /\ ReturnErr(w)
  /\ UNCHANGED qeVars

(* The looked-up claim, dispatched on its protocol type. *)
AtClaim(w, types) == At(w, "dispatch") /\ Proto(w).type \in types

(* CmpSwap adds the claim to the results if absent. *)
AddClaim(w) == claims' = claims \cup {Proto(w).claim}

(* Equals claim: a location job for the other side of the equivalence;     *)
(* found under the equals hash, the content hash is read from the context  *)
(* ID of the provider result.                                               *)
HandleEquals(w) ==
  LET j == wjob[w]
      p == Proto(w)
  IN
  /\ AtClaim(w, {"equals"})
  /\ AddClaim(w)
  /\ Spawn(<<MkJob(IF p.equals # j.mh THEN p.equals ELSE current[w].ctx, None, None, "location")>>)
  /\ StepOn(w)
  /\ UNCHANGED <<visits, indexes, results, current, claimCache, fetched, indexCache, index>>

(* Seeded fault: the spawned job keeps indexForMh but not the record. *)
HandleIndexNilRecord(w) ==
  LET j == wjob[w] IN
  /\ AtClaim(w, {"index"})
  /\ AddClaim(w)
  /\ Spawn(<<MkJob(Proto(w).index, j.mh, None, "equals_or_location")>>)
  /\ StepOn(w)
  /\ UNCHANGED <<visits, indexes, results, current, claimCache, fetched, indexCache, index>>

(* Index claim: an equals-or-location job for the index, carrying the      *)
(* multihash it indexes and the provider result.                            *)
HandleIndex(w) ==
  LET j == wjob[w] IN
  /\ AtClaim(w, {"index"})
  /\ AddClaim(w)
  /\ Spawn(<<MkJob(Proto(w).index, j.mh, current[w], "equals_or_location")>>)
  /\ StepOn(w)
  /\ UNCHANGED <<visits, indexes, results, current, claimCache, fetched, indexCache, index>>

(* Location commitment for content: only recorded. *)
HandleLocation(w) ==
  /\ AtClaim(w, {"location"})
  /\ wjob[w].indexForMh = None
  /\ AddClaim(w)
  /\ StepOn(w) /\ UNCHANGED queue
  /\ UNCHANGED <<visits, indexes, results, current, claimCache, fetched, indexCache, index>>

(* The shards of the fetched index holding the multihash the index was    *)
(* looked up for, each spawned as an equals-or-location job.               *)
ShardsHolding(idx, h) == {s \in DOMAIN idx : h \in idx[s]}

(* Seeded fault: every shard of the index is spawned, holding or not. *)
ShardJobsAll(w, idx) ==
  {MkJob(s, None, None, "equals_or_location") : s \in DOMAIN idx}

ShardJobs(w, idx) ==
  {MkJob(s, None, None, "equals_or_location") : s \in ShardsHolding(idx, wjob[w].indexForMh)}

(* Location commitment of an index blob: the claim is added, then         *)
(* blobIndexLookup.Find (spec.md 4.4) probes its cache by the context ID   *)
(* of the result; a hit returns the cached index.                          *)
IndexCacheHit(w) ==
  LET ctx == current[w].ctx IN
  /\ AtClaim(w, {"location"})
  /\ wjob[w].indexForMh # None
  /\ ctx \in DOMAIN indexCache
  /\ AddClaim(w)
  /\ index' = [index EXCEPT ![w] = indexCache[ctx]]
  /\ GoTo(w, "index") /\ Local
  /\ UNCHANGED <<visits, indexes, results, current, protos, claimCache, indexCache, fetched>>

IndexCacheMiss(w) ==
  /\ AtClaim(w, {"location"})
  /\ wjob[w].indexForMh # None
  /\ current[w].ctx \notin DOMAIN indexCache
  /\ AddClaim(w)
  /\ GoTo(w, "fetchindex") /\ Local
  /\ UNCHANGED <<visits, indexes, results, current, protos, claimCache, indexCache, index,
                 fetched>>

(* On a miss the index is fetched from the shard's retrieval URL, parsed,  *)
(* stored in the cache under the context ID (a Set replaces what was      *)
(* there) and returned.                                                     *)
FetchIndex(w) ==
  LET blob == ShardOf(Proto(w), wjob[w])
      ctx == current[w].ctx
  IN
  /\ At(w, "fetchindex")
  /\ blob \in DOMAIN Blobs
  /\ fetched' = fetched (+) SetToBag({ctx})
  /\ indexCache' = ctx :> blob @@ indexCache
  /\ index' = [index EXCEPT ![w] = blob]
  /\ GoTo(w, "index") /\ Local
  /\ UNCHANGED <<visits, claims, indexes, results, current, protos, claimCache>>

(* The fetch or the parse fails (a blob that holds no index cannot be     *)
(* parsed): Find returns the error and the handler returns it.             *)
IndexLookupFails(w) ==
  /\ At(w, "fetchindex")
  /\ IOFails \/ ShardOf(Proto(w), wjob[w]) \notin DOMAIN Blobs
  /\ ReturnErr(w)
  /\ UNCHANGED qeVars

(* CmpSwap adds the index under the result's context ID if absent, and a  *)
(* job is spawned per shard of the index holding the indexed multihash    *)
(* (in the order of the map iteration, which is unspecified).             *)
AddIndex(w) ==
  LET ctx == current[w].ctx IN
  /\ At(w, "index")
  /\ indexes' = IF ctx \in DOMAIN indexes THEN indexes ELSE indexes @@ (ctx :> index[w])
  /\ \E order \in SetToSeqs(ShardJobs(w, Blobs[index[w]])) : Spawn(order)
  /\ index' = [index EXCEPT ![w] = None]
  /\ StepOn(w)
  /\ UNCHANGED <<visits, claims, results, current, claimCache, indexCache, fetched>>

Worker(w) ==
  \/ Take(w) /\ UNCHANGED qeVars
  \/ Visit(w) \/ SkipVisited(w)
  \/ FindProviders(w) \/ FindFails(w)
  \/ DecodeMetadata(w) \/ DecodeFails(w) \/ HandlerDone(w) \/ ProtocolsDone(w)
  \/ SkipNonClaim(w) \/ ClaimCacheHit(w) \/ ClaimCacheMiss(w)
  \/ FetchClaim(w) \/ FetchClaimFails(w)
  \/ HandleEquals(w) \/ HandleIndex(w) \/ HandleLocation(w)
  \/ IndexCacheHit(w) \/ IndexCacheMiss(w) \/ FetchIndex(w) \/ IndexLookupFails(w)
  \/ AddIndex(w)

Next ==
  \/ \E w \in Workers : Worker(w)
  \/ Finish /\ UNCHANGED qeVars
  \/ ReturnCancelled /\ UNCHANGED qeVars

(* Every worker goroutine that can run eventually does, and every I/O     *)
(* call returns (with a result or an error); Walk returns once it may.     *)
Spec ==
  /\ Init /\ [][Next]_vars
  /\ \A w \in Workers : WF_vars(Worker(w))
  /\ WF_vars(Finish /\ UNCHANGED qeVars)
  /\ WF_vars(ReturnCancelled /\ UNCHANGED qeVars)

-----------------------------------------------------------------------------
(* Properties *)

HandlerPcs == {Idle, "dedup", "find", "results", "protocols", "fetch", "dispatch", "fetchindex",
               "index"}

(* Every variable keeps its type; in particular a job carries an         *)
(* indexProviderRecord exactly when it carries an indexForMh, so the       *)
(* handler's *j.indexProviderRecord never dereferences nil.               *)
TypeOK ==
  /\ queue \in Seq(Jobs)
  /\ wpc \in [Workers -> HandlerPcs]
  /\ wjob \in [Workers -> Jobs \cup {NoJob}]
  /\ status \in WalkStatus
  /\ visits \subseteq Bytes \X JobTypes \X (Bytes \cup {None})
  /\ claims \subseteq ClaimCids
  /\ DOMAIN indexes \subseteq Bytes /\ \A c \in DOMAIN indexes : indexes[c] \in DOMAIN Blobs
  /\ results \in [Workers -> Seq(ProviderRecords)]
  /\ current \in [Workers -> ProviderRecords \cup {None}]
  /\ protos \in [Workers -> Seq(Blocks)]
  /\ claimCache \subseteq ClaimCids
  /\ DOMAIN indexCache \subseteq Bytes /\ \A c \in DOMAIN indexCache : indexCache[c] \in DOMAIN Blobs
  /\ index \in [Workers -> DOMAIN Blobs \cup {None}]

(* What a query must find (the steps listed on Query, spec.md 4.5), stated *)
(* over what the claims assert rather than over the handler's dispatch:    *)
(*  - every claim of every record found for a queried hash;                *)
(*  - for an equals claim, the location claims of the OTHER side of the    *)
(*    equivalence (whichever side the claim was found under);              *)
(*  - for an index claim, the location claims of the index blob, the index *)
(*    itself, and the location claims of every shard holding the hash.     *)
Pairs(recs) == UNION {{<<r, b>> : b \in ToSet(r.blocks)} : r \in ToSet(recs)}

Found(h, kind) ==
  {pb \in Pairs(ProviderFind(h, QuerySubject, targetClaims[kind])) : pb[2].type \in targetClaims[kind]}

FoundOf(h, kind, type) == {pb \in Found(h, kind) : pb[2].type = type}

ClaimsOf(pbs) == {pb[2].claim : pb \in pbs}

OtherSide(b, h) == IF b.equals = h THEN b.content ELSE b.equals

(* <<index claim, <<record, location commitment>>>> for the index blobs of h *)
IndexLocations(h) ==
  UNION {{<<ib[2], lp>> : lp \in FoundOf(ib[2].index, "equals_or_location", "location")} :
           ib \in FoundOf(h, "standard", "index")}

IndexBlob(il) == ShardOf(il[2][2], [mh |-> il[1].index])

FetchableIndexes(h) == {il \in IndexLocations(h) : IndexBlob(il) \in DOMAIN Blobs}

Needed(h) ==
  ClaimsOf(Found(h, "standard"))
  \cup UNION {ClaimsOf(FoundOf(OtherSide(e[2], h), "location", "location")) :
                e \in FoundOf(h, "standard", "equals")}
  \cup ClaimsOf({il[2] : il \in IndexLocations(h)})
  \cup UNION {ClaimsOf(FoundOf(s, "equals_or_location", "location")) :
                s \in UNION {ShardsHolding(Blobs[IndexBlob(il)], h) : il \in FetchableIndexes(h)}}

NeededClaims == UNION {Needed(h) : h \in ToSet(QueryHashes)}

NeededIndexes ==
  UNION {{<<il[2][1].ctx, IndexBlob(il)>> : il \in FetchableIndexes(h)} : h \in ToSet(QueryHashes)}

(* A query that completes without error returns every claim and index the *)
(* Query steps promise, whatever order the workers ran the jobs in.        *)
QueryPromise ==
  status = "done" =>
    /\ NeededClaims \subseteq claims
    /\ \A ci \in NeededIndexes : ci[1] \in DOMAIN indexes /\ indexes[ci[1]] = ci[2]

(* A job acts only on the protocol blocks its kind targets (spec.md 3: the *)
(* kind "constrains which protocol types the handler will act upon"): the  *)
(* handler's loop over md.Protocols() never handles a claim block whose    *)
(* type is outside targetClaims[j.jobType].                                 *)
KindRespected ==
  [][\A w \in Workers :
       (AtClaim(w, ClaimTypes) /\ protos'[w] # protos[w])
         => Proto(w).type \in targetClaims[wjob[w].kind]]_vars

(* Cache transparency (spec.md 8): within a query each claim, and each   *)
(* index, is fetched from origin at most once; every later LookupClaim of  *)
(* its CID, or blobIndexLookup.Find of its context ID, is a cache hit.     *)
CacheTransparency == \A c \in BagToSet(fetched) : CopiesIn(c, fetched) = 1

(* The engine implements what Query promises (QuerySpec): the result only *)
(* grows, by claims and indexes the query's steps lead to and without      *)
(* replacing an index; the query completes only with everything promised,  *)
(* fails with a partial result, returns in either case, and leaves the     *)
(* result alone once it has returned.                                       *)
(* What the caller can tell of the walk: a cancelled walk is still running *)
(* until Walk returns.                                                      *)
QueryStatus == IF Cancelling THEN "running" ELSE status

QS == INSTANCE QuerySpec WITH Promised <- NeededClaims, PromisedIndexes <- NeededIndexes,
                             claims <- claims, indexes <- indexes, status <- QueryStatus

QuerySpecRefined == QS!Spec

(* Every query returns: the walk ends, completed or failed. *)
Termination == <>(status \in {"done", "failed"})

=============================================================================
