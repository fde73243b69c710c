---------------------------- MODULE ProviderCache ----------------------------
(***************************************************************************)
(* ProviderIndex (the interface in src/pkg/service/service.go and spec.md  *)
(* 4.2) over the Redis provider store of RedisStore: concurrent Find calls *)
(* reading through the cache to IPNI, and Publish calls writing records to *)
(* the cache and announcing them to IPNI, with Redis expiring entries and  *)
(* IPNI ingesting announced advertisements whenever it gets to them.       *)
(*                                                                         *)
(* The ProviderIndex implementation is not among the sources; its steps    *)
(* are those its interface comment lists:                                  *)
(*   Find: read the cache; on a miss query IPNI, drop the records without  *)
(*     content-claim metadata, store the rest in the cache (expirable);    *)
(*   Publish: write the record to the cache without expiration for every  *)
(*     multihash, announce the advertisement, then make the entries        *)
(*     expirable ("no expiration until publishing is complete").           *)
(* The claim-type and space filters that follow Find's step 1 are in       *)
(* QueryEngine; the legacy fallback is not modelled.  A provider result    *)
(* list is abstracted to a set of records (order is not observable).       *)
(***************************************************************************)
EXTENDS RedisStore, FiniteSets

CONSTANTS
  Records,       \* provider records
  ClaimRecords,  \* the records whose metadata holds a content-claim protocol
  IpniInit,      \* IpniInit[k]: the records IPNI holds for k at the start
  Pubs,          \* Pubs[p]: [keys, record] of Publish call p
  Finds,         \* Finds[f]: the multihash Find call f looks up
  GetFails,      \* whether the Redis GET may fail (the mock's WithErrorOnGet)
  ExpireFails,   \* whether EXPIRE may fail (the mock's WithErrorOnSetExpiration)
  CanCrash       \* whether the service process may die while calls are in flight

ASSUME ClaimRecords \subseteq Records
ASSUME IpniInit \in [Keys -> SUBSET Records]
ASSUME \A p \in DOMAIN Pubs : Pubs[p].keys \subseteq Keys /\ Pubs[p].record \in ClaimRecords
ASSUME \A f \in DOMAIN Finds : Finds[f] \in Keys

VARIABLES
  ipni,     \* ipni[k]: the records IPNI returns for k
  fpc,      \* fpc[f]: "get", "ipni", "fill", "done" or "crashed"
  fread,    \* fread[f]: the records Find f read from IPNI
  ppc,      \* ppc[p]: "write", "announce", "expire", "done" or "crashed"
  ptodo,    \* ptodo[p]: keys Publish p has still to write, or to make expirable
  pending   \* announced advertisements IPNI has not yet ingested

vars == <<redis, ipni, fpc, fread, ppc, ptodo, pending>>

Init ==
  /\ redis = [s \in RedisKeys |-> Absent]
  /\ ipni = IpniInit
  /\ fpc = [f \in DOMAIN Finds |-> "get"]
  /\ fread = [f \in DOMAIN Finds |-> {}]
  /\ ppc = [p \in DOMAIN Pubs |-> "write"]
  /\ ptodo = [p \in DOMAIN Pubs |-> Pubs[p].keys]
  /\ pending = {}

-----------------------------------------------------------------------------
(* Find, step 1: read the cache. *)

(* A hit: the cached records are decoded and returned. *)
FindHit(f) ==
  /\ fpc[f] = "get"
  /\ StoreHas(Finds[f])
  /\ fpc' = [fpc EXCEPT ![f] = "done"]
  /\ UNCHANGED <<redis, ipni, fread, ppc, ptodo, pending>>

(* GET fails: Find returns "error accessing redis". *)
FindGetFails(f) ==
  /\ fpc[f] = "get"
  /\ GetFails
  /\ fpc' = [fpc EXCEPT ![f] = "done"]
  /\ UNCHANGED <<redis, ipni, fread, ppc, ptodo, pending>>

(* ErrKeyNotFound: on to IPNI. *)
FindMiss(f) ==
  /\ fpc[f] = "get"
  /\ ~StoreHas(Finds[f])
  /\ fpc' = [fpc EXCEPT ![f] = "ipni"]
  /\ UNCHANGED <<redis, ipni, fread, ppc, ptodo, pending>>

(* IPNI is queried and the records without content claims are dropped. *)
FindQueryIpni(f) ==
  /\ fpc[f] = "ipni"
  /\ fread' = [fread EXCEPT ![f] = ipni[Finds[f]] \cap ClaimRecords]
  /\ fpc' = [fpc EXCEPT ![f] = "fill"]
  /\ UNCHANGED <<redis, ipni, ppc, ptodo, pending>>

(* Seeded fault: the fill is stored without expiration. *)
FindFillPersistent(f) ==
  /\ fpc[f] = "fill"
  /\ StoreSet(Finds[f], fread[f], FALSE)
  /\ fpc' = [fpc EXCEPT ![f] = "done"]
  /\ UNCHANGED <<ipni, fread, ppc, ptodo, pending>>

(* The records read are stored in the cache, expirable, and returned. *)
FindFill(f) ==
  /\ fpc[f] = "fill"
  /\ StoreSet(Finds[f], fread[f], TRUE)
  /\ fpc' = [fpc EXCEPT ![f] = "done"]
  /\ UNCHANGED <<ipni, fread, ppc, ptodo, pending>>

-----------------------------------------------------------------------------
(* Publish(hashes, record). *)

(* The record is written to the cache without expiration, key by key. *)
PublishWrite(p) ==
  /\ ppc[p] = "write"
  /\ \E k \in ptodo[p] :
       /\ StoreSet(k, {Pubs[p].record}, FALSE)
       /\ ptodo' = [ptodo EXCEPT ![p] = @ \ {k}]
  /\ UNCHANGED <<ipni, fpc, fread, ppc, pending>>

(* Seeded fault: the advertisement is generated but never announced. *)
PublishAnnounceDropped(p) ==
  /\ ppc[p] = "write"
  /\ ptodo[p] = {}
  /\ ppc' = [ppc EXCEPT ![p] = "expire"]
  /\ ptodo' = [ptodo EXCEPT ![p] = Pubs[p].keys]
  /\ UNCHANGED <<redis, ipni, fpc, fread, pending>>

(* Every key written: the advertisement is generated and announced. *)
PublishAnnounce(p) ==
  /\ ppc[p] = "write"
  /\ ptodo[p] = {}
  /\ pending' = pending \cup {p}
  /\ ppc' = [ppc EXCEPT ![p] = "expire"]
  /\ ptodo' = [ptodo EXCEPT ![p] = Pubs[p].keys]
  /\ UNCHANGED <<redis, ipni, fpc, fread>>

(* Publishing is complete: the entries become expirable, key by key. *)
PublishExpire(p) ==
  /\ ppc[p] = "expire"
  /\ \E k \in ptodo[p] :
       /\ StoreSetExpirable(k, TRUE)
       /\ ptodo' = [ptodo EXCEPT ![p] = @ \ {k}]
  /\ UNCHANGED <<ipni, fpc, fread, ppc, pending>>

(* EXPIRE fails; Publish has no error result, so it gives up there. *)
PublishExpireFails(p) ==
  /\ ppc[p] = "expire"
  /\ ptodo[p] # {}
  /\ ExpireFails
  /\ ppc' = [ppc EXCEPT ![p] = "done"]
  /\ UNCHANGED <<redis, ipni, fpc, fread, ptodo, pending>>

PublishDone(p) ==
  /\ ppc[p] = "expire"
  /\ ptodo[p] = {}
  /\ ppc' = [ppc EXCEPT ![p] = "done"]
  /\ UNCHANGED <<redis, ipni, fpc, fread, ptodo, pending>>

-----------------------------------------------------------------------------
(* The environment. *)

(* IPNI ingests an announced advertisement: its record is found for its keys. *)
Ingest(p) ==
  /\ p \in pending
  /\ ipni' = [k \in Keys |-> IF k \in Pubs[p].keys THEN ipni[k] \cup {Pubs[p].record} ELSE ipni[k]]
  /\ pending' = pending \ {p}
  /\ UNCHANGED <<redis, fpc, fread, ppc, ptodo>>

(* Redis drops an entry whose expiration has elapsed. *)
Expiry(k) == Lapse(multihashKeyString(k)) /\ UNCHANGED <<ipni, fpc, fread, ppc, ptodo, pending>>

(* The service process dies.  Every Find and Publish in flight is lost   *)
(* with it: nothing in the process records them, so none is resumed after  *)
(* a restart.  Redis and IPNI are other processes and keep what was        *)
(* written, announced or ingested.                                         *)
InFlight(pc) == pc \notin {"done", "crashed"}
Crash ==
  /\ CanCrash
  /\ \/ \E f \in DOMAIN fpc : InFlight(fpc[f])
     \/ \E p \in DOMAIN ppc : InFlight(ppc[p])
  /\ fpc' = [f \in DOMAIN fpc |-> IF InFlight(fpc[f]) THEN "crashed" ELSE fpc[f]]
  /\ ppc' = [p \in DOMAIN ppc |-> IF InFlight(ppc[p]) THEN "crashed" ELSE ppc[p]]
  /\ UNCHANGED <<redis, ipni, fread, ptodo, pending>>

Find(f) == FindHit(f) \/ FindGetFails(f) \/ FindMiss(f) \/ FindQueryIpni(f) \/ FindFill(f)

Publish(p) ==
  PublishWrite(p) \/ PublishAnnounce(p) \/ PublishExpire(p) \/ PublishExpireFails(p) \/ PublishDone(p)

Next ==
  \/ \E f \in DOMAIN Finds : Find(f)
  \/ \E p \in DOMAIN Pubs : Publish(p) \/ Ingest(p)
  \/ \E k \in Keys : Expiry(k)
  \/ Crash

(* Every call that can go on eventually does; IPNI eventually ingests an   *)
(* announced advertisement, and an expiration eventually elapses.          *)
Spec ==
  /\ Init /\ [][Next]_vars
  /\ \A f \in DOMAIN Finds : WF_vars(Find(f))
  /\ \A p \in DOMAIN Pubs : WF_vars(Publish(p)) /\ WF_vars(Ingest(p))
  /\ \A k \in Keys : WF_vars(Expiry(k))

-----------------------------------------------------------------------------
(* Properties *)

(* What a Find started now would return: the cached records, or on a miss *)
(* IPNI's records with content claims.                                     *)
Served(k) == IF StoreHas(k) THEN StoreGet(k) ELSE ipni[k] \cap ClaimRecords

(* Publish p is responsible for the entry of k: it has not yet made it    *)
(* expirable.                                                             *)
Publishing(p, k) ==
  /\ k \in Pubs[p].keys
  /\ \/ ppc[p] \in {"write", "announce"}
     \/ ppc[p] = "expire" /\ k \in ptodo[p]

(* ... and has already written its record there. *)
Written(p, k) == Publishing(p, k) /\ ~(ppc[p] = "write" /\ k \in ptodo[p])

(* An entry without expiration exists only while a Publish of its key is  *)
(* in progress: otherwise it would shadow IPNI for that key for ever       *)
(* (Store.Set's expirable flag and SetExpirable's EXPIRE/PERSIST choice).  *)
NoStrayPersistentEntry ==
  \A k \in Keys : (StoreHas(k) /\ StoreExpires(k) = 0) => \E p \in DOMAIN Pubs : Publishing(p, k)

(* "Write the entries to the cache with no expiration until publishing is *)
(* complete": from the write until the entry is made expirable, a Find of  *)
(* the key returns the published record.                                   *)
PublishedVisibleWhilePublishing ==
  \A p \in DOMAIN Pubs, k \in Keys : Written(p, k) => Pubs[p].record \in Served(k)

(* Every record whose Publish has returned is eventually, and from then on *)
(* for ever, returned by Find for each of its multihashes: stale entries   *)
(* filled before IPNI ingested it expire, and IPNI ingests it.  A crash of *)
(* the process afterwards, which can interrupt another Publish of one of   *)
(* its keys, must not take it back either.                                 *)
PublishedEventuallyServed ==
  <>[](\A p \in DOMAIN Pubs : ppc[p] = "done" => \A k \in Pubs[p].keys : Pubs[p].record \in Served(k))

=============================================================================
