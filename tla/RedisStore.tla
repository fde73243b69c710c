----------------------------- MODULE RedisStore -----------------------------
(***************************************************************************)
(* The Redis-backed provider store: ProviderStore of                       *)
(* src/pkg/redis/providerstore.go, a Store[multihash, []ProviderResult]    *)
(* over a Redis client.                                                    *)
(*                                                                         *)
(* The client's commands are those of the mock client in                   *)
(* src/unnamed/part_001 (the redis package's test): SET stores a value     *)
(* with an expiration (0 = none), GET returns it or redis.Nil, EXPIRE and  *)
(* PERSIST change the expiration of a key that exists and do nothing       *)
(* otherwise; each may fail as the mock's options make it fail.  The       *)
(* generic Store (not among the sources) is modelled from what the test    *)
(* requires of it: Set(k, v, expirable) stores v with DefaultExpire or 0,  *)
(* SetExpirable(k, true/false) is EXPIRE DefaultExpire / PERSIST, and Get  *)
(* maps redis.Nil to ErrKeyNotFound.  Redis itself drops a key whose       *)
(* expiration has elapsed.                                                 *)
(***************************************************************************)
CONSTANTS
  Keys,           \* multihashes used as keys (multihashKeyString keeps their bytes)
  Absent,         \* no value under the key
  DefaultExpire   \* redis.DefaultExpire, the expiration of an expirable entry

VARIABLE redis    \* redis[s]: Absent, or [data, expires] as the mock keeps it

(* The expirations an entry can carry: 0 (never expires) or the default. *)
Expirations == {0, DefaultExpire}

(* providerResultsToRedis / providerResultsFromRedis: MarshalCBOR and      *)
(* UnmarshalCBOR of the provider results.  The encoding is a tagged value  *)
(* from which decoding recovers the records; equality of records is the   *)
(* field equality of providerresults.Equals.                               *)
ToRedis(records) == [cbor |-> records]
FromRedis(data) == data.cbor

(* multihashKeyString: the Redis key of a multihash is the Go string of  *)
(* its bytes.  Modelled as a tagged value: distinct multihashes give       *)
(* distinct keys, and a key is not a multihash.                            *)
multihashKeyString(k) == [str |-> k]

(* The Redis keys the store uses. *)
RedisKeys == {multihashKeyString(k) : k \in Keys}

(* Mock SET: the value and its expiration replace whatever was there. *)
RedisSet(s, data, expiration) ==
  redis' = [redis EXCEPT ![s] = [data |-> data, expires |-> expiration]]

(* Mock EXPIRE: a present key gets the expiration; an absent one stays absent. *)
RedisExpire(s, expiration) ==
  redis' = IF redis[s] = Absent THEN redis
           ELSE [redis EXCEPT ![s].expires = expiration]

(* Mock PERSIST: a present key loses its expiration. *)
RedisPersist(s) == RedisExpire(s, 0)

(* Store.Set: the encoded records under the key string, expirable or not. *)
StoreSet(k, records, expirable) ==
  RedisSet(multihashKeyString(k), ToRedis(records), IF expirable THEN DefaultExpire ELSE 0)

(* Seeded fault: the two branches of SetExpirable are swapped. *)
StoreSetExpirableSwapped(k, expirable) ==
  IF expirable THEN RedisPersist(multihashKeyString(k))
  ELSE RedisExpire(multihashKeyString(k), DefaultExpire)

(* Store.SetExpirable: EXPIRE with the default expiration, or PERSIST. *)
StoreSetExpirable(k, expirable) ==
  IF expirable THEN RedisExpire(multihashKeyString(k), DefaultExpire)
  ELSE RedisPersist(multihashKeyString(k))

(* Store.Get finds the key (a redis.Nil reply is ErrKeyNotFound) ... *)
StoreHas(k) == redis[multihashKeyString(k)] # Absent

(* ... and decodes what it holds. *)
StoreGet(k) == FromRedis(redis[multihashKeyString(k)].data)

(* The expiration the entry of k carries. *)
StoreExpires(k) == redis[multihashKeyString(k)].expires

(* The expiration of an expirable key elapses and Redis drops the key. *)
Lapse(s) ==
  /\ redis[s] # Absent
  /\ redis[s].expires = DefaultExpire
  /\ redis' = [redis EXCEPT ![s] = Absent]

=============================================================================
