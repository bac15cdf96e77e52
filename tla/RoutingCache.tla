---------------------------- MODULE RoutingCache ----------------------------
(***************************************************************************)
(* The routing cache of the data plane (routing_cache.rs): a map in the    *)
(* memory of every instance, and, when Redis is configured, one they       *)
(* share.  It holds which account a sticky key goes to and which accounts  *)
(* are ejected; both kinds of entries are read through and written through *)
(* alike, so an entry here is a key of either kind with the time it has    *)
(* left (0: absent, or expired and not yet swept).                         *)
(***************************************************************************)
EXTENDS Naturals

CONSTANTS
  Instances, StickyKeys, CachedAccounts,
  StickyTtl, EjectionTtl,            \* what the callers pass
  StickyRehydrateTtl, UnhealthyRehydrateTtl,
  MaxWrites                          \* bound on the writes of the callers

ASSUME CacheAssumption ==
  {StickyTtl, EjectionTtl, StickyRehydrateTtl, UnhealthyRehydrateTtl, MaxWrites} \subseteq Nat

VARIABLES
  hasShared,   \* HybridRoutingCache.shared
  local,       \* instance -> entry -> time left
  shared,      \* entry -> time left, in Redis
  call,        \* instance -> the cache operation that waits for Redis
  writes

cacheVars == <<hasShared, local, shared, call, writes>>

Entries == StickyKeys \cup CachedAccounts
NoCall == [op |-> "none", key |-> "none", ttl |-> 0]

-----------------------------------------------------------------------------
\* InMemoryRoutingCache: expired entries are swept by the reads.

LocalHas(i, k) == local[i][k] > 0
LocalSet(i, k, ttl) == IF ttl = 0 THEN local ELSE [local EXCEPT ![i][k] = ttl]
LocalRemove(i, k) == [local EXCEPT ![i][k] = 0]

\* RedisRoutingCache: a lifetime is at least a second, and none is no write.
RedisTtl(ttl) == IF ttl < 1 THEN 1 ELSE ttl
SharedSet(k, ttl) == IF ttl = 0 THEN shared ELSE [shared EXCEPT ![k] = RedisTtl(ttl)]
SharedRemove(k) == [shared EXCEPT ![k] = 0]

-----------------------------------------------------------------------------
\* HybridRoutingCache.  A read that misses locally asks Redis and copies what
\* it finds into the local map, only there.

ReadThrough(i, k, rehydrateTtl) ==
  /\ call[i] = NoCall
  /\ ~LocalHas(i, k) /\ hasShared
  /\ shared[k] > 0
  /\ call' = [call EXCEPT ![i] = [op |-> "rehydrate", key |-> k, ttl |-> rehydrateTtl]]
  /\ UNCHANGED <<hasShared, local, shared, writes>>

GetStickyAccountId(i, k) == ReadThrough(i, k, StickyRehydrateTtl)
IsUnhealthy(i, a) == ReadThrough(i, a, UnhealthyRehydrateTtl)

RehydrateWritesThrough(i) ==
  /\ call[i].op = "rehydrate"
  /\ local' = LocalSet(i, call[i].key, call[i].ttl)
  /\ shared' = SharedSet(call[i].key, call[i].ttl)
  /\ call' = [call EXCEPT ![i] = NoCall]
  /\ UNCHANGED <<hasShared, writes>>

Rehydrate(i) ==
  /\ call[i].op = "rehydrate"
  /\ local' = LocalSet(i, call[i].key, call[i].ttl)
  /\ call' = [call EXCEPT ![i] = NoCall]
  /\ UNCHANGED <<hasShared, shared, writes>>

\* Writes go to the local map first, then to Redis, where they may be lost.
WriteThrough(i, k, ttl) ==
  /\ call[i] = NoCall /\ writes < MaxWrites
  /\ local' = IF ttl = 0 THEN LocalRemove(i, k) ELSE LocalSet(i, k, ttl)
  /\ call' = IF hasShared THEN [call EXCEPT ![i] = [op |-> "write", key |-> k, ttl |-> ttl]]
             ELSE call
  /\ writes' = writes + 1
  /\ UNCHANGED <<hasShared, shared>>

SetStickyAccountId(i, k) == WriteThrough(i, k, StickyTtl)
DeleteStickyAccountId(i, k) == WriteThrough(i, k, 0)
SetUnhealthy(i, a) == WriteThrough(i, a, EjectionTtl)
ClearUnhealthy(i, a) == WriteThrough(i, a, 0)

SharedWriteDone(i) ==
  /\ call[i].op = "write"
  /\ shared' = IF call[i].ttl = 0 THEN SharedRemove(call[i].key)
               ELSE SharedSet(call[i].key, call[i].ttl)
  /\ call' = [call EXCEPT ![i] = NoCall]
  /\ UNCHANGED <<hasShared, local, writes>>

SharedWriteFails(i) ==
  /\ call[i].op = "write"
  /\ call' = [call EXCEPT ![i] = NoCall]
  /\ UNCHANGED <<hasShared, local, shared, writes>>

\* Time passes for every entry alike.
CacheTick ==
  LET older(n) == IF n = 0 THEN 0 ELSE n - 1
  IN  /\ local' = [i \in Instances |-> [k \in Entries |-> older(local[i][k])]]
      /\ shared' = [k \in Entries |-> older(shared[k])]
      /\ <<local', shared'>> # <<local, shared>>
      /\ UNCHANGED <<hasShared, call, writes>>

-----------------------------------------------------------------------------

CacheInit ==
  /\ hasShared \in BOOLEAN
  /\ local = [i \in Instances |-> [k \in Entries |-> 0]]
  /\ shared = [k \in Entries |-> 0]
  /\ call = [i \in Instances |-> NoCall]
  /\ writes = 0

CallStep(i) == Rehydrate(i) \/ SharedWriteDone(i) \/ SharedWriteFails(i)

CacheNext ==
  \/ CacheTick
  \/ \E i \in Instances :
       \/ CallStep(i)
       \/ \E k \in StickyKeys :
            GetStickyAccountId(i, k) \/ SetStickyAccountId(i, k) \/ DeleteStickyAccountId(i, k)
       \/ \E a \in CachedAccounts :
            IsUnhealthy(i, a) \/ SetUnhealthy(i, a) \/ ClearUnhealthy(i, a)

-----------------------------------------------------------------------------
\* Once nobody binds or ejects any more, every binding and every ejection runs
\* out on every instance, however the instances keep reading each other's
\* entries (a read rehydrates the local map and never Redis).
EntriesRunOut ==
  <>[](\A k \in Entries : shared[k] = 0 /\ \A i \in Instances : local[i][k] = 0)
=============================================================================
