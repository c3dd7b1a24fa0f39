----------------------------- MODULE RedisClient -----------------------------
(***************************************************************************)
(* The Redis enrichment client (internal/enrichment/redis/client.go): Get, *)
(* GetJSON and HGet look into the local cache, ask Redis and fill the      *)
(* cache; Set, SetJSON, HSet and Delete write to Redis and invalidate.     *)
(* Neither is atomic, and any number of goroutines do both.                *)
(*                                                                         *)
(* A key is a sequence of words, "a:b" being <<"a", "b">>; the cache key   *)
(* of a hash field is the hash's key, a colon and the field.  A value is   *)
(* the place in Redis it was written to and the number of the write.  This *)
(* client is the only writer, but Redis drops strings that were given an   *)
(* expiration.                                                             *)
(***************************************************************************)
EXTENDS LRUCache

CONSTANTS Goroutines,
          StringKeys, HashKeys, Fields,
          MaxWrites,   \* bound on the writes to a place, and its expirations
          None

ASSUME KeysAssumption == StringKeys \cap HashKeys = {} /\ None \notin Fields
ASSUME WritesAssumption == MaxWrites \in Nat

VARIABLES
    version,   \* version[pl]: number of the latest write to pl
    present,   \* present[pl]: does Redis hold a value there?
    cache,     \* the local cache
    closed,    \* Close has been called
    step,      \* step[g]: where goroutine g is
    place,     \* place[g]: the place it reads
    got,       \* got[g]: the version Redis gave it
    del,       \* del[g]: the cache keys it is about to invalidate
    excused    \* history: cache keys whose entry is known to be out of date

redis == <<version, present>>
vars == <<version, present, cache, closed, step, place, got, del, excused>>

Places == (StringKeys \X {None}) \cup (HashKeys \X Fields)
PlacesOf(keys) == {pl \in Places : pl[1] \in keys}

CacheKey(pl) == IF pl[2] = None THEN pl[1] ELSE Append(pl[1], pl[2])
CacheKeys == {CacheKey(pl) : pl \in Places}

Values == [place : Places, version : 0 .. MaxWrites]

TypeOK ==
    /\ version \in [Places -> 0 .. MaxWrites]
    /\ present \in [Places -> BOOLEAN]
    /\ DOMAIN cache.data \subseteq CacheKeys \cup HashKeys
    /\ \A k \in DOMAIN cache.data : cache.data[k] \in [value : Values, age : 0 .. TTL + 1]
    /\ closed \in BOOLEAN
    /\ step \in [Goroutines -> {"idle", "query", "fill", "invalidate"}]
    /\ place \in [Goroutines -> Places \cup {None}]
    /\ got \in [Goroutines -> 0 .. MaxWrites]
    /\ del \in [Goroutines -> SUBSET (CacheKeys \cup HashKeys)]
    /\ excused \subseteq CacheKeys

Init ==
    /\ version = [pl \in Places |-> 0]
    /\ present \in [Places -> BOOLEAN]
    /\ cache = EmptyCache
    /\ closed = FALSE
    /\ step = [g \in Goroutines |-> "idle"]
    /\ place = [g \in Goroutines |-> None]
    /\ got = [g \in Goroutines |-> 0]
    /\ del = [g \in Goroutines |-> {}]
    /\ excused = {}

\* An entry that a write to Redis has overtaken.
Stale(c, key) ==
    key \in DOMAIN c.data
      /\ c.data[key].value.version < version[c.data[key].value.place]

-----------------------------------------------------------------------------
(* Get, GetJSON, HGet                                                      *)

\* The look into the cache: a hit ends the call.
Read(g, pl) ==
    /\ step[g] = "idle"
    /\ cache' = Get(cache, CacheKey(pl))
    /\ IF IsHit(cache, CacheKey(pl))
       THEN UNCHANGED <<step, place>>
       ELSE /\ step' = [step EXCEPT ![g] = "query"]
            /\ place' = [place EXCEPT ![g] = pl]
    /\ excused' = excused \cap DOMAIN cache'.data
    /\ UNCHANGED <<redis, closed, got, del>>

\* Redis answers with a value,
Query(g) ==
    /\ step[g] = "query"
    /\ ~closed
    /\ present[place[g]]
    /\ got' = [got EXCEPT ![g] = version[place[g]]]
    /\ step' = [step EXCEPT ![g] = "fill"]
    /\ UNCHANGED <<redis, cache, closed, place, del, excused>>

\* or with nil or an error, and the call is over.
QueryFails(g) ==
    /\ step[g] = "query"
    /\ step' = [step EXCEPT ![g] = "idle"]
    /\ place' = [place EXCEPT ![g] = None]
    /\ UNCHANGED <<redis, cache, closed, got, del, excused>>

\* The value is cached and returned.
Fill(g) ==
    LET key == CacheKey(place[g]) IN
    /\ step[g] = "fill"
    /\ cache' = Set(cache, key, [place |-> place[g], version |-> got[g]])
    /\ excused' = (IF Stale(cache', key) THEN excused \cup {key} ELSE excused \ {key})
                    \cap DOMAIN cache'.data
    /\ step' = [step EXCEPT ![g] = "idle"]
    /\ place' = [place EXCEPT ![g] = None]
    /\ got' = [got EXCEPT ![g] = 0]
    /\ UNCHANGED <<redis, closed, del>>

\* GetJSON does not cache what it cannot unmarshal.
Discard(g) ==
    /\ step[g] = "fill"
    /\ step' = [step EXCEPT ![g] = "idle"]
    /\ place' = [place EXCEPT ![g] = None]
    /\ got' = [got EXCEPT ![g] = 0]
    /\ UNCHANGED <<redis, cache, closed, del, excused>>

-----------------------------------------------------------------------------
(* Set, SetJSON, HSet, Delete                                              *)

\* A write that reaches Redis, whose reply may be lost on the way back: then
\* the call ends with an error and the cache is left alone.
Written(g, keys, cacheKeys) ==
    \/ /\ step' = [step EXCEPT ![g] = "invalidate"]
       /\ del' = [del EXCEPT ![g] = keys]
       /\ excused' = excused \cup ((cacheKeys \ keys) \cap DOMAIN cache.data)
    \/ /\ excused' = excused \cup (cacheKeys \cap DOMAIN cache.data)
       /\ UNCHANGED <<step, del>>

\* Fault in Write: the cache is not invalidated.
WriteOnly(g, pl) ==
    /\ step[g] = "idle"
    /\ ~closed
    /\ version[pl] < MaxWrites
    /\ version' = [version EXCEPT ![pl] = @ + 1]
    /\ present' = [present EXCEPT ![pl] = TRUE]
    /\ UNCHANGED <<cache, closed, step, place, got, del, excused>>

\* Set, SetJSON or HSet.
Write(g, pl) ==
    /\ step[g] = "idle"
    /\ ~closed
    /\ version[pl] < MaxWrites
    /\ version' = [version EXCEPT ![pl] = @ + 1]
    /\ present' = [present EXCEPT ![pl] = TRUE]
    /\ Written(g, {CacheKey(pl)}, {CacheKey(pl)})
    /\ UNCHANGED <<cache, closed, place, got>>

\* Delete, of one key or several: Redis drops them at once, with all the
\* fields of a hash, the cache only the keys themselves.
DeleteKeys(g, keys) ==
    /\ step[g] = "idle"
    /\ ~closed
    /\ \A pl \in PlacesOf(keys) : version[pl] < MaxWrites
    /\ version' = [pl \in Places |->
                     IF pl[1] \in keys THEN version[pl] + 1 ELSE version[pl]]
    /\ present' = [pl \in Places |-> pl[1] \notin keys /\ present[pl]]
    /\ Written(g, keys, {CacheKey(pl) : pl \in PlacesOf(keys)})
    /\ UNCHANGED <<cache, closed, place, got>>

\* cache.Delete, for one key after the other.
Invalidate(g, key) ==
    /\ step[g] = "invalidate"
    /\ key \in del[g]
    /\ cache' = Delete(cache, key)
    /\ excused' = excused \ {key}
    /\ del' = [del EXCEPT ![g] = @ \ {key}]
    /\ step' = [step EXCEPT ![g] = IF del[g] = {key} THEN "idle" ELSE @]
    /\ UNCHANGED <<redis, closed, place, got>>

\* The expiration given to Set or SetJSON is over.  The client is not told.
Expire(pl) ==
    /\ pl[2] = None
    /\ present[pl]
    /\ version[pl] < MaxWrites
    /\ version' = [version EXCEPT ![pl] = @ + 1]
    /\ present' = [present EXCEPT ![pl] = FALSE]
    /\ excused' = excused \cup ({CacheKey(pl)} \cap DOMAIN cache.data)
    /\ UNCHANGED <<cache, closed, step, place, got, del>>

\* Close clears the cache and closes the connection.
Close ==
    /\ ~closed
    /\ closed' = TRUE
    /\ cache' = EmptyCache
    /\ excused' = {}
    /\ UNCHANGED <<redis, step, place, got, del>>

Tick ==
    /\ cache' = Aged(cache)
    /\ UNCHANGED <<redis, closed, step, place, got, del, excused>>

-----------------------------------------------------------------------------
Next ==
    \/ \E g \in Goroutines :
          \/ \E pl \in Places : Read(g, pl) \/ Write(g, pl)
          \/ \E keys \in (SUBSET (StringKeys \cup HashKeys)) \ {{}} : DeleteKeys(g, keys)
          \/ Query(g)
          \/ QueryFails(g)
          \/ Fill(g)
          \/ Discard(g)
          \/ \E key \in CacheKeys \cup HashKeys : Invalidate(g, key)
    \/ \E pl \in Places : Expire(pl)
    \/ Close
    \/ Tick

Spec == Init /\ [][Next]_vars

(* Time passes, calls come to their end, and the values go on being read.  *)
FairSpec ==
    /\ Spec
    /\ WF_vars(Tick)
    /\ \A g \in Goroutines :
          /\ WF_vars(Query(g) \/ QueryFails(g))
          /\ WF_vars(Fill(g) \/ Discard(g))
          /\ WF_vars(\E key \in CacheKeys \cup HashKeys : Invalidate(g, key))

-----------------------------------------------------------------------------
\* However reads, writes, deletions, expiry and eviction of two goroutines
\* fall together, the cache's map and list hold the same keys, each once and
\* within the limit, and what is cached under a key was read from a place of
\* that name: a string and a hash field are mixed up only if their names come
\* to the same text.
CacheInStep ==
    /\ InStep(cache)
    /\ \A k \in DOMAIN cache.data : CacheKey(cache.data[k].value.place) = k

\* A cached value that is older than the one in Redis is about to be
\* invalidated, or it got there in one of four ways: a reader put it there
\* after a write had overtaken it, the reply to a write was lost, the hash
\* it belongs to was deleted as a whole, or its key expired in Redis.
StaleExplained ==
    \A k \in CacheKeys : Stale(cache, k) =>
        k \in excused \/ \E g \in Goroutines : step[g] = "invalidate" /\ k \in del[g]

\* A cached value that is out of date is not served for ever, however often
\* it is read: it expires or is replaced in the end.
StaleHeals ==
    \A k \in CacheKeys :
        (Stale(cache, k) /\ IsHit(cache, k)) ~> ~(Stale(cache, k) /\ IsHit(cache, k))
=============================================================================
