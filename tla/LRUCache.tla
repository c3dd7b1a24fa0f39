------------------------------ MODULE LRUCache ------------------------------
(***************************************************************************)
(* The cache of the enrichment clients (internal/enrichment/cache.go): a   *)
(* map of entries with an expiry and a list of the keys, most recently     *)
(* used first.  Every operation runs under one lock, so each is a function *)
(* of the cache's value.  An entry's age stands for its expiry: it has     *)
(* expired when it is older than the TTL.                                  *)
(***************************************************************************)
EXTENDS Integers, FiniteSets, SequencesExt

CONSTANTS MaxSize,   \* LRUCache.maxSize
          TTL        \* LRUCache.ttl, in ticks of the clock

(* NewLRUCache replaces values that are not positive.                      *)
ASSUME CacheAssumption == MaxSize \in Nat \ {0} /\ TTL \in Nat \ {0}

EmptyCache == [data |-> <<>>, lruList |-> <<>>]

\* removeEntry
RemoveEntry(c, key) ==
    [data |-> Restrict(c.data, DOMAIN c.data \ {key}),
     lruList |-> RemoveFirst(c.lruList, key)]

MoveToFront(c, key) == [c EXCEPT !.lruList = <<key>> \o RemoveFirst(@, key)]

IsExpired(entry) == entry.age > TTL

IsHit(c, key) == key \in DOMAIN c.data /\ ~IsExpired(c.data[key])

\* Fault in Get: a hit renews the entry.
GetRenews(c, key) ==
    CASE key \notin DOMAIN c.data -> c
      [] IsHit(c, key) -> [MoveToFront(c, key) EXCEPT !.data[key].age = 0]
      [] OTHER -> RemoveEntry(c, key)

\* The cache after Get: an expired entry is removed, a hit becomes the most
\* recently used one.
Get(c, key) ==
    CASE key \notin DOMAIN c.data -> c
      [] IsHit(c, key) -> MoveToFront(c, key)
      [] OTHER -> RemoveEntry(c, key)

\* Fault in EvictLRU: the list keeps the key.
EvictLRUFromMap(c) ==
    [c EXCEPT !.data = Restrict(@, DOMAIN @ \ {c.lruList[Len(c.lruList)]})]

\* evictLRU
EvictLRU(c) ==
    IF c.lruList = <<>> THEN c ELSE RemoveEntry(c, c.lruList[Len(c.lruList)])

\* SetWithTTL: an entry there is updated in place; a new one may evict.
Set(c, key, value) ==
    LET entry == [value |-> value, age |-> 0]
        room == IF Cardinality(DOMAIN c.data) >= MaxSize THEN EvictLRU(c) ELSE c
    IN  IF key \in DOMAIN c.data
        THEN [MoveToFront(c, key) EXCEPT !.data[key] = entry]
        ELSE [data |-> [k \in DOMAIN room.data \cup {key} |->
                          IF k = key THEN entry ELSE room.data[k]],
              lruList |-> <<key>> \o room.lruList]

\* Delete
Delete(c, key) == IF key \in DOMAIN c.data THEN RemoveEntry(c, key) ELSE c

\* Time passes.
Aged(c) ==
    [data |-> [k \in DOMAIN c.data |->
                 [c.data[k] EXCEPT !.age = IF @ > TTL THEN @ ELSE @ + 1]],
     lruList |-> c.lruList]

\* The map and the list hold the same keys, each once, and no more than fit.
InStep(c) ==
    /\ Len(c.lruList) = Cardinality(DOMAIN c.data)
    /\ {c.lruList[n] : n \in DOMAIN c.lruList} = DOMAIN c.data
    /\ Len(c.lruList) <= MaxSize
=============================================================================
