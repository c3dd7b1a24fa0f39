------------------------- MODULE RedisClientProofs -------------------------
(***************************************************************************)
(* Proofs about RedisClient and the LRUCache in it, for any number of      *)
(* goroutines, keys and writes, any size and any TTL.                      *)
(***************************************************************************)
EXTENDS RedisClient, FiniteSetTheorems, SequenceTheorems, TLAPS

USE CacheAssumption, KeysAssumption, WritesAssumption

-----------------------------------------------------------------------------
(* Lists without repetition                                                *)

Distinct(s) == \A i, j \in 1 .. Len(s) : s[i] = s[j] => i = j

\* An element that is in the list, at n, is taken out and the rest moves up.
LEMMA RemovedAt ==
    ASSUME NEW S, NEW s \in Seq(S), Distinct(s), NEW n \in 1 .. Len(s)
    PROVE  RemoveFirst(s, s[n]) =
             [i \in 1 .. Len(s) - 1 |-> IF i < n THEN s[i] ELSE s[i + 1]]
<1>1. {i \in 1 .. Len(s) : s[i] = s[n]} = {n}
  BY DEF Distinct
<1>2. Min({n}) = n
  BY DEF Min
<1>3. SelectInSeq(s, LAMBDA v : v = s[n]) = n
  BY <1>1, <1>2 DEF SelectInSeq
<1>4. RemoveFirst(s, s[n]) = SubSeq(s, 1, n - 1) \o SubSeq(s, n + 1, Len(s))
  BY <1>3 DEF RemoveFirst, RemoveAt
<1> DEFINE a == SubSeq(s, 1, n - 1)
           b == SubSeq(s, n + 1, Len(s))
           t == [i \in 1 .. Len(s) - 1 |-> IF i < n THEN s[i] ELSE s[i + 1]]
<1>5. Len(s) \in Nat /\ \A i \in 1 .. Len(s) : s[i] \in S
  BY LenProperties
<1>6. /\ a \in Seq(S) /\ Len(a) = n - 1
      /\ \A i \in 1 .. n - 1 : a[i] = s[i]
  <2>1. /\ a \in Seq(S) /\ Len(a) = IF 1 <= n - 1 THEN (n - 1) - 1 + 1 ELSE 0
        /\ \A i \in 1 .. (n - 1) - 1 + 1 : a[i] = s[1 + i - 1]
    BY <1>5, SubSeqProperties
  <2> HIDE DEF a
  <2> QED BY <1>5, <2>1
<1>7. /\ b \in Seq(S) /\ Len(b) = Len(s) - n
      /\ \A i \in 1 .. Len(s) - n : b[i] = s[n + i]
  <2>1. /\ b \in Seq(S) /\ Len(b) = IF n + 1 <= Len(s) THEN Len(s) - (n + 1) + 1 ELSE 0
        /\ \A i \in 1 .. Len(s) - (n + 1) + 1 : b[i] = s[(n + 1) + i - 1]
    BY <1>5, SubSeqProperties
  <2> HIDE DEF b
  <2> QED BY <1>5, <2>1
<1> HIDE DEF a, b
<1>8. /\ a \o b \in Seq(S) /\ Len(a \o b) = Len(s) - 1
      /\ \A i \in 1 .. Len(s) - 1 : (a \o b)[i] = IF i <= n - 1 THEN a[i] ELSE b[i - (n - 1)]
  <2>1. /\ a \o b \in Seq(S) /\ Len(a \o b) = Len(a) + Len(b)
        /\ \A i \in 1 .. Len(a) + Len(b) :
              (a \o b)[i] = IF i <= Len(a) THEN a[i] ELSE b[i - Len(a)]
    BY <1>6, <1>7, ConcatProperties
  <2> QED BY <1>5, <1>6, <1>7, <2>1
<1>9. t \in Seq(S) /\ Len(t) = Len(s) - 1
  BY <1>5
<1>10. \A i \in 1 .. Len(s) - 1 : (a \o b)[i] = t[i]
  BY <1>5, <1>6, <1>7, <1>8
<1> HIDE DEF t
<1>11. a \o b = t
  BY <1>8, <1>9, <1>10, SeqEqual
<1> QED BY <1>4, <1>11 DEF a, b, t

LEMMA Removed ==
    ASSUME NEW S, NEW s \in Seq(S), Distinct(s), NEW e
    PROVE  /\ RemoveFirst(s, e) \in Seq(S)
           /\ Distinct(RemoveFirst(s, e))
           /\ Range(RemoveFirst(s, e)) = Range(s) \ {e}
           /\ Len(RemoveFirst(s, e)) = IF e \in Range(s) THEN Len(s) - 1 ELSE Len(s)
<1>1. CASE e \notin Range(s)
  <2>1. RemoveFirst(s, e) = s
    BY <1>1, LenProperties DEF RemoveFirst, Range
  <2>2. Range(s) = Range(s) \ {e}
    BY <1>1
  <2> QED BY <1>1, <2>1, <2>2
<1>2. CASE e \in Range(s)
  <2>1. PICK n \in 1 .. Len(s) : s[n] = e
    BY <1>2 DEF Range
  <2> DEFINE t == [i \in 1 .. Len(s) - 1 |-> IF i < n THEN s[i] ELSE s[i + 1]]
  <2>2. RemoveFirst(s, e) = t
    BY <2>1, RemovedAt
  <2>3. t \in Seq(S) /\ Len(t) = Len(s) - 1
    OBVIOUS
  <2>4. Distinct(t)
    BY <2>3 DEF Distinct
  <2>5. Range(t) = Range(s) \ {e}
    <3>1. \A i \in DOMAIN t : t[i] \in Range(s) /\ t[i] # e
      BY <2>1 DEF Range, Distinct
    <3>2. ASSUME NEW i \in 1 .. Len(s), s[i] # e
          PROVE  \E j \in DOMAIN t : t[j] = s[i]
      <4>1. CASE i < n
        BY <4>1
      <4>2. CASE i > n
        <5>1. i - 1 \in 1 .. Len(s) - 1 /\ ~(i - 1 < n) /\ (i - 1) + 1 = i
          BY <4>2, LenProperties
        <5>2. i - 1 \in DOMAIN t /\ t[i - 1] = s[i]
          BY <5>1
        <5> QED BY <5>2
      <4> QED BY <3>2, <2>1, <4>1, <4>2
    <3> QED BY <3>1, <3>2 DEF Range
  <2> HIDE DEF t
  <2> QED BY <1>2, <2>2, <2>3, <2>4, <2>5
<1> QED BY <1>1, <1>2

\* A new element at the front.
LEMMA Pushed ==
    ASSUME NEW S, NEW s \in Seq(S), Distinct(s), NEW e \in S, e \notin Range(s)
    PROVE  /\ <<e>> \o s \in Seq(S)
           /\ Distinct(<<e>> \o s)
           /\ Range(<<e>> \o s) = Range(s) \cup {e}
           /\ Len(<<e>> \o s) = Len(s) + 1
<1> DEFINE t == <<e>> \o s
<1>1. t \in Seq(S) /\ Len(t) = Len(s) + 1 /\ t[1] = e
  OBVIOUS
<1>2. \A i \in 2 .. Len(t) : t[i] = s[i - 1]
  OBVIOUS
<1>3. Distinct(t)
  BY <1>1, <1>2 DEF Distinct, Range
<1>4. Range(t) = Range(s) \cup {e}
  <2>1. \A i \in DOMAIN t : t[i] \in Range(s) \cup {e}
    BY <1>1, <1>2 DEF Range
  <2>2. ASSUME NEW i \in 1 .. Len(s) PROVE s[i] = t[i + 1] /\ i + 1 \in DOMAIN t
    BY <1>1, <1>2
  <2>3. Range(s) \subseteq Range(t)
    BY <2>2, LenProperties DEF Range
  <2>4. e \in Range(t)
    BY <1>1, LenProperties DEF Range
  <2>5. Range(t) \subseteq Range(s) \cup {e}
    BY <2>1 DEF Range
  <2> HIDE DEF t
  <2> QED BY <2>3, <2>4, <2>5
<1> QED BY <1>1, <1>3, <1>4

\* Such a list is as long as the set of its elements is large.
LEMMA DistinctLength ==
    ASSUME NEW S, NEW s \in Seq(S), Distinct(s)
    PROVE  IsFiniteSet(Range(s)) /\ Cardinality(Range(s)) = Len(s)
<1>1. s \in Bijection(1 .. Len(s), Range(s))
  BY DEF Bijection, Injection, Surjection, IsInjective, Range, Distinct
<1>2. ExistsBijection(1 .. Len(s), Range(s)) /\ Len(s) \in Nat
  BY <1>1 DEF ExistsBijection
<1> QED BY <1>2, FS_CountingElements, FS_NatBijection

-----------------------------------------------------------------------------
(* The inductive invariant                                                 *)

Keys == CacheKeys \cup HashKeys
Entries == [value : Values, age : 0 .. TTL + 1]

\* A cache whose list holds the keys of its map, each once.
Fits(c) ==
    /\ c = [data |-> c.data, lruList |-> c.lruList]
    /\ c.data = [k \in DOMAIN c.data |-> c.data[k]]
    /\ c.lruList \in Seq(Keys) /\ Distinct(c.lruList)
    /\ Len(c.lruList) <= MaxSize
    /\ Range(c.lruList) = DOMAIN c.data

\* What is cached under a key was read from a place of that name.
Honest(c) ==
    \A k \in DOMAIN c.data :
        c.data[k] \in Entries /\ CacheKey(c.data[k].value.place) = k

\* A goroutine that reads has a place to read.
ReaderHasPlace ==
    \A g \in Goroutines : step[g] \in {"query", "fill"} => place[g] \in Places

RInv ==
    /\ TypeOK
    /\ Fits(cache)
    /\ Honest(cache)
    /\ ReaderHasPlace
    /\ StaleExplained

-----------------------------------------------------------------------------
(* What the operations do to the cache                                     *)

\* The entries of d are entries of c.
Part(d, c) ==
    /\ DOMAIN d.data \subseteq DOMAIN c.data
    /\ \A k \in DOMAIN d.data : d.data[k] = c.data[k]

\* Replacing the list of the cache.
LEMMA NewList ==
    ASSUME NEW x, NEW y, NEW z
    PROVE  [[data |-> x, lruList |-> y] EXCEPT !.lruList = z] = [data |-> x, lruList |-> z]
OBVIOUS

LEMMA FitsSize ==
    ASSUME NEW c, Fits(c)
    PROVE  Cardinality(DOMAIN c.data) = Len(c.lruList)
BY DistinctLength DEF Fits

LEMMA RemoveFits ==
    ASSUME NEW c, Fits(c), NEW key
    PROVE  /\ Fits(RemoveEntry(c, key)) /\ Part(RemoveEntry(c, key), c)
           /\ DOMAIN RemoveEntry(c, key).data = DOMAIN c.data \ {key}
           /\ key \in DOMAIN c.data =>
                Len(RemoveEntry(c, key).lruList) = Len(c.lruList) - 1
<1> DEFINE k == RemoveFirst(c.lruList, key)
           d == RemoveEntry(c, key)
<1>1. /\ d = [data |-> d.data, lruList |-> d.lruList]
      /\ d.data = Restrict(c.data, DOMAIN c.data \ {key}) /\ d.lruList = k
  BY DEF RemoveEntry
<1>2. /\ DOMAIN d.data = DOMAIN c.data \ {key}
      /\ d.data = [x \in DOMAIN d.data |-> d.data[x]]
      /\ \A x \in DOMAIN d.data : d.data[x] = c.data[x]
  BY <1>1 DEF Restrict
<1>3. c.lruList \in Seq(Keys) /\ Distinct(c.lruList) /\ Len(c.lruList) \in Nat
  BY LenProperties DEF Fits
<1>4. /\ k \in Seq(Keys) /\ Distinct(k) /\ Range(k) = Range(c.lruList) \ {key}
      /\ Len(k) = IF key \in Range(c.lruList) THEN Len(c.lruList) - 1 ELSE Len(c.lruList)
  BY <1>3, Removed
<1> HIDE DEF k, d
<1>5. Len(k) <= MaxSize
  BY <1>3, <1>4 DEF Fits
<1>6. Fits(d)
  BY <1>1, <1>2, <1>4, <1>5 DEF Fits
<1>7. key \in DOMAIN c.data => Len(d.lruList) = Len(c.lruList) - 1
  BY <1>1, <1>4 DEF Fits
<1> QED BY <1>2, <1>6, <1>7 DEF Part, d

LEMMA MoveFits ==
    ASSUME NEW c, Fits(c), NEW key \in DOMAIN c.data
    PROVE  Fits(MoveToFront(c, key)) /\ MoveToFront(c, key).data = c.data
<1> DEFINE k == RemoveFirst(c.lruList, key)
           n == <<key>> \o k
           d == MoveToFront(c, key)
<1>1. d = [data |-> d.data, lruList |-> d.lruList] /\ d.data = c.data /\ d.lruList = n
  <2>1. PICK x, y : c = [data |-> x, lruList |-> y]
    BY DEF Fits
  <2>2. d = [data |-> x, lruList |-> <<key>> \o RemoveFirst(y, key)]
    <3>1. d = [c EXCEPT !.lruList = <<key>> \o RemoveFirst(y, key)]
      BY <2>1 DEF MoveToFront
    <3> QED BY <2>1, <3>1, NewList
  <2> HIDE DEF d
  <2> QED BY <2>1, <2>2
<1>2. /\ c.lruList \in Seq(Keys) /\ Distinct(c.lruList) /\ Len(c.lruList) \in Nat
      /\ key \in Range(c.lruList)
  BY LenProperties DEF Fits
<1>3. key \in Keys
  BY <1>2, LenProperties DEF Range
<1>4. /\ k \in Seq(Keys) /\ Distinct(k) /\ Range(k) = Range(c.lruList) \ {key}
      /\ Len(k) = Len(c.lruList) - 1
  BY <1>2, Removed
<1> HIDE DEF k
<1>5. /\ n \in Seq(Keys) /\ Distinct(n) /\ Range(n) = Range(k) \cup {key}
      /\ Len(n) = Len(k) + 1
  BY <1>3, <1>4, Pushed
<1> HIDE DEF n, d
<1>6. Range(n) = Range(c.lruList) /\ Len(n) = Len(c.lruList)
  BY <1>2, <1>4, <1>5
<1>7. Fits(d)
  BY <1>1, <1>5, <1>6 DEF Fits
<1> QED BY <1>1, <1>7 DEF d

LEMMA GetFits ==
    ASSUME NEW c, Fits(c), NEW key
    PROVE  Fits(Get(c, key)) /\ Part(Get(c, key), c)
<1>1. CASE key \notin DOMAIN c.data
  <2>1. Get(c, key) = c
    BY <1>1 DEF Get, IsHit
  <2> QED BY <2>1 DEF Part
<1>2. CASE IsHit(c, key)
  <2>1. Get(c, key) = MoveToFront(c, key) /\ key \in DOMAIN c.data
    BY <1>2 DEF Get, IsHit
  <2> QED BY <2>1, MoveFits DEF Part
<1>3. CASE key \in DOMAIN c.data /\ ~IsHit(c, key)
  <2>1. Get(c, key) = RemoveEntry(c, key)
    BY <1>3 DEF Get
  <2> QED BY <2>1, RemoveFits
<1> QED BY <1>1, <1>2, <1>3

LEMMA DeleteFits ==
    ASSUME NEW c, Fits(c), NEW key
    PROVE  /\ Fits(Delete(c, key)) /\ Part(Delete(c, key), c)
           /\ key \notin DOMAIN Delete(c, key).data
           /\ DOMAIN c.data \ {key} \subseteq DOMAIN Delete(c, key).data
BY RemoveFits DEF Delete, Part

\* Room is made for one more entry.
LEMMA EvictFits ==
    ASSUME NEW c, Fits(c)
    PROVE  LET room == IF Cardinality(DOMAIN c.data) >= MaxSize THEN EvictLRU(c) ELSE c
           IN  Fits(room) /\ Part(room, c) /\ Len(room.lruList) < MaxSize
<1> DEFINE v == c.lruList[Len(c.lruList)]
<1>1. /\ Cardinality(DOMAIN c.data) = Len(c.lruList) /\ Len(c.lruList) \in Nat
      /\ Len(c.lruList) <= MaxSize /\ c.lruList \in Seq(Keys)
  BY FitsSize, LenProperties DEF Fits
<1>2. CASE Cardinality(DOMAIN c.data) >= MaxSize
  <2>1. c.lruList # <<>> /\ Len(c.lruList) \in 1 .. Len(c.lruList)
    BY <1>1, <1>2, EmptySeq
  <2>2. v \in DOMAIN c.data
    BY <1>1, <2>1, LenProperties DEF Fits, Range
  <2>3. EvictLRU(c) = RemoveEntry(c, v)
    BY <2>1 DEF EvictLRU
  <2> HIDE DEF v
  <2>4. /\ Fits(EvictLRU(c)) /\ Part(EvictLRU(c), c)
        /\ Len(EvictLRU(c).lruList) = Len(c.lruList) - 1
    BY <2>2, <2>3, RemoveFits
  <2> QED BY <1>1, <1>2, <2>4
<1>3. CASE ~(Cardinality(DOMAIN c.data) >= MaxSize)
  BY <1>1, <1>3 DEF Part
<1> QED BY <1>2, <1>3

LEMMA SetFits ==
    ASSUME NEW c, Fits(c), NEW key \in Keys, NEW value
    PROVE  LET d == Set(c, key, value)
           IN  /\ Fits(d)
               /\ key \in DOMAIN d.data
               /\ d.data[key] = [value |-> value, age |-> 0]
               /\ \A k \in DOMAIN d.data \ {key} :
                     k \in DOMAIN c.data /\ d.data[k] = c.data[k]
<1> DEFINE entry == [value |-> value, age |-> 0]
           room == IF Cardinality(DOMAIN c.data) >= MaxSize THEN EvictLRU(c) ELSE c
           d == Set(c, key, value)
<1>1. CASE key \in DOMAIN c.data
  <2> DEFINE f == MoveToFront(c, key)
  <2>1. Fits(f) /\ f.data = c.data
    BY <1>1, MoveFits
  <2>2. d = [f EXCEPT !.data[key] = entry]
    BY <1>1 DEF Set
  <2> HIDE DEF f, entry
  <2>3. /\ d = [data |-> d.data, lruList |-> d.lruList]
        /\ d.lruList = f.lruList
        /\ d.data = [f.data EXCEPT ![key] = entry]
    BY <2>1, <2>2 DEF Fits
  <2> HIDE DEF d
  <2>4. /\ DOMAIN d.data = DOMAIN c.data
        /\ d.data = [k \in DOMAIN d.data |-> d.data[k]]
        /\ d.data[key] = entry
        /\ \A k \in DOMAIN d.data \ {key} : d.data[k] = c.data[k]
    BY <1>1, <2>1, <2>3
  <2>5. Fits(d)
    BY <2>1, <2>3, <2>4 DEF Fits
  <2> QED BY <1>1, <2>4, <2>5 DEF d, entry
<1>2. CASE key \notin DOMAIN c.data
  <2>1. Fits(room) /\ Part(room, c) /\ Len(room.lruList) < MaxSize
    BY EvictFits
  <2>2. d = [data |-> [k \in DOMAIN room.data \cup {key} |->
                          IF k = key THEN entry ELSE room.data[k]],
             lruList |-> <<key>> \o room.lruList]
    BY <1>2 DEF Set
  <2> HIDE DEF room, entry, d
  <2>3. /\ d = [data |-> d.data, lruList |-> d.lruList]
        /\ d.lruList = <<key>> \o room.lruList
        /\ DOMAIN d.data = DOMAIN room.data \cup {key}
        /\ d.data = [k \in DOMAIN d.data |-> d.data[k]]
        /\ d.data[key] = entry
        /\ \A k \in DOMAIN d.data \ {key} : d.data[k] = room.data[k]
    BY <2>2
  <2>4. /\ d.lruList \in Seq(Keys) /\ Distinct(d.lruList)
        /\ Range(d.lruList) = Range(room.lruList) \cup {key}
        /\ Len(d.lruList) = Len(room.lruList) + 1
    BY <1>2, <2>1, <2>3, Pushed DEF Fits, Part
  <2>5. Len(d.lruList) <= MaxSize
    BY <2>1, <2>4, LenProperties DEF Fits
  <2>6. Fits(d)
    BY <2>1, <2>3, <2>4, <2>5 DEF Fits
  <2>7. \A k \in DOMAIN d.data \ {key} : k \in DOMAIN c.data /\ d.data[k] = c.data[k]
    BY <2>1, <2>3 DEF Part
  <2> QED BY <2>3, <2>6, <2>7 DEF d, entry
<1> QED BY <1>1, <1>2

LEMMA AgedFits ==
    ASSUME NEW c, Fits(c), Honest(c)
    PROVE  /\ Fits(Aged(c)) /\ Honest(Aged(c))
           /\ DOMAIN Aged(c).data = DOMAIN c.data
           /\ \A k \in DOMAIN c.data : Aged(c).data[k].value = c.data[k].value
<1> DEFINE d == Aged(c)
           Older(n) == IF n > TTL THEN n ELSE n + 1
<1>1. /\ d = [data |-> d.data, lruList |-> d.lruList]
      /\ d.lruList = c.lruList
      /\ d.data = [k \in DOMAIN c.data |-> [c.data[k] EXCEPT !.age = Older(@)]]
  BY DEF Aged
<1> HIDE DEF d
<1>2. ASSUME NEW k \in DOMAIN c.data
      PROVE  d.data[k] \in Entries /\ d.data[k].value = c.data[k].value
  <2>1. c.data[k] \in Entries
    BY DEF Honest
  <2>2. d.data[k] = [c.data[k] EXCEPT !.age = Older(@)]
    BY <1>1
  <2> QED BY <2>1, <2>2 DEF Entries
<1>3. DOMAIN d.data = DOMAIN c.data
  BY <1>1
<1>4. Fits(d)
  BY <1>1, <1>3 DEF Fits
<1>5. Honest(d)
  BY <1>2, <1>3 DEF Honest
<1> QED BY <1>2, <1>3, <1>4, <1>5 DEF d

-----------------------------------------------------------------------------
(* The invariant is inductive                                              *)

\* The keys of an honest cache are cache keys.
LEMMA HonestKeys ==
    ASSUME NEW c, Honest(c)
    PROVE  /\ DOMAIN c.data \subseteq CacheKeys
           /\ \A k \in DOMAIN c.data : c.data[k].value.place \in Places
BY DEF Honest, Entries, Values, CacheKeys

\* The type of the cache follows from its being honest.
LEMMA CacheTypes ==
    ASSUME NEW c, Honest(c)
    PROVE  /\ DOMAIN c.data \subseteq CacheKeys \cup HashKeys
           /\ \A k \in DOMAIN c.data : c.data[k] \in [value : Values, age : 0 .. TTL + 1]
BY HonestKeys DEF Honest, Entries

LEMMA RInit == Init => RInv
<1> SUFFICES ASSUME Init PROVE RInv
  OBVIOUS
<1> USE DEF Init
<1>1. cache.data = <<>> /\ cache.lruList = <<>> /\ DOMAIN cache.data = {}
  BY DEF EmptyCache
<1>2. Fits(cache)
  BY <1>1, EmptySeq DEF Fits, Distinct, Range, EmptyCache
<1>3. Honest(cache) /\ StaleExplained
  BY <1>1 DEF Honest, StaleExplained, Stale
<1>4. TypeOK
  <2>1. version \in [Places -> 0 .. MaxWrites] /\ got \in [Goroutines -> 0 .. MaxWrites]
    OBVIOUS
  <2>2. /\ step \in [Goroutines -> {"idle", "query", "fill", "invalidate"}]
        /\ place \in [Goroutines -> Places \cup {None}]
        /\ del \in [Goroutines -> SUBSET (CacheKeys \cup HashKeys)]
    OBVIOUS
  <2> QED BY <1>1, <2>1, <2>2 DEF TypeOK
<1> QED BY <1>2, <1>3, <1>4 DEF RInv, ReaderHasPlace

\* Parts of the cache go; nothing is written to Redis.  Whoever was about to
\* invalidate a key that is still there is still about to.
LEMMA ShrinkStale ==
    ASSUME RInv, version' = version, Part(cache', cache),
           excused \cap DOMAIN cache'.data \subseteq excused',
           \A g \in Goroutines : step[g] = "invalidate" =>
               \A k \in del[g] \cap DOMAIN cache'.data :
                   step'[g] = "invalidate" /\ k \in del'[g]
    PROVE  StaleExplained' /\ Honest(cache')
<1>1. StaleExplained'
  <2> SUFFICES ASSUME NEW k \in CacheKeys, Stale(cache, k)'
               PROVE  k \in excused' \/ \E g \in Goroutines : step'[g] = "invalidate" /\ k \in del'[g]
    BY DEF StaleExplained
  <2>1. k \in DOMAIN cache'.data /\ Stale(cache, k)
    BY DEF Stale, Part
  <2>2. k \in excused \/ \E g \in Goroutines : step[g] = "invalidate" /\ k \in del[g]
    BY <2>1 DEF RInv, StaleExplained
  <2> QED BY <2>1, <2>2
<1>2. Honest(cache')
  BY DEF RInv, Honest, Part
<1> QED BY <1>1, <1>2

LEMMA ReadStep ==
    ASSUME RInv, NEW g \in Goroutines, NEW pl \in Places, Read(g, pl)
    PROVE  RInv'
<1> USE DEF Read, redis
<1>1. Fits(cache') /\ Part(cache', cache)
  BY GetFits DEF RInv
<1>2. \A h \in Goroutines : step[h] = "invalidate" => step'[h] = "invalidate"
  BY DEF RInv, TypeOK
<1>3. StaleExplained' /\ Honest(cache')
  BY <1>1, <1>2, ShrinkStale
<1>4. TypeOK'
  BY <1>3, CacheTypes DEF RInv, TypeOK
<1>5. ReaderHasPlace'
  BY DEF RInv, TypeOK, ReaderHasPlace
<1> QED BY <1>1, <1>3, <1>4, <1>5 DEF RInv, Fits, Honest

\* The steps of a reader that leave the cache alone.
LEMMA QueryStep ==
    ASSUME RInv, NEW g \in Goroutines, Query(g) \/ QueryFails(g) \/ Discard(g)
    PROVE  RInv'
<1> USE DEF Query, QueryFails, Discard, redis
<1>1. UNCHANGED <<version, cache, excused, del>>
  OBVIOUS
<1>2. \A h \in Goroutines : step[h] = "invalidate" => step'[h] = "invalidate"
  BY DEF RInv, TypeOK
<1>3. Part(cache', cache)
  BY <1>1 DEF Part
<1>4. StaleExplained' /\ Honest(cache')
  BY <1>1, <1>2, <1>3, ShrinkStale
<1>5. TypeOK'
  BY <1>1 DEF RInv, TypeOK, ReaderHasPlace
<1>6. ReaderHasPlace'
  BY DEF RInv, TypeOK, ReaderHasPlace
<1> QED BY <1>1, <1>4, <1>5, <1>6 DEF RInv, Fits, Honest

LEMMA FillStep ==
    ASSUME RInv, NEW g \in Goroutines, Fill(g)
    PROVE  RInv'
<1> DEFINE key == CacheKey(place[g])
           value == [place |-> place[g], version |-> got[g]]
<1> USE DEF redis
<1>1. step[g] = "fill" /\ place[g] \in Places /\ key \in CacheKeys /\ value \in Values
  BY DEF Fill, RInv, ReaderHasPlace, TypeOK, CacheKeys, Values
<1>2. /\ cache' = Set(cache, key, value)
      /\ excused' = (IF Stale(cache', key) THEN excused \cup {key} ELSE excused \ {key})
                      \cap DOMAIN cache'.data
      /\ step' = [step EXCEPT ![g] = "idle"]
      /\ UNCHANGED <<version, present, closed, del>>
  BY DEF Fill
<1>3. value.place = place[g]
  OBVIOUS
<1> HIDE DEF value
<1>4. /\ Fits(cache') /\ key \in DOMAIN cache'.data
      /\ cache'.data[key] = [value |-> value, age |-> 0]
      /\ \A k \in DOMAIN cache'.data \ {key} :
            k \in DOMAIN cache.data /\ cache'.data[k] = cache.data[k]
  BY <1>1, <1>2, SetFits DEF RInv, Keys
<1>5. cache'.data[key] \in Entries /\ CacheKey(cache'.data[key].value.place) = key
  BY <1>1, <1>3, <1>4 DEF Entries
<1> HIDE DEF key
<1>6. Honest(cache')
  BY <1>4, <1>5 DEF RInv, Honest
<1>7. StaleExplained'
  <2> SUFFICES ASSUME NEW k \in CacheKeys, Stale(cache, k)'
               PROVE  k \in excused' \/ \E h \in Goroutines : step'[h] = "invalidate" /\ k \in del'[h]
    BY DEF StaleExplained
  <2>1. k \in DOMAIN cache'.data /\ Stale(cache', k)
    BY <1>2 DEF Stale
  <2>2. CASE k = key
    BY <1>2, <2>1, <2>2
  <2>3. CASE k # key
    <3>1. Stale(cache, k)
      BY <1>4, <2>1, <2>3 DEF Stale
    <3>2. k \in excused \/ \E h \in Goroutines : step[h] = "invalidate" /\ k \in del[h]
      BY <3>1 DEF RInv, StaleExplained
    <3>3. \A h \in Goroutines : step[h] = "invalidate" => step'[h] = "invalidate"
      BY <1>1, <1>2 DEF RInv, TypeOK
    <3> QED BY <1>2, <2>1, <2>3, <3>2, <3>3
  <2> QED BY <2>2, <2>3
<1>8. TypeOK'
  <2>1. excused' \subseteq CacheKeys
    BY <1>1, <1>2 DEF RInv, TypeOK
  <2>2. /\ step' \in [Goroutines -> {"idle", "query", "fill", "invalidate"}]
        /\ place' \in [Goroutines -> Places \cup {None}]
        /\ got' \in [Goroutines -> 0 .. MaxWrites]
    BY DEF Fill, RInv, TypeOK
  <2> QED BY <1>2, <1>6, <2>1, <2>2, CacheTypes DEF RInv, TypeOK
<1>9. ReaderHasPlace'
  BY DEF Fill, RInv, TypeOK, ReaderHasPlace
<1> QED BY <1>4, <1>6, <1>7, <1>8, <1>9 DEF RInv, Fits, Honest

\* A write to places: what is cached of them is about to be invalidated, or is
\* known to be out of date.
LEMMA WrittenStep ==
    ASSUME RInv, NEW g \in Goroutines, step[g] = "idle",
           NEW dels \in SUBSET (CacheKeys \cup HashKeys), NEW pls \in SUBSET Places,
           Written(g, dels, {CacheKey(pl) : pl \in pls}),
           version' \in [Places -> 0 .. MaxWrites], present' \in [Places -> BOOLEAN],
           \A pl \in Places \ pls : version'[pl] = version[pl],
           UNCHANGED <<cache, closed, place, got>>
    PROVE  RInv'
<1> DEFINE keys == {CacheKey(pl) : pl \in pls}
<1>1. \A h \in Goroutines :
         step[h] = "invalidate" => step'[h] = "invalidate" /\ del'[h] = del[h]
  BY DEF Written, RInv, TypeOK
<1>2. StaleExplained'
  <2> SUFFICES ASSUME NEW k \in CacheKeys, Stale(cache, k)'
               PROVE  k \in excused' \/ \E h \in Goroutines : step'[h] = "invalidate" /\ k \in del'[h]
    BY DEF StaleExplained
  <2> DEFINE v == cache.data[k].value
  <2>1. k \in DOMAIN cache.data /\ v.version < version'[v.place]
    BY DEF Stale
  <2>2. v.place \in Places /\ CacheKey(v.place) = k
    BY <2>1, HonestKeys DEF RInv, Honest
  <2>3. CASE v.place \in pls
    <3>1. k \in keys
      BY <2>2, <2>3
    <3>2. CASE k \in excused'
      BY <3>2
    <3>3. CASE k \notin excused'
      <4> HIDE DEF keys
      <4>1. k \in dels /\ step' = [step EXCEPT ![g] = "invalidate"] /\ del' = [del EXCEPT ![g] = dels]
        BY <2>1, <3>1, <3>3 DEF Written, keys
      <4> QED BY <4>1 DEF RInv, TypeOK
    <3> QED BY <3>2, <3>3
  <2>4. CASE v.place \notin pls
    <3>1. Stale(cache, k)
      BY <2>1, <2>2, <2>4 DEF Stale
    <3>2. k \in excused \/ \E h \in Goroutines : step[h] = "invalidate" /\ k \in del[h]
      BY <3>1 DEF RInv, StaleExplained
    <3>3. excused \subseteq excused'
      BY DEF Written
    <3> QED BY <1>1, <3>2, <3>3
  <2> QED BY <2>3, <2>4
<1>3. TypeOK'
  <2>1. keys \subseteq CacheKeys
    BY DEF CacheKeys
  <2>2. /\ step' \in [Goroutines -> {"idle", "query", "fill", "invalidate"}]
        /\ del' \in [Goroutines -> SUBSET (CacheKeys \cup HashKeys)]
    BY DEF Written, RInv, TypeOK
  <2>3. excused' \subseteq CacheKeys
    BY <2>1 DEF Written, RInv, TypeOK
  <2> QED BY <2>2, <2>3 DEF RInv, TypeOK
<1>4. ReaderHasPlace'
  BY DEF Written, RInv, TypeOK, ReaderHasPlace
<1> QED BY <1>2, <1>3, <1>4 DEF RInv, Fits, Honest

LEMMA WriteStep ==
    ASSUME RInv, NEW g \in Goroutines, NEW pl \in Places, Write(g, pl)
    PROVE  RInv'
<1>1. version' \in [Places -> 0 .. MaxWrites] /\ present' \in [Places -> BOOLEAN]
  BY DEF Write, RInv, TypeOK
<1>2. \A x \in Places \ {pl} : version'[x] = version[x]
  BY DEF Write, RInv, TypeOK
<1>3. {CacheKey(pl)} \in SUBSET (CacheKeys \cup HashKeys)
  BY DEF CacheKeys
<1>4. {CacheKey(x) : x \in {pl}} = {CacheKey(pl)}
  OBVIOUS
<1>5. Written(g, {CacheKey(pl)}, {CacheKey(x) : x \in {pl}})
  BY <1>4 DEF Write
<1> DEFINE pls == {pl}
<1>6. pls \in SUBSET Places /\ Written(g, {CacheKey(pl)}, {CacheKey(x) : x \in pls})
  BY <1>5
<1>7. \A x \in Places \ pls : version'[x] = version[x]
  BY <1>2
<1>8. step[g] = "idle" /\ UNCHANGED <<cache, closed, place, got>>
  BY DEF Write
<1> HIDE DEF pls
<1> QED BY <1>1, <1>3, <1>6, <1>7, <1>8, WrittenStep

LEMMA DeleteKeysStep ==
    ASSUME RInv, NEW g \in Goroutines, NEW keys \in SUBSET (StringKeys \cup HashKeys),
           DeleteKeys(g, keys)
    PROVE  RInv'
<1>1. PlacesOf(keys) \subseteq Places /\ \A pl \in Places \ PlacesOf(keys) : pl[1] \notin keys
  BY DEF PlacesOf
<1>2. version' \in [Places -> 0 .. MaxWrites] /\ present' \in [Places -> BOOLEAN]
  BY DEF DeleteKeys, PlacesOf, RInv, TypeOK
<1>3. \A pl \in Places \ PlacesOf(keys) : version'[pl] = version[pl]
  BY <1>1 DEF DeleteKeys
<1>4. keys \in SUBSET (CacheKeys \cup HashKeys)
  <2>1. ASSUME NEW key \in StringKeys PROVE key \in CacheKeys
    <3>1. <<key, None>> \in Places /\ CacheKey(<<key, None>>) = key
      BY <2>1 DEF Places, CacheKey
    <3> QED BY <3>1 DEF CacheKeys
  <2> QED BY <2>1
<1> QED BY <1>1, <1>2, <1>3, <1>4, WrittenStep DEF DeleteKeys

LEMMA InvalidateStep ==
    ASSUME RInv, NEW g \in Goroutines, NEW key \in CacheKeys \cup HashKeys, Invalidate(g, key)
    PROVE  RInv'
<1> USE DEF Invalidate, redis
<1>1. Fits(cache') /\ Part(cache', cache) /\ key \notin DOMAIN cache'.data
  BY DeleteFits DEF RInv
<1>2. \A h \in Goroutines : step[h] = "invalidate" =>
          \A k \in del[h] \cap DOMAIN cache'.data : step'[h] = "invalidate" /\ k \in del'[h]
  BY <1>1 DEF RInv, TypeOK
<1>3. StaleExplained' /\ Honest(cache')
  BY <1>1, <1>2, ShrinkStale
<1>4. TypeOK'
  BY <1>3, CacheTypes DEF RInv, TypeOK
<1>5. ReaderHasPlace'
  BY DEF RInv, TypeOK, ReaderHasPlace
<1> QED BY <1>1, <1>3, <1>4, <1>5 DEF RInv, Fits, Honest

\* Redis drops a string: what is cached of it is known to be out of date.
LEMMA ExpireStep ==
    ASSUME RInv, NEW pl \in Places, Expire(pl)
    PROVE  RInv'
<1> USE DEF Expire
<1>1. /\ version' \in [Places -> 0 .. MaxWrites] /\ present' \in [Places -> BOOLEAN]
      /\ \A x \in Places \ {pl} : version'[x] = version[x]
  BY DEF RInv, TypeOK
<1>2. excused \subseteq excused' /\ UNCHANGED <<cache, step, del>>
  OBVIOUS
<1>3. StaleExplained'
  <2> SUFFICES ASSUME NEW k \in CacheKeys, Stale(cache, k)'
               PROVE  k \in excused' \/ \E h \in Goroutines : step'[h] = "invalidate" /\ k \in del'[h]
    BY DEF StaleExplained
  <2> DEFINE v == cache.data[k].value
  <2>1. k \in DOMAIN cache.data /\ v.version < version'[v.place]
    BY <1>2 DEF Stale
  <2>2. v.place \in Places /\ CacheKey(v.place) = k
    BY <2>1, HonestKeys DEF RInv, Honest
  <2>3. CASE v.place = pl
    BY <2>1, <2>2, <2>3
  <2>4. CASE v.place # pl
    <3>1. Stale(cache, k)
      BY <1>1, <2>1, <2>2, <2>4 DEF Stale
    <3> QED BY <1>2, <3>1 DEF RInv, StaleExplained
  <2> QED BY <2>3, <2>4
<1>4. TypeOK'
  <2>1. excused' \subseteq CacheKeys
    BY DEF RInv, TypeOK, CacheKeys
  <2> QED BY <1>1, <2>1 DEF RInv, TypeOK
<1> QED BY <1>3, <1>4 DEF RInv, Fits, Honest, ReaderHasPlace

LEMMA CloseStep == ASSUME RInv, Close PROVE RInv'
<1> USE DEF Close, redis
<1>1. cache'.data = <<>> /\ cache'.lruList = <<>> /\ DOMAIN cache'.data = {}
  BY DEF EmptyCache
<1>2. Fits(cache')
  BY <1>1, EmptySeq DEF Fits, Distinct, Range, EmptyCache
<1>3. Honest(cache') /\ StaleExplained'
  BY <1>1 DEF Honest, StaleExplained, Stale
<1>4. TypeOK'
  BY <1>1 DEF RInv, TypeOK
<1>5. ReaderHasPlace'
  BY DEF RInv, ReaderHasPlace
<1> QED BY <1>2, <1>3, <1>4, <1>5 DEF RInv, Fits, Honest

LEMMA TickStep == ASSUME RInv, Tick PROVE RInv'
<1> USE DEF Tick, redis
<1>1. /\ Fits(cache') /\ Honest(cache') /\ DOMAIN cache'.data = DOMAIN cache.data
      /\ \A k \in DOMAIN cache.data : cache'.data[k].value = cache.data[k].value
  BY AgedFits DEF RInv
<1>2. StaleExplained'
  BY <1>1 DEF RInv, StaleExplained, Stale
<1>3. TypeOK'
  BY <1>1, CacheTypes DEF RInv, TypeOK
<1>4. ReaderHasPlace'
  BY DEF RInv, ReaderHasPlace
<1> QED BY <1>1, <1>2, <1>3, <1>4 DEF RInv, Fits, Honest

LEMMA RStep == RInv /\ [Next]_vars => RInv'
<1> SUFFICES ASSUME RInv, [Next]_vars PROVE RInv'
  OBVIOUS
<1>1. CASE UNCHANGED vars
  BY <1>1 DEF vars, RInv, TypeOK, Fits, Honest, ReaderHasPlace, StaleExplained, Stale
<1> QED BY <1>1, ReadStep, WriteStep, DeleteKeysStep, QueryStep, FillStep,
           InvalidateStep, ExpireStep, CloseStep, TickStep DEF Next

LEMMA RedisInvariant == Spec => []RInv
BY RInit, RStep, PTL DEF Spec

-----------------------------------------------------------------------------
(* The theorems                                                            *)

LEMMA RInvInStep == RInv => CacheInStep
BY FitsSize DEF RInv, Fits, Honest, CacheInStep, InStep, Range

\* However lookups, fills, invalidations, expiry and eviction of any number of
\* goroutines fall together, the map and the list of the cache of the Redis
\* client hold the same keys, each once and at most maxSize of them, and what
\* is cached under a key was read from a place whose name comes to that key.
THEOREM CacheStaysInStep == Spec => []CacheInStep
BY RedisInvariant, RInvInStep, PTL

\* A cached value that Redis has a later one for is about to be invalidated,
\* or is there for one of the four reasons the code leaves open: a reader
\* filled it in late, the reply to a write was lost, its hash was deleted, or
\* it expired in Redis.
THEOREM StaleIsExplained == Spec => []StaleExplained
BY RedisInvariant, PTL DEF RInv
=============================================================================
