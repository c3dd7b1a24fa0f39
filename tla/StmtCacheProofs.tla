-------------------------- MODULE StmtCacheProofs --------------------------
(***************************************************************************)
(* Proofs about StmtCache, for any number of goroutines, queries and       *)
(* prepared statements, and any limit.                                     *)
(***************************************************************************)
EXTENDS StmtCache, FiniteSetTheorems, SequenceTheorems, TLAPS

USE StmtAssumption, NoneAssumption

-----------------------------------------------------------------------------
(* Lists without repetition                                                *)

Distinct(s) == \A i, j \in 1 .. Len(s) : s[i] = s[j] => i = j

\* An element that is in the list, at n, is taken out and the rest moves up.
LEMMA RemovedAt ==
    ASSUME NEW S, NEW s \in Seq(S), Distinct(s), NEW n \in 1 .. Len(s)
    PROVE  RemoveFirst(s, s[n]) =
             [i \in 1 .. Len(s) - 1 |-> IF i < n THEN s[i] ELSE s[i + 1]]
<1>1. {i \in 1 .. Len(s) : s[i] = s[n]} = {n}
  BY DEF Distinct
<1>2. Min({n}) = n
  BY DEF Min
<1>3. SelectInSeq(s, LAMBDA v : v = s[n]) = n
  BY <1>1, <1>2 DEF SelectInSeq
<1>4. RemoveFirst(s, s[n]) = SubSeq(s, 1, n - 1) \o SubSeq(s, n + 1, Len(s))
  BY <1>3 DEF RemoveFirst, RemoveAt
<1> DEFINE a == SubSeq(s, 1, n - 1)
           b == SubSeq(s, n + 1, Len(s))
           t == [i \in 1 .. Len(s) - 1 |-> IF i < n THEN s[i] ELSE s[i + 1]]
<1>5. Len(s) \in Nat /\ \A i \in 1 .. Len(s) : s[i] \in S
  BY LenProperties
<1>6. /\ a \in Seq(S) /\ Len(a) = n - 1
      /\ \A i \in 1 .. n - 1 : a[i] = s[i]
  <2>1. /\ a \in Seq(S) /\ Len(a) = IF 1 <= n - 1 THEN (n - 1) - 1 + 1 ELSE 0
        /\ \A i \in 1 .. (n - 1) - 1 + 1 : a[i] = s[1 + i - 1]
    BY <1>5, SubSeqProperties
  <2> HIDE DEF a
  <2> QED BY <1>5, <2>1
<1>7. /\ b \in Seq(S) /\ Len(b) = Len(s) - n
      /\ \A i \in 1 .. Len(s) - n : b[i] = s[n + i]
  <2>1. /\ b \in Seq(S) /\ Len(b) = IF n + 1 <= Len(s) THEN Len(s) - (n + 1) + 1 ELSE 0
        /\ \A i \in 1 .. Len(s) - (n + 1) + 1 : b[i] = s[(n + 1) + i - 1]
    BY <1>5, SubSeqProperties
  <2> HIDE DEF b
  <2> QED BY <1>5, <2>1
<1> HIDE DEF a, b
<1>8. /\ a \o b \in Seq(S) /\ Len(a \o b) = Len(s) - 1
      /\ \A i \in 1 .. Len(s) - 1 : (a \o b)[i] = IF i <= n - 1 THEN a[i] ELSE b[i - (n - 1)]
  <2>1. /\ a \o b \in Seq(S) /\ Len(a \o b) = Len(a) + Len(b)
        /\ \A i \in 1 .. Len(a) + Len(b) :
              (a \o b)[i] = IF i <= Len(a) THEN a[i] ELSE b[i - Len(a)]
    BY <1>6, <1>7, ConcatProperties
  <2> QED BY <1>5, <1>6, <1>7, <2>1
<1>9. t \in Seq(S) /\ Len(t) = Len(s) - 1
  BY <1>5
<1>10. \A i \in 1 .. Len(s) - 1 : (a \o b)[i] = t[i]
  BY <1>5, <1>6, <1>7, <1>8
<1> HIDE DEF t
<1>11. a \o b = t
  BY <1>8, <1>9, <1>10, SeqEqual
<1> QED BY <1>4, <1>11 DEF a, b, t

LEMMA Removed ==
    ASSUME NEW S, NEW s \in Seq(S), Distinct(s), NEW e
    PROVE  /\ RemoveFirst(s, e) \in Seq(S)
           /\ Distinct(RemoveFirst(s, e))
           /\ Range(RemoveFirst(s, e)) = Range(s) \ {e}
           /\ Len(RemoveFirst(s, e)) = IF e \in Range(s) THEN Len(s) - 1 ELSE Len(s)
<1>1. CASE e \notin Range(s)
  <2>1. RemoveFirst(s, e) = s
    BY <1>1, LenProperties DEF RemoveFirst, Range
  <2>2. Range(s) = Range(s) \ {e}
    BY <1>1
  <2> QED BY <1>1, <2>1, <2>2
<1>2. CASE e \in Range(s)
  <2>1. PICK n \in 1 .. Len(s) : s[n] = e
    BY <1>2 DEF Range
  <2> DEFINE t == [i \in 1 .. Len(s) - 1 |-> IF i < n THEN s[i] ELSE s[i + 1]]
  <2>2. RemoveFirst(s, e) = t
    BY <2>1, RemovedAt
  <2>3. t \in Seq(S) /\ Len(t) = Len(s) - 1
    OBVIOUS
  <2>4. Distinct(t)
    BY <2>3 DEF Distinct
  <2>5. Range(t) = Range(s) \ {e}
    <3>1. \A i \in DOMAIN t : t[i] \in Range(s) /\ t[i] # e
      BY <2>1 DEF Range, Distinct
    <3>2. ASSUME NEW i \in 1 .. Len(s), s[i] # e
          PROVE  \E j \in DOMAIN t : t[j] = s[i]
      <4>1. CASE i < n
        BY <4>1
      <4>2. CASE i > n
        <5>1. i - 1 \in 1 .. Len(s) - 1 /\ ~(i - 1 < n) /\ (i - 1) + 1 = i
          BY <4>2, LenProperties
        <5>2. i - 1 \in DOMAIN t /\ t[i - 1] = s[i]
          BY <5>1
        <5> QED BY <5>2
      <4> QED BY <3>2, <2>1, <4>1, <4>2
    <3> QED BY <3>1, <3>2 DEF Range
  <2> HIDE DEF t
  <2> QED BY <1>2, <2>2, <2>3, <2>4, <2>5
<1> QED BY <1>1, <1>2

\* A new element at the front.
LEMMA Pushed ==
    ASSUME NEW S, NEW s \in Seq(S), Distinct(s), NEW e \in S, e \notin Range(s)
    PROVE  /\ <<e>> \o s \in Seq(S)
           /\ Distinct(<<e>> \o s)
           /\ Range(<<e>> \o s) = Range(s) \cup {e}
           /\ Len(<<e>> \o s) = Len(s) + 1
<1> DEFINE t == <<e>> \o s
<1>1. t \in Seq(S) /\ Len(t) = Len(s) + 1 /\ t[1] = e
  OBVIOUS
<1>2. \A i \in 2 .. Len(t) : t[i] = s[i - 1]
  OBVIOUS
<1>3. Distinct(t)
  BY <1>1, <1>2 DEF Distinct, Range
<1>4. Range(t) = Range(s) \cup {e}
  <2>1. \A i \in DOMAIN t : t[i] \in Range(s) \cup {e}
    BY <1>1, <1>2 DEF Range
  <2>2. ASSUME NEW i \in 1 .. Len(s) PROVE s[i] = t[i + 1] /\ i + 1 \in DOMAIN t
    BY <1>1, <1>2
  <2>3. Range(s) \subseteq Range(t)
    BY <2>2, LenProperties DEF Range
  <2>4. e \in Range(t)
    BY <1>1, LenProperties DEF Range
  <2>5. Range(t) \subseteq Range(s) \cup {e}
    BY <2>1 DEF Range
  <2> HIDE DEF t
  <2> QED BY <2>3, <2>4, <2>5
<1> QED BY <1>1, <1>3, <1>4

\* The last element is taken off.
LEMMA Popped ==
    ASSUME NEW S, NEW s \in Seq(S), Distinct(s), s # <<>>
    PROVE  /\ Front(s) \in Seq(S)
           /\ Distinct(Front(s))
           /\ Range(Front(s)) = Range(s) \ {s[Len(s)]}
           /\ Len(Front(s)) = Len(s) - 1
<1>1. Len(s) \in Nat \ {0}
  OBVIOUS
<1>2. /\ Front(s) \in Seq(S) /\ Len(Front(s)) = Len(s) - 1
      /\ \A i \in 1 .. Len(s) - 1 : Front(s)[i] = s[i]
  <2> DEFINE f == SubSeq(s, 1, Len(s) - 1)
  <2>1. \A i \in 1 .. Len(s) - 1 : s[i] \in S
    BY <1>1, LenProperties
  <2>2. /\ f \in Seq(S) /\ Len(f) = IF 1 <= Len(s) - 1 THEN (Len(s) - 1) - 1 + 1 ELSE 0
        /\ \A i \in 1 .. (Len(s) - 1) - 1 + 1 : f[i] = s[1 + i - 1]
    BY <1>1, <2>1, SubSeqProperties
  <2>3. Front(s) = f
    BY DEF Front
  <2> HIDE DEF f
  <2> QED BY <1>1, <2>2, <2>3
<1> DEFINE f == Front(s)
<1>3. DOMAIN f = 1 .. Len(s) - 1 /\ DOMAIN s = 1 .. Len(s)
  BY <1>1, <1>2, LenProperties
<1> HIDE DEF f
<1>4. \A i \in 1 .. Len(s) - 1 : f[i] = s[i]
  BY <1>2 DEF f
<1>5. Distinct(f)
  BY <1>1, <1>2, <1>4 DEF Distinct, f
<1>6. Range(f) = Range(s) \ {s[Len(s)]}
  BY <1>1, <1>3, <1>4 DEF Distinct, Range
<1> QED BY <1>2, <1>5, <1>6 DEF f

\* Such a list is as long as the set of its elements is large.
LEMMA DistinctLength ==
    ASSUME NEW S, NEW s \in Seq(S), Distinct(s)
    PROVE  IsFiniteSet(Range(s)) /\ Cardinality(Range(s)) = Len(s)
<1>1. s \in Bijection(1 .. Len(s), Range(s))
  BY DEF Bijection, Injection, Surjection, IsInjective, Range, Distinct
<1>2. ExistsBijection(1 .. Len(s), Range(s)) /\ Len(s) \in Nat
  BY <1>1 DEF ExistsBijection
<1> QED BY <1>2, FS_CountingElements, FS_NatBijection

-----------------------------------------------------------------------------
(* The inductive invariant                                                 *)

\* The list, the elements and the open statements are those of the map c, and
\* no two queries share a statement.
Fits(c, lru, elements, os) ==
    /\ lru \in Seq(Queries) /\ Distinct(lru)
    /\ Len(lru) <= MaxPreparedStmts
    /\ Range(lru) = DOMAIN c
    /\ elements = DOMAIN c
    /\ os = {c[q] : q \in DOMAIN c}
    /\ \A q, r \in DOMAIN c : c[q] = c[r] => q = r

\* A call under way has a query; one that looks for its statement has none yet,
\* every other one has.
CallShape ==
    \A g \in Goroutines :
        /\ step[g] # "idle" => query[g] \in Queries
        /\ step[g] \in {"idle", "lock"} <=> held[g] = None
        /\ held[g] \in (1 .. prepared) \cup {None}

\* A statement in hand that is still open is the cached one of the query.
HeldIsCached ==
    \A g \in Goroutines :
        held[g] \in open =>
            query[g] \in DOMAIN stmtCache /\ stmtCache[query[g]] = held[g]

SInv ==
    /\ TypeOK
    /\ Fits(stmtCache, stmtLRU, stmtElements, open)
    /\ CallShape
    /\ HeldIsCached

-----------------------------------------------------------------------------
(* What the operations do to the cache                                     *)

\* A map that fits its list has as many queries as the list is long.
LEMMA FitsSize ==
    ASSUME NEW c, NEW lru, NEW elements, NEW os, Fits(c, lru, elements, os)
    PROVE  IsFiniteSet(DOMAIN c) /\ Cardinality(DOMAIN c) = Len(lru)
BY DistinctLength DEF Fits

\* The list is put in another order.
LEMMA FitsReordered ==
    ASSUME NEW c, NEW lru, NEW elements, NEW os, Fits(c, lru, elements, os),
           NEW q
    PROVE  Fits(c, IF q \in elements THEN <<q>> \o RemoveFirst(lru, q) ELSE lru,
                elements, os)
<1>1. CASE q \notin elements
  BY <1>1
<1>2. CASE q \in elements
  <2> DEFINE k == RemoveFirst(lru, q)
             n == <<q>> \o k
  <2>1. lru \in Seq(Queries) /\ Distinct(lru) /\ q \in Range(lru) /\ Len(lru) \in Nat
    BY <1>2, LenProperties DEF Fits
  <2>2. q \in Queries
    BY <2>1, LenProperties DEF Range
  <2>3. /\ k \in Seq(Queries) /\ Distinct(k) /\ Range(k) = Range(lru) \ {q}
        /\ Len(k) = Len(lru) - 1
    BY <2>1, Removed
  <2> HIDE DEF k
  <2>4. /\ n \in Seq(Queries) /\ Distinct(n) /\ Range(n) = Range(k) \cup {q}
        /\ Len(n) = Len(k) + 1
    BY <2>2, <2>3, Pushed
  <2> HIDE DEF n
  <2>5. Range(n) = Range(lru) /\ Len(n) = Len(lru)
    BY <2>1, <2>3, <2>4
  <2>6. Fits(c, n, elements, os)
    BY <2>4, <2>5 DEF Fits
  <2> QED BY <1>2, <2>6 DEF n, k
<1> QED BY <1>1, <1>2

\* A query leaves the map, the list and the elements, its statement is closed.
LEMMA FitsWithout ==
    ASSUME NEW c, NEW lru, NEW elements, NEW os, Fits(c, lru, elements, os),
           NEW q, NEW k \in Seq(Queries), Distinct(k),
           Range(k) = Range(lru) \ {q}, Len(k) <= Len(lru)
    PROVE  Fits(Restrict(c, DOMAIN c \ {q}), k, elements \ {q},
                os \ {c[r] : r \in {q} \cap DOMAIN c})
<1> DEFINE d == Restrict(c, DOMAIN c \ {q})
<1>1. DOMAIN d = DOMAIN c \ {q} /\ \A r \in DOMAIN d : d[r] = c[r]
  BY DEF Restrict
<1> HIDE DEF d
<1>2. Len(k) <= MaxPreparedStmts
  BY LenProperties DEF Fits
<1>3. os \ {c[r] : r \in {q} \cap DOMAIN c} = {d[r] : r \in DOMAIN d}
  BY <1>1 DEF Fits
<1>4. \A r, s \in DOMAIN d : d[r] = d[s] => r = s
  BY <1>1 DEF Fits
<1>5. Range(k) = DOMAIN d /\ elements \ {q} = DOMAIN d
  BY <1>1 DEF Fits
<1>6. Fits(d, k, elements \ {q}, os \ {c[r] : r \in {q} \cap DOMAIN c})
  BY <1>2, <1>3, <1>4, <1>5 DEF Fits
<1> QED BY <1>6 DEF d

\* A query that is not in the map enters it, with a statement of its own.
LEMMA FitsWith ==
    ASSUME NEW c, NEW lru, NEW elements, NEW os, Fits(c, lru, elements, os),
           Len(lru) < MaxPreparedStmts,
           NEW q \in Queries, q \notin DOMAIN c, NEW s, s \notin os
    PROVE  Fits([r \in DOMAIN c \cup {q} |-> IF r = q THEN s ELSE c[r]],
                <<q>> \o lru, elements \cup {q}, os \cup {s})
<1> DEFINE d == [r \in DOMAIN c \cup {q} |-> IF r = q THEN s ELSE c[r]]
           n == <<q>> \o lru
<1>1. DOMAIN d = DOMAIN c \cup {q} /\ d[q] = s /\ \A r \in DOMAIN c : d[r] = c[r]
  OBVIOUS
<1> HIDE DEF d
<1>2. /\ n \in Seq(Queries) /\ Distinct(n) /\ Range(n) = Range(lru) \cup {q}
      /\ Len(n) = Len(lru) + 1
  BY Pushed DEF Fits
<1> HIDE DEF n
<1>3. Len(n) <= MaxPreparedStmts
  BY <1>2, LenProperties DEF Fits
<1>4. os \cup {s} = {d[r] : r \in DOMAIN d}
  BY <1>1 DEF Fits
<1>5. \A r, u \in DOMAIN d : d[r] = d[u] => r = u
  BY <1>1 DEF Fits
<1>6. Range(n) = DOMAIN d /\ elements \cup {q} = DOMAIN d
  BY <1>1, <1>2 DEF Fits
<1>7. Fits(d, n, elements \cup {q}, os \cup {s})
  BY <1>2, <1>3, <1>4, <1>5, <1>6 DEF Fits
<1> QED BY <1>7 DEF d, n

\* Making room leaves a cache that fits and is not full.
LEMMA RoomMade ==
    ASSUME Fits(stmtCache, stmtLRU, stmtElements, open)
    PROVE  /\ Fits(Kept, KeptLRU, stmtElements \ Victims, open \ Closed(Victims))
           /\ Len(KeptLRU) < MaxPreparedStmts
           /\ DOMAIN Kept = DOMAIN stmtCache \ Victims
           /\ \A q \in DOMAIN Kept : Kept[q] = stmtCache[q]
           /\ Victims # {} => Cardinality(DOMAIN stmtCache) = MaxPreparedStmts
<1>1. /\ DOMAIN Kept = DOMAIN stmtCache \ Victims
      /\ \A q \in DOMAIN Kept : Kept[q] = stmtCache[q]
  BY DEF Kept, Restrict
<1>2. /\ Cardinality(DOMAIN stmtCache) = Len(stmtLRU) /\ Len(stmtLRU) \in Nat
      /\ Len(stmtLRU) <= MaxPreparedStmts
      /\ stmtLRU \in Seq(Queries) /\ Distinct(stmtLRU)
  BY FitsSize, LenProperties DEF Fits
<1>3. CASE Victims = {}
  <2>1. KeptLRU = stmtLRU
    BY <1>3 DEF KeptLRU
  <2>2. Len(stmtLRU) < MaxPreparedStmts
    BY <1>2, <1>3 DEF Victims
  <2>3. DOMAIN Kept = DOMAIN stmtCache /\ Closed(Victims) = {}
    BY <1>1, <1>3 DEF Closed
  <2>4. /\ open \ Closed(Victims) = open /\ stmtElements \ Victims = stmtElements
        /\ {Kept[q] : q \in DOMAIN Kept} = {stmtCache[q] : q \in DOMAIN stmtCache}
    BY <1>1, <1>3, <2>3
  <2>5. Fits(Kept, stmtLRU, stmtElements, open)
    BY <1>1, <2>3, <2>4 DEF Fits
  <2> QED BY <1>1, <1>3, <2>1, <2>2, <2>4, <2>5
<1>4. CASE Victims # {}
  <2> DEFINE v == stmtLRU[Len(stmtLRU)]
  <2>1. /\ Victims = {v} /\ stmtLRU # <<>>
        /\ Cardinality(DOMAIN stmtCache) >= MaxPreparedStmts
    BY <1>4 DEF Victims
  <2>2. KeptLRU = Front(stmtLRU)
    BY <1>4 DEF KeptLRU
  <2>3. /\ Front(stmtLRU) \in Seq(Queries) /\ Distinct(Front(stmtLRU))
        /\ Range(Front(stmtLRU)) = Range(stmtLRU) \ {v}
        /\ Len(Front(stmtLRU)) = Len(stmtLRU) - 1
    BY <1>2, <2>1, Popped
  <2> HIDE DEF v
  <2>4. Fits(Restrict(stmtCache, DOMAIN stmtCache \ {v}), Front(stmtLRU),
             stmtElements \ {v}, open \ {stmtCache[r] : r \in {v} \cap DOMAIN stmtCache})
    <3> DEFINE k == Front(stmtLRU)
    <3>1. /\ k \in Seq(Queries) /\ Distinct(k) /\ Range(k) = Range(stmtLRU) \ {v}
          /\ Len(k) <= Len(stmtLRU)
      BY <1>2, <2>3
    <3> HIDE DEF k
    <3>2. Fits(Restrict(stmtCache, DOMAIN stmtCache \ {v}), k, stmtElements \ {v},
               open \ {stmtCache[r] : r \in {v} \cap DOMAIN stmtCache})
      BY <3>1, FitsWithout
    <3> QED BY <3>2 DEF k
  <2>5. Fits(Kept, KeptLRU, stmtElements \ Victims, open \ Closed(Victims))
    BY <2>1, <2>2, <2>4 DEF Kept, Closed
  <2> QED BY <1>1, <1>2, <2>1, <2>2, <2>3, <2>5
<1> QED BY <1>3, <1>4

-----------------------------------------------------------------------------
(* The invariant is inductive                                              *)

\* Type correctness follows from the parts that are about the code.
LEMMA FitsTypes ==
    ASSUME NEW c, NEW lru, NEW elements, NEW os, Fits(c, lru, elements, os)
    PROVE  /\ DOMAIN c \subseteq Queries
           /\ elements \subseteq Queries
           /\ \A n \in DOMAIN lru : lru[n] \in Queries
           /\ \A q \in DOMAIN c : c[q] \in os
BY LenProperties DEF Fits, Range

LEMMA NoneIsNotOpen ==
    ASSUME TypeOK
    PROVE  None \notin open
<1>1. 1 .. prepared \subseteq 1 .. MaxPrepares
  BY DEF TypeOK
<1> QED BY <1>1 DEF TypeOK

LEMMA SInit == Init => SInv
<1> SUFFICES ASSUME Init PROVE SInv
  OBVIOUS
<1> USE DEF Init
<1>1. Fits(stmtCache, stmtLRU, stmtElements, open)
  BY EmptySeq DEF Fits, Distinct, Range
<1>2. TypeOK
  BY DEF TypeOK, Steps, Stmts
<1> QED BY <1>1, <1>2 DEF SInv, CallShape, HeldIsCached

\* The steps of a call that leave the cache alone.
LEMMA LookupStep ==
    ASSUME SInv, NEW g \in Goroutines, NEW m \in {"QueryRow", "Query"},
           NEW q \in Queries, Lookup(g, m, q)
    PROVE  SInv'
<1> USE DEF SInv, Lookup, cacheVars
<1>1. TypeOK'
  BY DEF TypeOK, Steps, Stmts
<1>2. Fits(stmtCache, stmtLRU, stmtElements, open)'
  BY DEF Fits
<1>3. \A r \in DOMAIN stmtCache : stmtCache[r] \in 1 .. prepared /\ stmtCache[r] # None
  <2>1. \A r \in DOMAIN stmtCache : stmtCache[r] \in open
    BY FitsTypes
  <2> QED BY <2>1, NoneIsNotOpen DEF TypeOK
<1>4. CallShape'
  <2> SUFFICES ASSUME NEW h \in Goroutines
               PROVE  /\ step'[h] # "idle" => query'[h] \in Queries
                      /\ step'[h] \in {"idle", "lock"} <=> held'[h] = None
                      /\ held'[h] \in (1 .. prepared') \cup {None}
    BY DEF CallShape
  <2>1. CASE h # g
    BY <2>1 DEF CallShape, TypeOK
  <2>2. CASE h = g
    BY <1>3, <2>2 DEF CallShape, TypeOK
  <2> QED BY <2>1, <2>2
<1>5. HeldIsCached'
  BY DEF HeldIsCached, CallShape, TypeOK, Steps, Stmts
<1> QED BY <1>1, <1>2, <1>4, <1>5

LEMMA UseStep ==
    ASSUME SInv, NEW g \in Goroutines, Use(g) \/ UseInvalid(g)
    PROVE  SInv'
<1> USE DEF SInv, Use, UseInvalid, Return, cacheVars
<1>1. TypeOK'
  BY DEF TypeOK, Steps, Stmts
<1>2. Fits(stmtCache, stmtLRU, stmtElements, open)'
  BY DEF Fits
<1>3. CallShape'
  BY DEF CallShape, TypeOK, Steps
<1>4. HeldIsCached'
  BY NoneIsNotOpen DEF HeldIsCached, TypeOK
<1> QED BY <1>1, <1>2, <1>3, <1>4

\* The steps that put the query of a call at the front of the list.
LEMMA TouchStep ==
    ASSUME SInv, NEW g \in Goroutines, Touch(g) \/ FoundAgain(g)
    PROVE  SInv'
<1> USE DEF SInv
<1>1. /\ stmtLRU' = Touched(query[g])
      /\ UNCHANGED <<stmtCache, stmtElements, prepared, open, invalid, closing, method, query>>
      /\ step[g] \in {"touch", "lock"} /\ step' = [step EXCEPT ![g] = "use"]
      /\ \/ step[g] = "touch" /\ held' = held
         \/ /\ query[g] \in DOMAIN stmtCache
            /\ held' = [held EXCEPT ![g] = stmtCache[query[g]]]
  BY DEF Touch, FoundAgain
<1>2. Fits(stmtCache, stmtLRU', stmtElements, open)
  BY <1>1, FitsReordered DEF Touched
<1>3. Fits(stmtCache, stmtLRU, stmtElements, open)'
  BY <1>1, <1>2 DEF Fits
<1>4. /\ \A n \in DOMAIN stmtLRU' : stmtLRU'[n] \in Queries
      /\ \A r \in DOMAIN stmtCache : stmtCache[r] \in open
  BY <1>2, FitsTypes
<1>5. TypeOK'
  BY <1>1, <1>4 DEF TypeOK, Steps, Stmts
<1>6. CallShape'
  <2>1. \A r \in DOMAIN stmtCache : stmtCache[r] \in 1 .. prepared /\ stmtCache[r] # None
    BY <1>4, NoneIsNotOpen DEF TypeOK
  <2> SUFFICES ASSUME NEW h \in Goroutines
               PROVE  /\ step'[h] # "idle" => query'[h] \in Queries
                      /\ step'[h] \in {"idle", "lock"} <=> held'[h] = None
                      /\ held'[h] \in (1 .. prepared') \cup {None}
    BY DEF CallShape
  <2>2. CASE h # g
    BY <1>1, <2>2 DEF CallShape, TypeOK
  <2>3. CASE h = g
    BY <1>1, <2>1, <2>3 DEF CallShape, TypeOK
  <2> QED BY <2>2, <2>3
<1>7. HeldIsCached'
  BY <1>1 DEF HeldIsCached, TypeOK
<1> QED BY <1>3, <1>5, <1>6, <1>7

LEMMA PrepareStep ==
    ASSUME SInv, NEW g \in Goroutines, Prepare(g)
    PROVE  SInv'
<1> USE DEF SInv
<1>1. /\ Fits(Kept, KeptLRU, stmtElements \ Victims, open \ Closed(Victims))
      /\ Len(KeptLRU) < MaxPreparedStmts
      /\ DOMAIN Kept = DOMAIN stmtCache \ Victims
      /\ \A q \in DOMAIN Kept : Kept[q] = stmtCache[q]
  BY RoomMade
<1>2. /\ query[g] \in Queries /\ query[g] \notin DOMAIN Kept
      /\ prepared + 1 \notin open
  BY <1>1 DEF Prepare, CallShape, TypeOK
<1>3. Fits(stmtCache', stmtLRU', stmtElements', open')
  BY <1>1, <1>2, FitsWith DEF Prepare
<1>4. Fits(stmtCache, stmtLRU, stmtElements, open)'
  BY <1>3 DEF Fits
<1>5. /\ DOMAIN stmtCache' \subseteq Queries /\ stmtElements' \subseteq Queries
      /\ \A n \in DOMAIN stmtLRU' : stmtLRU'[n] \in Queries
      /\ \A q \in DOMAIN stmtCache' : stmtCache'[q] \in open'
  BY <1>3, FitsTypes
<1>6. /\ prepared' = prepared + 1 /\ prepared' \in 0 .. MaxPrepares
      /\ open' \subseteq 1 .. prepared' /\ invalid' \subseteq open'
  <2>1. prepared' = prepared + 1 /\ prepared' \in 0 .. MaxPrepares
    BY DEF Prepare, TypeOK
  <2>2. open' \subseteq open \cup {prepared + 1} /\ open \subseteq 1 .. prepared
    BY DEF Prepare, TypeOK
  <2>3. \A s \in (1 .. prepared) \cup {prepared + 1} : s \in 1 .. prepared'
    BY <2>1 DEF TypeOK
  <2>4. invalid' \subseteq open'
    BY DEF Prepare, TypeOK
  <2> QED BY <2>1, <2>2, <2>3, <2>4
<1>7. TypeOK'
  <2>1. open' \subseteq Stmts /\ prepared + 1 \in Stmts
    BY <1>6 DEF Stmts, TypeOK
  <2>2. step' \in [Goroutines -> Steps] /\ held' \in [Goroutines -> Stmts \cup {None}]
    BY <2>1 DEF TypeOK, Prepare, Steps
  <2> QED BY <1>5, <1>6, <2>1, <2>2 DEF TypeOK, Prepare
<1>8. CallShape'
  BY <1>2, <1>6 DEF Prepare, CallShape, TypeOK, Steps
<1>9. HeldIsCached'
  <2> SUFFICES ASSUME NEW h \in Goroutines, held'[h] \in open'
               PROVE  query'[h] \in DOMAIN stmtCache' /\ stmtCache'[query'[h]] = held'[h]
    BY DEF HeldIsCached
  <2>1. CASE h = g
    BY <2>1 DEF Prepare, TypeOK
  <2>2. CASE h # g
    <3>1. held'[h] = held[h] /\ query'[h] = query[h] /\ held[h] # prepared + 1
      BY <2>2 DEF Prepare, CallShape, TypeOK
    <3>2. held[h] \in open \ Closed(Victims)
      BY <3>1 DEF Prepare
    <3>3. query[h] \in DOMAIN stmtCache /\ stmtCache[query[h]] = held[h]
      BY <3>2 DEF HeldIsCached
    <3>4. query[h] \in DOMAIN Kept /\ query[h] # query[g]
      BY <1>1, <3>2, <3>3 DEF Closed, Prepare
    <3> QED BY <1>1, <3>1, <3>3, <3>4 DEF Prepare
  <2> QED BY <2>1, <2>2
<1> QED BY <1>4, <1>7, <1>8, <1>9

\* A call ends and the statements of some queries are closed and forgotten.
LEMMA ForgetStep ==
    ASSUME SInv, NEW g \in Goroutines, Return(g), UNCHANGED <<prepared, closing>>,
           NEW qs,
           open' = open \ Closed(qs), invalid' = invalid \ Closed(qs),
           DOMAIN stmtCache' = DOMAIN stmtCache \ qs,
           \A q \in DOMAIN stmtCache' : stmtCache'[q] = stmtCache[q],
           Fits(stmtCache', stmtLRU', stmtElements', open')
    PROVE  SInv'
<1> USE DEF SInv
<1>1. Fits(stmtCache, stmtLRU, stmtElements, open)'
  BY DEF Fits
<1>2. /\ DOMAIN stmtCache' \subseteq Queries /\ stmtElements' \subseteq Queries
      /\ \A n \in DOMAIN stmtLRU' : stmtLRU'[n] \in Queries
      /\ \A q \in DOMAIN stmtCache' : stmtCache'[q] \in open'
  BY FitsTypes
<1>3. TypeOK'
  BY <1>2 DEF TypeOK, Return, Steps, Stmts
<1>4. CallShape'
  BY DEF CallShape, TypeOK, Return, Steps
<1>5. HeldIsCached'
  <2> SUFFICES ASSUME NEW h \in Goroutines, held'[h] \in open'
               PROVE  query'[h] \in DOMAIN stmtCache' /\ stmtCache'[query'[h]] = held'[h]
    BY DEF HeldIsCached
  <2>1. h # g
    BY NoneIsNotOpen DEF Return, TypeOK
  <2>2. held'[h] = held[h] /\ query'[h] = query[h]
    BY <2>1 DEF Return, TypeOK
  <2>3. query[h] \in DOMAIN stmtCache /\ stmtCache[query[h]] = held[h]
    BY <2>2 DEF HeldIsCached
  <2>4. query[h] \notin qs
    BY <2>2, <2>3 DEF Closed
  <2> QED BY <2>2, <2>3, <2>4
<1> QED BY <1>1, <1>3, <1>4, <1>5

LEMMA PrepareFailsStep ==
    ASSUME SInv, NEW g \in Goroutines, PrepareFails(g)
    PROVE  SInv'
<1>1. /\ Fits(Kept, KeptLRU, stmtElements \ Victims, open \ Closed(Victims))
      /\ DOMAIN Kept = DOMAIN stmtCache \ Victims
      /\ \A q \in DOMAIN Kept : Kept[q] = stmtCache[q]
  BY RoomMade DEF SInv
<1> QED BY <1>1, ForgetStep DEF PrepareFails

LEMMA RemoveStep ==
    ASSUME SInv, NEW g \in Goroutines, RemoveInvalidStmt(g)
    PROVE  SInv'
<1> DEFINE q == query[g]
           k == RemoveFirst(stmtLRU, q)
<1>1. stmtLRU \in Seq(Queries) /\ Distinct(stmtLRU) /\ Len(stmtLRU) \in Nat
  BY LenProperties DEF SInv, Fits
<1>2. /\ k \in Seq(Queries) /\ Distinct(k) /\ Range(k) = Range(stmtLRU) \ {q}
      /\ Len(k) <= Len(stmtLRU)
  <2>1. /\ k \in Seq(Queries) /\ Distinct(k) /\ Range(k) = Range(stmtLRU) \ {q}
        /\ Len(k) = IF q \in Range(stmtLRU) THEN Len(stmtLRU) - 1 ELSE Len(stmtLRU)
    BY <1>1, Removed
  <2> HIDE DEF k, q
  <2> QED BY <1>1, <2>1
<1> HIDE DEF k
<1>3. Fits(Restrict(stmtCache, DOMAIN stmtCache \ {q}), k, stmtElements \ {q},
           open \ {stmtCache[r] : r \in {q} \cap DOMAIN stmtCache})
  BY <1>2, FitsWithout DEF SInv
<1>4. /\ stmtCache' = Restrict(stmtCache, DOMAIN stmtCache \ {q})
      /\ stmtLRU' = k /\ stmtElements' = stmtElements \ {q}
      /\ open' = open \ Closed({q}) /\ invalid' = invalid \ Closed({q})
      /\ Return(g) /\ UNCHANGED <<prepared, closing>>
  BY DEF RemoveInvalidStmt, Dropped, k
<1>5. Fits(stmtCache', stmtLRU', stmtElements', open')
  BY <1>3, <1>4 DEF Closed
<1>6. /\ DOMAIN stmtCache' = DOMAIN stmtCache \ {q}
      /\ \A r \in DOMAIN stmtCache' : stmtCache'[r] = stmtCache[r]
  BY <1>4 DEF Restrict
<1> QED BY <1>4, <1>5, <1>6, ForgetStep

\* The steps of the server and of Close.
LEMMA EnvStep ==
    ASSUME SInv, (\E s \in Stmts : ServerForgets(s)) \/ CloseStmts \/ CloseDB
    PROVE  SInv'
<1> USE DEF SInv
<1>1. CASE (\E s \in Stmts : ServerForgets(s)) \/ CloseDB
  <2> USE <1>1 DEF ServerForgets, CloseDB, cacheVars, callVars
  <2>1. TypeOK'
    BY DEF TypeOK
  <2>2. Fits(stmtCache, stmtLRU, stmtElements, open)'
    BY DEF Fits
  <2>3. CallShape' /\ HeldIsCached'
    BY DEF CallShape, HeldIsCached
  <2> QED BY <2>1, <2>2, <2>3
<1>2. CASE CloseStmts
  <2> USE <1>2 DEF CloseStmts, callVars
  <2>1. open' = {}
    BY FitsTypes DEF Fits, Closed
  <2>2. Fits(stmtCache, stmtLRU, stmtElements, open)'
    BY <2>1, EmptySeq DEF Fits, Distinct, Range
  <2>3. invalid' = {}
    BY <2>1 DEF TypeOK
  <2>4. TypeOK'
    <3>1. DOMAIN stmtCache' = {} /\ DOMAIN stmtLRU' = {}
      OBVIOUS
    <3> QED BY <2>1, <2>3, <3>1 DEF TypeOK
  <2>5. CallShape' /\ HeldIsCached'
    BY <2>1 DEF CallShape, HeldIsCached
  <2> QED BY <2>2, <2>4, <2>5
<1> QED BY <1>1, <1>2

LEMMA SStep == SInv /\ [Next]_vars => SInv'
<1> SUFFICES ASSUME SInv, [Next]_vars PROVE SInv'
  OBVIOUS
<1>1. ASSUME NEW g \in Goroutines, CallStep(g) PROVE SInv'
  BY <1>1, TouchStep, PrepareStep, PrepareFailsStep, UseStep, RemoveStep DEF CallStep
<1>2. CASE UNCHANGED vars
  BY <1>2 DEF vars, SInv, TypeOK, Fits, CallShape, HeldIsCached
<1> QED BY <1>1, <1>2, LookupStep, EnvStep DEF Next

LEMMA StmtInvariant == Spec => []SInv
BY SInit, SStep, PTL DEF Spec

-----------------------------------------------------------------------------
(* The theorems                                                            *)

LEMMA SInvInStep == SInv => CachesInStep
BY FitsSize DEF SInv, Fits, CachesInStep, Range

\* The prepared-statement cache is well typed.
THEOREM StmtTypes == Spec => []TypeOK
BY StmtInvariant, PTL DEF SInv

\* The map, the list and the elements of the cache hold the same queries, at
\* most maxPreparedStmts of them, and the statements open on the server are
\* exactly theirs, whatever PreparedStmt, removeInvalidStmt and Close do in
\* whatever order.
THEOREM StmtCachesStayInStep == Spec => []CachesInStep
BY StmtInvariant, SInvInStep, PTL

\* A statement in a call's hands is closed only by Close, by a call of its own
\* query that was told it is invalid, or by another call that has to make room
\* in a full cache.
THEOREM StatementsAreClosedForRoom == Spec => ClosedOnlyForRoom
<1> DEFINE Allowed(g) ==
              \/ closing' = "stmts" /\ closing = "no"
              \/ \E h \in Goroutines :
                    step[h] = "remove" /\ step'[h] = "idle" /\ query[h] = query[g]
              \/ \E h \in Goroutines \ {g} :
                    /\ step[h] = "lock" /\ step'[h] # "lock"
                    /\ query[h] \notin DOMAIN stmtCache
                    /\ Cardinality(DOMAIN stmtCache) = MaxPreparedStmts
           Step == \A g \in Goroutines : held[g] \in open \ open' => Allowed(g)
<1>1. SInv /\ [Next]_vars => [Step]_vars
  <2> SUFFICES ASSUME SInv, Next, NEW g \in Goroutines, held[g] \in open, held[g] \notin open'
               PROVE  Allowed(g)
    OBVIOUS
  <2>1. query[g] \in DOMAIN stmtCache /\ stmtCache[query[g]] = held[g]
    BY DEF SInv, HeldIsCached
  <2>2. ASSUME NEW h \in Goroutines, Prepare(h) \/ PrepareFails(h) PROVE Allowed(g)
    <3>1. /\ step[h] = "lock" /\ query[h] \notin DOMAIN stmtCache
          /\ step'[h] # "lock"
      BY <2>2 DEF Prepare, PrepareFails, Return, SInv, TypeOK
    <3>2. Victims # {}
      BY <2>2 DEF Prepare, PrepareFails, Closed
    <3>3. Cardinality(DOMAIN stmtCache) = MaxPreparedStmts
      BY <3>2, RoomMade DEF SInv
    <3>4. h # g
      BY <3>1, NoneIsNotOpen DEF SInv, CallShape
    <3> QED BY <3>1, <3>3, <3>4
  <2>3. ASSUME NEW h \in Goroutines, RemoveInvalidStmt(h) PROVE Allowed(g)
    <3>1. step[h] = "remove" /\ step'[h] = "idle"
      BY <2>3 DEF RemoveInvalidStmt, Return, SInv, TypeOK
    <3>2. held[g] \in Closed({query[h]})
      BY <2>3 DEF RemoveInvalidStmt
    <3>3. query[h] \in DOMAIN stmtCache /\ stmtCache[query[h]] = held[g]
      BY <3>2 DEF Closed
    <3>4. query[h] = query[g]
      BY <2>1, <3>3 DEF SInv, Fits
    <3> QED BY <3>1, <3>4
  <2>4. CASE CloseStmts
    BY <2>4 DEF CloseStmts
  <2>5. ASSUME open' = open PROVE FALSE
    BY <2>5
  <2>6. ASSUME NEW h \in Goroutines, CallStep(h) PROVE Allowed(g)
    <3>1. Touch(h) \/ FoundAgain(h) \/ Use(h) \/ UseInvalid(h) => open' = open
      BY DEF Touch, FoundAgain, Use, UseInvalid
    <3> HIDE DEF Allowed
    <3> QED BY <2>2, <2>3, <2>5, <2>6, <3>1 DEF CallStep
  <2>7. CloseDB \/ (\E s \in Stmts : ServerForgets(s)) => open' = open
    BY DEF CloseDB, ServerForgets
  <2>8. ASSUME NEW h \in Goroutines, NEW m \in {"QueryRow", "Query"}, NEW q \in Queries,
               Lookup(h, m, q)
        PROVE  open' = open
    BY <2>8 DEF Lookup
  <2> HIDE DEF Allowed
  <2> QED BY <2>4, <2>5, <2>6, <2>7, <2>8 DEF Next
<1> QED BY <1>1, StmtInvariant, PTL DEF Spec, ClosedOnlyForRoom

\* A query's cached statement is never older than the one a call of that
\* query has in hand.
HeldIsOlder ==
    \A g \in Goroutines :
        held[g] # None /\ query[g] \in DOMAIN stmtCache => stmtCache[query[g]] >= held[g]

\* It stays so: what is put into the cache is younger than anything in hand.
LEMMA OlderStep ==
    ASSUME SInv, HeldIsOlder, [Next]_vars
    PROVE  HeldIsOlder'
<1> USE DEF HeldIsOlder, SInv
<1>1. \A q \in DOMAIN stmtCache : stmtCache[q] \in Nat
  BY DEF TypeOK, Stmts
<1>2. ASSUME NEW h \in Goroutines, NEW m \in {"QueryRow", "Query"}, NEW q \in Queries,
             Lookup(h, m, q)
      PROVE  HeldIsOlder'
  BY <1>1, <1>2 DEF Lookup, cacheVars, CallShape, TypeOK
<1>3. ASSUME NEW h \in Goroutines, Touch(h) \/ FoundAgain(h) PROVE HeldIsOlder'
  BY <1>1, <1>3 DEF Touch, FoundAgain, TypeOK
<1>4. ASSUME NEW h \in Goroutines, Prepare(h) PROVE HeldIsOlder'
  <2> SUFFICES ASSUME NEW g \in Goroutines, held'[g] # None,
                      query'[g] \in DOMAIN stmtCache'
               PROVE  stmtCache'[query'[g]] >= held'[g]
    OBVIOUS
  <2>1. /\ DOMAIN Kept = DOMAIN stmtCache \ Victims
        /\ \A q \in DOMAIN Kept : Kept[q] = stmtCache[q]
    BY RoomMade
  <2>2. /\ query'[g] = query[g] /\ prepared \in Nat
        /\ held'[g] = IF g = h THEN prepared + 1 ELSE held[g]
        /\ held[g] # None => held[g] \in 1 .. prepared
    BY <1>4 DEF Prepare, TypeOK, CallShape
  <2>3. CASE query[g] = query[h]
    <3>1. stmtCache'[query[g]] = prepared + 1
      BY <1>4, <2>2, <2>3 DEF Prepare
    <3> QED BY <2>2, <3>1
  <2>4. CASE query[g] # query[h]
    <3>1. g # h /\ query[g] \in DOMAIN Kept /\ stmtCache'[query[g]] = Kept[query[g]]
      BY <1>4, <2>2, <2>4 DEF Prepare
    <3> QED BY <2>1, <2>2, <3>1
  <2> QED BY <2>3, <2>4
<1>5. ASSUME NEW h \in Goroutines, Return(h),
             DOMAIN stmtCache' \subseteq DOMAIN stmtCache,
             \A q \in DOMAIN stmtCache' : stmtCache'[q] = stmtCache[q]
      PROVE  HeldIsOlder'
  BY <1>5 DEF Return, TypeOK
<1>6. ASSUME NEW h \in Goroutines, PrepareFails(h) PROVE HeldIsOlder'
  BY <1>5, <1>6, RoomMade DEF PrepareFails
<1>7. ASSUME NEW h \in Goroutines, RemoveInvalidStmt(h) PROVE HeldIsOlder'
  BY <1>5, <1>7 DEF RemoveInvalidStmt, Dropped, Restrict
<1>8. ASSUME NEW h \in Goroutines, Use(h) PROVE HeldIsOlder'
  BY <1>5, <1>8 DEF Use, cacheVars
<1>9. ASSUME NEW h \in Goroutines, UseInvalid(h) PROVE HeldIsOlder'
  BY <1>9 DEF UseInvalid, cacheVars
<1>10. CASE (\E s \in Stmts : ServerForgets(s)) \/ CloseDB \/ UNCHANGED vars
  BY <1>10 DEF ServerForgets, CloseDB, vars, cacheVars, callVars
<1>11. CASE CloseStmts
  BY <1>11 DEF CloseStmts, callVars
<1> QED
  BY <1>2, <1>3, <1>4, <1>6, <1>7, <1>8, <1>9, <1>10, <1>11 DEF Next, CallStep

\* A Query or Exec that was told its statement is invalid leaves it closed, and
\* closes another one in its place only if that was prepared later, the invalid
\* one having been closed by somebody else between the answer and the lock.
THEOREM RemovalAlwaysSettles == Spec => RemovalSettles
<1> DEFINE Settled(g) == /\ held[g] \notin open'
                         /\ \A s \in open \ open' :
                               s = held[g] \/ (held[g] \notin open /\ s > held[g])
           Step == \A g \in Goroutines :
                      step[g] = "remove" /\ step'[g] = "idle" => Settled(g)
<1>1. Spec => []HeldIsOlder
  <2>1. Init => HeldIsOlder
    BY DEF Init, HeldIsOlder
  <2>2. SInv /\ HeldIsOlder /\ [Next]_vars => HeldIsOlder'
    BY OlderStep
  <2> QED BY <2>1, <2>2, StmtInvariant, PTL DEF Spec
<1>2. SInv /\ HeldIsOlder /\ [Next]_vars => [Step]_vars
  <2> SUFFICES ASSUME SInv, HeldIsOlder, Next, NEW g \in Goroutines,
                      step[g] = "remove", step'[g] = "idle"
               PROVE  Settled(g)
    OBVIOUS
  <2>1. RemoveInvalidStmt(g)
    <3>1. ASSUME NEW h \in Goroutines, CallStep(h) PROVE h = g
      BY <3>1 DEF CallStep, Touch, FoundAgain, Prepare, PrepareFails, Use, UseInvalid,
         RemoveInvalidStmt, Return, SInv, TypeOK
    <3>2. ~CloseStmts /\ ~CloseDB /\ \A s \in Stmts : ~ServerForgets(s)
      BY DEF CloseStmts, CloseDB, ServerForgets, callVars
    <3>3. ASSUME NEW h \in Goroutines, NEW m \in {"QueryRow", "Query"},
                 NEW q \in Queries, Lookup(h, m, q)
          PROVE  FALSE
      BY <3>3 DEF Lookup, SInv, TypeOK
    <3>4. CallStep(g)
      BY <3>1, <3>2, <3>3 DEF Next
    <3> QED BY <3>4 DEF CallStep, Touch, FoundAgain, Prepare, PrepareFails, Use, UseInvalid
  <2>2. open' = open \ Closed({query[g]})
    BY <2>1 DEF RemoveInvalidStmt
  <2>3. held[g] \in 1 .. prepared /\ prepared \in Nat
    BY DEF SInv, CallShape, TypeOK
  <2>4. held[g] \in open => held[g] \in Closed({query[g]})
    BY DEF SInv, HeldIsCached, Closed
  <2>5. ASSUME NEW s \in Closed({query[g]})
        PROVE  s = held[g] \/ (held[g] \notin open /\ s > held[g])
    <3>1. query[g] \in DOMAIN stmtCache /\ s = stmtCache[query[g]]
      BY <2>5 DEF Closed
    <3>2. s \in Nat /\ s >= held[g]
      BY <2>3, <3>1, NoneAssumption DEF HeldIsOlder, SInv, TypeOK, Stmts
    <3>3. held[g] \in open => s = held[g]
      BY <3>1 DEF SInv, HeldIsCached
    <3> QED BY <2>3, <3>2, <3>3
  <2> QED BY <2>2, <2>4, <2>5
<1> QED BY <1>1, <1>2, StmtInvariant, PTL DEF Spec, RemovalSettles
=============================================================================
