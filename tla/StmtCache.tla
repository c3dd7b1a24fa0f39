------------------------------ MODULE StmtCache ------------------------------
(***************************************************************************)
(* The prepared-statement cache of the Postgres enrichment client          *)
(* (internal/enrichment/postgres/client.go).  QueryRow, Query and Exec get *)
(* a statement from PreparedStmt, which looks it up under the read lock    *)
(* and takes the write lock afterwards, to mark it as used or to prepare   *)
(* and cache it; they use it without any lock, and Query and Exec remove   *)
(* the statement of their query when the server calls it invalid.          *)
(***************************************************************************)
EXTENDS Integers, FiniteSets, SequencesExt

CONSTANTS Goroutines, Queries,
          MaxPreparedStmts,   \* maxPreparedStmts
          MaxPrepares,        \* bound on the statements ever prepared
          None

ASSUME StmtAssumption == MaxPreparedStmts \in Nat \ {0} /\ MaxPrepares \in Nat
ASSUME NoneAssumption == None \notin 1 .. MaxPrepares

VARIABLES
    stmtCache,      \* cached statements, by query
    stmtLRU,        \* queries, most recently used first
    stmtElements,   \* queries that have an element in stmtLRU
    prepared,       \* number of statements prepared so far
    open,           \* statements not closed
    invalid,        \* open ones the server does not know any more
    closing,        \* how far Close is
    step,           \* step[g]: where goroutine g is
    method,         \* method[g]: the call it is in
    query,          \* query[g]: its query
    held            \* held[g]: the statement it has in hand

cacheVars == <<stmtCache, stmtLRU, stmtElements>>
callVars == <<step, method, query, held>>
vars == <<stmtCache, stmtLRU, stmtElements, prepared, open, invalid, closing,
          step, method, query, held>>

Stmts == 1 .. MaxPrepares

(* touch    found under the read lock; the write lock is next              *)
(* lock     not found; the write lock is next                              *)
(* use      has its statement                                              *)
(* remove   the server called it invalid                                   *)
Steps == {"idle", "touch", "lock", "use", "remove"}

TypeOK ==
    /\ DOMAIN stmtCache \subseteq Queries
    /\ \A q \in DOMAIN stmtCache : stmtCache[q] \in Stmts
    /\ \A n \in DOMAIN stmtLRU : stmtLRU[n] \in Queries
    /\ stmtElements \subseteq Queries
    /\ prepared \in 0 .. MaxPrepares
    /\ open \subseteq 1 .. prepared
    /\ invalid \subseteq open
    /\ closing \in {"no", "stmts", "db"}
    /\ step \in [Goroutines -> Steps]
    /\ method \in [Goroutines -> {"QueryRow", "Query"}]
    /\ query \in [Goroutines -> Queries \cup {None}]
    /\ held \in [Goroutines -> Stmts \cup {None}]

Init ==
    /\ stmtCache = <<>>
    /\ stmtLRU = <<>>
    /\ stmtElements = {}
    /\ prepared = 0
    /\ open = {}
    /\ invalid = {}
    /\ closing = "no"
    /\ step = [g \in Goroutines |-> "idle"]
    /\ method = [g \in Goroutines |-> "Query"]
    /\ query = [g \in Goroutines |-> None]
    /\ held = [g \in Goroutines |-> None]

Dropped(q) == Restrict(stmtCache, DOMAIN stmtCache \ {q})

\* The call of g is over.
Return(g) ==
    /\ step' = [step EXCEPT ![g] = "idle"]
    /\ method' = [method EXCEPT ![g] = "Query"]
    /\ query' = [query EXCEPT ![g] = None]
    /\ held' = [held EXCEPT ![g] = None]

\* The list with q at its front, if it is in it.
Touched(q) == IF q \in stmtElements THEN <<q>> \o RemoveFirst(stmtLRU, q) ELSE stmtLRU

-----------------------------------------------------------------------------
(* PreparedStmt                                                            *)

\* The lookup under the read lock.  Query stands for Exec too.
Lookup(g, m, q) ==
    /\ step[g] = "idle"
    /\ method' = [method EXCEPT ![g] = m]
    /\ query' = [query EXCEPT ![g] = q]
    /\ IF q \in DOMAIN stmtCache
       THEN /\ step' = [step EXCEPT ![g] = "touch"]
            /\ held' = [held EXCEPT ![g] = stmtCache[q]]
       ELSE step' = [step EXCEPT ![g] = "lock"] /\ UNCHANGED held
    /\ UNCHANGED <<cacheVars, prepared, open, invalid, closing>>

\* The statement found is returned, whatever has become of it.
Touch(g) ==
    /\ step[g] = "touch"
    /\ stmtLRU' = Touched(query[g])
    /\ step' = [step EXCEPT ![g] = "use"]
    /\ UNCHANGED <<stmtCache, stmtElements, prepared, open, invalid, closing,
                   method, query, held>>

\* Under the write lock: somebody else was faster.
FoundAgain(g) ==
    /\ step[g] = "lock"
    /\ query[g] \in DOMAIN stmtCache
    /\ stmtLRU' = Touched(query[g])
    /\ held' = [held EXCEPT ![g] = stmtCache[query[g]]]
    /\ step' = [step EXCEPT ![g] = "use"]
    /\ UNCHANGED <<stmtCache, stmtElements, prepared, open, invalid, closing,
                   method, query>>

\* Fault in Victims: room is made one statement too early.
VictimsTooEarly ==
    IF Cardinality(DOMAIN stmtCache) + 1 >= MaxPreparedStmts /\ stmtLRU # <<>>
    THEN {stmtLRU[Len(stmtLRU)]}
    ELSE {}

\* evictLRU, when the cache is full: the query at the back of the list.
Victims ==
    IF Cardinality(DOMAIN stmtCache) >= MaxPreparedStmts /\ stmtLRU # <<>>
    THEN {stmtLRU[Len(stmtLRU)]}
    ELSE {}

Kept == Restrict(stmtCache, DOMAIN stmtCache \ Victims)
KeptLRU == IF Victims = {} THEN stmtLRU ELSE Front(stmtLRU)
Closed(qs) == {stmtCache[q] : q \in qs \cap DOMAIN stmtCache}

\* Fault in Prepare: no second look under the write lock.
PrepareUnchecked(g) ==
    /\ step[g] = "lock"
    /\ closing # "db"
    /\ prepared < MaxPrepares
    /\ prepared' = prepared + 1
    /\ stmtCache' = [q \in DOMAIN Kept \cup {query[g]} |->
                       IF q = query[g] THEN prepared + 1 ELSE Kept[q]]
    /\ stmtLRU' = <<query[g]>> \o RemoveFirst(KeptLRU, query[g])
    /\ stmtElements' = (stmtElements \ Victims) \cup {query[g]}
    /\ open' = (open \ Closed(Victims)) \cup {prepared + 1}
    /\ invalid' = invalid \ Closed(Victims)
    /\ held' = [held EXCEPT ![g] = prepared + 1]
    /\ step' = [step EXCEPT ![g] = "use"]
    /\ UNCHANGED <<closing, method, query>>

\* Make room, prepare, cache.
Prepare(g) ==
    /\ step[g] = "lock"
    /\ query[g] \notin DOMAIN stmtCache
    /\ closing # "db"
    /\ prepared < MaxPrepares
    /\ prepared' = prepared + 1
    /\ stmtCache' = [q \in DOMAIN Kept \cup {query[g]} |->
                       IF q = query[g] THEN prepared + 1 ELSE Kept[q]]
    /\ stmtLRU' = <<query[g]>> \o KeptLRU
    /\ stmtElements' = (stmtElements \ Victims) \cup {query[g]}
    /\ open' = (open \ Closed(Victims)) \cup {prepared + 1}
    /\ invalid' = invalid \ Closed(Victims)
    /\ held' = [held EXCEPT ![g] = prepared + 1]
    /\ step' = [step EXCEPT ![g] = "use"]
    /\ UNCHANGED <<closing, method, query>>

\* db.Prepare fails, after room has been made.
PrepareFails(g) ==
    /\ step[g] = "lock"
    /\ query[g] \notin DOMAIN stmtCache
    /\ stmtCache' = Kept
    /\ stmtLRU' = KeptLRU
    /\ stmtElements' = stmtElements \ Victims
    /\ open' = open \ Closed(Victims)
    /\ invalid' = invalid \ Closed(Victims)
    /\ Return(g)
    /\ UNCHANGED <<prepared, closing>>

-----------------------------------------------------------------------------
(* QueryRow, Query, Exec                                                   *)

\* The call ends: with rows, or with an error other than the server's code for
\* an invalid statement (a cancelled context, a lost connection, a closed
\* statement or database), which removeInvalidStmt passes over; QueryRow
\* leaves every error to Scan.  An invalid statement then stays in the cache.
Use(g) ==
    /\ step[g] = "use"
    /\ Return(g)
    /\ UNCHANGED <<cacheVars, prepared, open, invalid, closing>>

\* Query and Exec get the code of an invalid statement.
UseInvalid(g) ==
    /\ step[g] = "use"
    /\ held[g] \in invalid
    /\ method[g] = "Query"
    /\ closing # "db"
    /\ step' = [step EXCEPT ![g] = "remove"]
    /\ UNCHANGED <<cacheVars, prepared, open, invalid, closing, method, query, held>>

\* Fault in RemoveInvalidStmt: it does nothing.
RemoveNothing(g) ==
    /\ step[g] = "remove"
    /\ Return(g)
    /\ UNCHANGED <<cacheVars, prepared, open, invalid, closing>>

\* removeInvalidStmt closes and drops the statement its query has by now,
\* which may be another one.
RemoveInvalidStmt(g) ==
    /\ step[g] = "remove"
    /\ stmtCache' = Dropped(query[g])
    /\ stmtLRU' = RemoveFirst(stmtLRU, query[g])
    /\ stmtElements' = stmtElements \ {query[g]}
    /\ open' = open \ Closed({query[g]})
    /\ invalid' = invalid \ Closed({query[g]})
    /\ Return(g)
    /\ UNCHANGED <<prepared, closing>>

\* The server forgets a statement.
ServerForgets(s) ==
    /\ s \in open \ invalid
    /\ invalid' = invalid \cup {s}
    /\ UNCHANGED <<cacheVars, prepared, open, closing, callVars>>

-----------------------------------------------------------------------------
\* Close, under the lock: the statements are closed, the cache is emptied.
CloseStmts ==
    /\ closing = "no"
    /\ open' = open \ Closed(Queries)
    /\ invalid' = invalid \ Closed(Queries)
    /\ stmtCache' = <<>>
    /\ stmtLRU' = <<>>
    /\ stmtElements' = {}
    /\ closing' = "stmts"
    /\ UNCHANGED <<prepared, callVars>>

\* Close, after it: db.Close().
CloseDB ==
    /\ closing = "stmts"
    /\ closing' = "db"
    /\ UNCHANGED <<cacheVars, prepared, open, invalid, callVars>>

-----------------------------------------------------------------------------
CallStep(g) ==
    \/ Touch(g)
    \/ FoundAgain(g)
    \/ Prepare(g)
    \/ PrepareFails(g)
    \/ Use(g)
    \/ UseInvalid(g)
    \/ RemoveInvalidStmt(g)

Next ==
    \/ \E g \in Goroutines :
          \/ \E m \in {"QueryRow", "Query"}, q \in Queries : Lookup(g, m, q)
          \/ CallStep(g)
    \/ \E s \in Stmts : ServerForgets(s)
    \/ CloseStmts
    \/ CloseDB

Spec == Init /\ [][Next]_vars

-----------------------------------------------------------------------------
\* The map, the list and the elements map hold the same queries, within the
\* limit, and the statements open on the server are exactly theirs, whatever
\* evictions, removals, failed preparations and Close do: no statement is left
\* open with nobody to close it, none is prepared twice for one query, and a
\* lookup never finds a closed one.
CachesInStep ==
    /\ stmtElements = DOMAIN stmtCache
    /\ {stmtLRU[n] : n \in DOMAIN stmtLRU} = DOMAIN stmtCache
    /\ Len(stmtLRU) = Cardinality(DOMAIN stmtCache)
    /\ Len(stmtLRU) <= MaxPreparedStmts
    /\ open = {stmtCache[q] : q \in DOMAIN stmtCache}

\* A call that has found its statement under the read lock, or is using it,
\* has it closed under its hands in three cases only: by Close, by a call that
\* was told that a statement of the same query is invalid, or by another call
\* that has to make room in a full cache for a further query.
ClosedOnlyForRoom ==
    [][\A g \in Goroutines :
          held[g] \in open \ open' =>
              \/ closing' = "stmts" /\ closing = "no"
              \/ \E h \in Goroutines :
                    step[h] = "remove" /\ step'[h] = "idle" /\ query[h] = query[g]
              \/ \E h \in Goroutines \ {g} :
                    /\ step[h] = "lock" /\ step'[h] # "lock"
                    /\ query[h] \notin DOMAIN stmtCache
                    /\ Cardinality(DOMAIN stmtCache) = MaxPreparedStmts]_vars

\* A Query or Exec that was told its statement is invalid leaves it closed,
\* whatever others did to the cache between the answer and the lock.  Since
\* removeInvalidStmt goes by the query it may close another statement instead,
\* but only one prepared after the invalid one had been closed already.
RemovalSettles ==
    [][\A g \in Goroutines : step[g] = "remove" /\ step'[g] = "idle" =>
          /\ held[g] \notin open'
          /\ \A s \in open \ open' :
                s = held[g] \/ (held[g] \notin open /\ s > held[g])]_vars
=============================================================================
