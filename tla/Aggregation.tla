----------------------------- MODULE Aggregation -----------------------------
(***************************************************************************)
(* The consumer group running a pipeline whose last transform is           *)
(* aggregate.count: every member has its own windows, in memory, while the *)
(* offsets of the records in them are committed.  The handler's call of a  *)
(* step of module Consumer runs Execute: nil from it is ErrDrop for        *)
(* Pipeline.Execute and nil for the fetch loop, a result is sent before    *)
(* the handler returns.                                                    *)
(***************************************************************************)
EXTENDS Consumer, CountTransform

CONSTANT Input   \* Input[r]: the event in record r, [record, key, numbers]

ASSUME InputAssumption ==
    \A r \in Records :
        /\ Input[r].record = r
        /\ \A j, k \in Input[r].key : j = k
        /\ \A f \in DOMAIN Input[r].numbers : Input[r].numbers[f] \in Int

VARIABLES
    windows,   \* windows[m]: CountTransform.windows of m's process
    results,   \* history: the results that were acknowledged
    gone       \* history: records dropped, put into the DLQ, or in a window
               \*   that went without a result

aggregateVars == <<windows, results, gone>>
allVars == <<vars, aggregateVars>>

NoWindows == [k \in {} |-> NewWindow]

RecordsOf(events) == {events[i].record : i \in DOMAIN events}

RecordsIn(ws) == UNION {RecordsOf(ws[k].events) : k \in DOMAIN ws}
RecordsOut(rs) == UNION {RecordsOf(r.events) : r \in rs}

Gone(records) == gone' = gone \cup records

AggregationInit ==
    /\ Init
    /\ windows = [m \in Members |-> NoWindows]
    /\ results = {}
    /\ gone = {}

-----------------------------------------------------------------------------
\* The record the handler gets, and Execute of its event.
Record(m, p) == <<p, next[m][p]>>
Executed(m, p) == Execute(windows[m], Input[Record(m, p)])

HasKey(m, p) == Input[Record(m, p)].key # {}

\* Execute counts the event and returns nil, and so does the handler.
CountEvent(m, p) ==
    /\ HandleSettled(m, p)
    /\ HasKey(m, p)
    /\ Executed(m, p).result = {}
    /\ windows' = [windows EXCEPT ![m] = Executed(m, p).windows]
    /\ UNCHANGED <<results, gone>>

\* Execute returns the window's result, which is sent and acknowledged.
Emit(m, p) ==
    /\ HandleSettled(m, p)
    /\ HasKey(m, p)
    /\ Executed(m, p).result # {}
    /\ windows' = [windows EXCEPT ![m] = Executed(m, p).windows]
    /\ results' = results \cup Executed(m, p).result
    /\ UNCHANGED gone

\* The send of the result fails, and with it the handler; the window has
\* been deleted already.
EmitFails(m, p) ==
    /\ HandleFailed(m, p)
    /\ HasKey(m, p)
    /\ Executed(m, p).result # {}
    /\ windows' = [windows EXCEPT ![m] = Executed(m, p).windows]
    /\ Gone(RecordsOut(Executed(m, p).result))
    /\ UNCHANGED results

\* Execute fails because the record has no key, or is not called because the
\* handler's time is up: the record is dropped, or put into the DLQ.
Reject(m, p) ==
    /\ HandleSettled(m, p)
    /\ Gone({Record(m, p)})
    /\ UNCHANGED <<windows, results>>

\* The handler fails without Execute having counted the event: it has no key
\* and the DLQ does not take it, or the handler's time was up before.
RejectFails(m, p) ==
    /\ HandleFailed(m, p)
    /\ UNCHANGED aggregateVars

Handle(m) ==
    \E p \in Partitions :
        \/ CountEvent(m, p)
        \/ Emit(m, p)
        \/ EmitFails(m, p)
        \/ Reject(m, p)
        \/ RejectFails(m, p)

\* The rest of the fetch loop.  The pipeline does not run a transform with a
\* context that is done.
OtherLoopStep(m) ==
    /\ \/ Check(m)
       \/ Poll(m)
       \/ EmptyPoll(m)
       \/ \E p \in Partitions : HandleCancelled(m, p)
       \/ CommitRecord(m)
       \/ CommitFailed(m)
       \/ EndBatch(m)
    /\ UNCHANGED aggregateVars

\* The process ends, with what was in memory.
Ends(m) ==
    /\ windows' = [windows EXCEPT ![m] = NoWindows]
    /\ Gone(RecordsIn(windows[m]))
    /\ UNCHANGED results

\* The ticker of m's eviction loop fires.
Evict(m) ==
    /\ Idle(windows[m]) # {}
    /\ windows' = [windows EXCEPT ![m] = Evicted(@)]
    /\ Gone(UNION {RecordsOf(windows[m][k].events) : k \in Idle(windows[m])})
    /\ UNCHANGED <<vars, results>>

Tick ==
    /\ \E m \in Members : Aged(windows[m]) # windows[m]
    /\ windows' = [m \in Members |-> Aged(windows[m])]
    /\ UNCHANGED <<vars, results, gone>>

GroupStep(m) ==
    /\ \E p \in Partitions : Assign(m, p) \/ Move(m, p)
    /\ UNCHANGED aggregateVars

AggregationNext ==
    \/ \E m \in Members :
          \/ (Start(m) \/ StopCancel(m)) /\ UNCHANGED aggregateVars
          \/ Handle(m)
          \/ OtherLoopStep(m)
          \/ StopClose(m) /\ Ends(m)
          \/ Crash(m) /\ Ends(m)
          \/ Evict(m)
          \/ GroupStep(m)
    \/ Tick

AggregationSpec == AggregationInit /\ [][AggregationNext]_allVars

-----------------------------------------------------------------------------
(* Properties                                                              *)

Delivered == RecordsOut(results)
Open == UNION {RecordsIn(windows[m]) : m \in Members}

\* What the offsets say is done is somewhere: every record below a committed
\* offset is in a delivered result, in an open window, was dropped or put
\* into the DLQ, or was lost in one of four ways: with the memory of a
\* process that crashed or was stopped, with an idle window, or with a
\* result that could not be sent.  Nothing else, no rebalance, redelivery or
\* second window of a key, makes a counted event disappear.
CommittedIsSomewhere ==
    \A p \in Partitions : \A o \in 0 .. committed[p] - 1 :
        <<p, o>> \in Delivered \cup Open \cup gone

\* The positions of record r among events.
At(events, r) == {i \in DOMAIN events : events[i].record = r}

\* The places where a record is counted, in results and in open windows.
ResultPlaces(r) == UNION {{<<res, i>> : i \in At(res.events, r)} : res \in results}
WindowPlaces(r) ==
    UNION {UNION {{<<m, k, i>> : i \in At(windows[m][k].events, r)} :
                     k \in DOMAIN windows[m]} : m \in Members}
CountedAt(r) == ResultPlaces(r) \cup WindowPlaces(r)

\* A record is counted twice only if it was delivered twice, which takes a
\* partition that moves or a process that ends: emission, eviction and the
\* windows of other keys do not double anything.
CountedOnceWithoutRedelivery ==
    moves = 0 /\ faults = 0 => \A r \in Records : Cardinality(CountedAt(r)) <= 1

\* Results stand for Count events of their key.
ResultsAreWhole ==
    \A r \in results :
        /\ r.eventCount = Count
        /\ Len(r.events) = Count
        /\ \A i \in DOMAIN r.events : r.events[i].key = {r.key}

\* Their values are those of the aggregations over these events.
ResultsHaveValues ==
    \A r \in results :
        Cardinality(Names) = Len(Aggregations) => \A i \in DOMAIN Aggregations :
            r.values[Aggregations[i].as] = Expected(r.events, Aggregations[i])

\* A result that was delivered stands for exactly Count events of its key,
\* all counted by one process since the window was opened, and each of its
\* values is what the aggregation gives over these events, provided that no
\* two aggregations have the same name.
ResultsAddUp == ResultsAreWhole /\ ResultsHaveValues
=============================================================================
