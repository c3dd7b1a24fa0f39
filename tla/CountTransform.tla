--------------------------- MODULE CountTransform ---------------------------
(***************************************************************************)
(* aggregate.count (internal/transform/aggregate/count.go): a window of    *)
(* events per key, with running aggregates, that is emitted and deleted    *)
(* when it holds Count events, and deleted without a word when it has been *)
(* idle for too long.  Execute and one sweep of the eviction loop run      *)
(* under windowMux, so that each is one step: here they are operators on   *)
(* the windows of one process.                                             *)
(*                                                                         *)
(* An event is the text of its key field ({} or one element, since the     *)
(* field may be missing) and the numbers in its other fields; fields that  *)
(* are missing and fields that hold no number are not there, which is how  *)
(* updateAggregationsIncremental treats them.                              *)
(***************************************************************************)
EXTENDS Integers, FiniteSets, SequencesExt

CONSTANTS Count,          \* CountConfig.Count
          IdleTimeout,    \* CountConfig.IdleTimeout, in whole ticks of the clock
          Aggregations    \* CountConfig.Aggregations: [as, field, function]

ASSUME CountAssumption == Count \in Nat \ {0}
ASSUME IdleAssumption == IdleTimeout \in Nat

AggregateFunctions == {"sum", "count", "avg", "min", "max"}

ASSUME AggregationsAssumption ==
    /\ Aggregations \in Seq(Range(Aggregations)) \ {<<>>}
    /\ \A i \in DOMAIN Aggregations : Aggregations[i].function \in AggregateFunctions

Names == {Aggregations[i].as : i \in DOMAIN Aggregations}

\* AggregateState; the nil pointer is {}.
NoValues == [sum |-> 0, count |-> 0, min |-> {}, max |-> {}]

(* CountWindowState.  age is the time since LastSeen; events is history:   *)
(* the events the window stands for.                                       *)
NewWindow == [eventCount |-> 0, age |-> 0, events |-> <<>>,
              aggregates |-> [a \in Names |-> NoValues]]

\* Fault in Update: the extremes start at zero.
UpdateFromZero(state, function, v) ==
    CASE function \in {"sum", "avg"} ->
            [state EXCEPT !.sum = @ + v, !.count = @ + 1]
      [] function = "count" -> [state EXCEPT !.count = @ + 1]
      [] function = "min" -> [state EXCEPT !.min = {Min(@ \cup {0, v})}]
      [] function = "max" -> [state EXCEPT !.max = {Max(@ \cup {0, v})}]

\* One more value.
Update(state, function, v) ==
    CASE function \in {"sum", "avg"} ->
            [state EXCEPT !.sum = @ + v, !.count = @ + 1]
      [] function = "count" -> [state EXCEPT !.count = @ + 1]
      [] function = "min" -> [state EXCEPT !.min = {Min(@ \cup {v})}]
      [] function = "max" -> [state EXCEPT !.max = {Max(@ \cup {v})}]

\* updateAggregationsIncremental: aggregations with the same name share
\* their state.
UpdateAggregations(aggregates, numbers) ==
    FoldLeft(LAMBDA states, agg :
                IF agg.field \in DOMAIN numbers
                THEN [states EXCEPT ![agg.as] =
                         Update(@, agg.function, numbers[agg.field])]
                ELSE states,
             aggregates, Aggregations)

\* The value of an aggregation in the result, {} if there is none.  An
\* average is its sum and its number of values; that of no values is 0.
ValueOf(state, function) ==
    CASE function = "sum" -> {<<state.sum, 1>>}
      [] function = "count" -> {<<state.count, 1>>}
      [] function = "avg" ->
            {IF state.count > 0 THEN <<state.sum, state.count>> ELSE <<0, 1>>}
      [] function = "min" -> {<<v, 1>> : v \in state.min}
      [] function = "max" -> {<<v, 1>> : v \in state.max}

\* The result event's aggregations, in the order they are set.
ResultFields(aggregates) ==
    FoldLeft(LAMBDA fields, agg :
                LET value == ValueOf(aggregates[agg.as], agg.function)
                IN  IF value = {} THEN fields ELSE [fields EXCEPT ![agg.as] = value],
             [a \in Names |-> {}], Aggregations)

Opened(windows, key) == IF key \in DOMAIN windows THEN windows[key] ELSE NewWindow

With(windows, key, w) ==
    [k \in DOMAIN windows \cup {key} |-> IF k = key THEN w ELSE windows[k]]

\* The window after one more event.
Counted(w, ev) ==
    [eventCount |-> w.eventCount + 1, age |-> 0, events |-> Append(w.events, ev),
     aggregates |-> UpdateAggregations(w.aggregates, ev.numbers)]

Result(key, w) ==
    [key |-> key, eventCount |-> w.eventCount, events |-> w.events,
     values |-> ResultFields(w.aggregates)]

\* Fault in Execute: the window that is emitted is not deleted.
ExecuteKeepsWindow(windows, ev) ==
    LET key == CHOOSE k \in ev.key : TRUE
        w == Counted(Opened(windows, key), ev)
    IN  [windows |-> With(windows, key, w),
         result |-> IF w.eventCount >= Count THEN {Result(key, w)} ELSE {}]

\* Fault in Execute: an emission starts over with an empty map.
ExecuteResetsMap(windows, ev) ==
    LET key == CHOOSE k \in ev.key : TRUE
        w == Counted(Opened(windows, key), ev)
    IN  IF w.eventCount >= Count
        THEN [windows |-> Restrict(windows, {}), result |-> {Result(key, w)}]
        ELSE [windows |-> With(windows, key, w), result |-> {}]

\* Execute, of an event with a key: the windows after it and what it returns,
\* {} for nil.
Execute(windows, ev) ==
    LET key == CHOOSE k \in ev.key : TRUE
        w == Counted(Opened(windows, key), ev)
    IN  IF w.eventCount >= Count
        THEN [windows |-> Restrict(windows, DOMAIN windows \ {key}),
              result |-> {Result(key, w)}]
        ELSE [windows |-> With(windows, key, w), result |-> {}]

Idle(windows) == {k \in DOMAIN windows : windows[k].age > IdleTimeout}

\* One sweep of evictionLoop.
Evicted(windows) == Restrict(windows, DOMAIN windows \ Idle(windows))

\* time.Now moves on.  Ages above the timeout are all the same.
Aged(windows) ==
    [k \in DOMAIN windows |->
        [windows[k] EXCEPT !.age = Min({@ + 1, IdleTimeout + 1})]]

-----------------------------------------------------------------------------
(* What the aggregates of a window should be, from its events.             *)

HasNumber(events, field) == {i \in DOMAIN events : field \in DOMAIN events[i].numbers}

NumbersOf(events, field) == {events[i].numbers[field] : i \in HasNumber(events, field)}

SumOf(events, field) ==
    LET number(i) == IF i \in HasNumber(events, field) THEN events[i].numbers[field] ELSE 0
        sum[n \in 0 .. Len(events)] == IF n = 0 THEN 0 ELSE sum[n - 1] + number(n)
    IN  sum[Len(events)]

Expected(events, agg) ==
    LET n == Cardinality(HasNumber(events, agg.field))
        numbers == NumbersOf(events, agg.field)
    IN  CASE agg.function = "sum" -> {<<SumOf(events, agg.field), 1>>}
          [] agg.function = "count" -> {<<n, 1>>}
          [] agg.function = "avg" ->
                {IF n = 0 THEN <<0, 1>> ELSE <<SumOf(events, agg.field), n>>}
          [] agg.function = "min" ->
                {<<v, 1>> : v \in {x \in numbers : \A y \in numbers : x <= y}}
          [] agg.function = "max" ->
                {<<v, 1>> : v \in {x \in numbers : \A y \in numbers : x >= y}}
=============================================================================
