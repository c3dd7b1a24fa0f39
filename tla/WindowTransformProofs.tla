----------------------- MODULE WindowTransformProofs -----------------------
(***************************************************************************)
(* Proofs about WindowTransform, for any keys, any events, any limit and   *)
(* any number of calls and timers under way.                               *)
(***************************************************************************)
EXTENDS WindowTransform, FiniteSetTheorems, TLAPS

USE ConfigureAssumption, WindowSetsAssumption

\* A call that has begun has its key, and a timer is made by such a call.
BegunHaveKeys ==
    \A e \in Events :
        /\ call[e] # "new" => keyOf[e] \in Keys
        /\ timer[e] # "none" => call[e] # "new"

\* Where an event may be: in the window of its own key, or in a result and
\* then in no window, and in no second result; and once its call has begun it
\* is in one of the two.
EventsInWindows ==
    \A k \in Keys : \A e \in windows[k] : call[e] # "new" /\ keyOf[e] = k

EventsInResults ==
    \A x \in results : \A e \in x.events :
        /\ call[e] # "new"
        /\ e \notin windows[keyOf[e]]
        /\ \A y \in results : e \in y.events => y = x

EventsSomewhere ==
    \A e \in Events : call[e] # "new" =>
        e \in windows[keyOf[e]] \/ \E x \in results : e \in x.events

\* The opener of a window is one of its events, and there is one exactly
\* when there is a window.
OpenersOpen ==
    \A k \in Keys : IF windows[k] = {} THEN opener[k] = None ELSE opener[k] \in windows[k]

WInv ==
    /\ TypeOK
    /\ BegunHaveKeys
    /\ EventsInWindows
    /\ EventsInResults
    /\ EventsSomewhere
    /\ OpenersOpen
    /\ FullWindowGetsEmitted
    /\ TimerBelongsToWindow

-----------------------------------------------------------------------------
LEMMA EmptyIsNotFull == ~Full({})
BY FS_EmptySet DEF Full

LEMMA WindowInit == Init => WInv
<1> SUFFICES ASSUME Init PROVE WInv
  OBVIOUS
<1>1. \A k \in Keys : ~Full(windows[k])
  BY EmptyIsNotFull DEF Init
<1> QED
  BY <1>1 DEF Init, WInv, TypeOK, Calls, Timers, Result, Places, BegunHaveKeys,
     EventsInWindows, EventsInResults, EventsSomewhere, OpenersOpen,
     FullWindowGetsEmitted, TimerBelongsToWindow

\* timer.Stop() makes no timer and forgets none.
LEMMA HaltedTimers ==
    ASSUME timer \in [Events -> Timers], NEW ts
    PROVE  /\ Halted(ts) \in [Events -> Timers]
           /\ \A e \in Events : /\ Halted(ts)[e] = "none" <=> timer[e] = "none"
                                /\ e \notin ts => Halted(ts)[e] = timer[e]
BY DEF Halted, Timers

\* Execute: the event goes into the window of its key and nowhere else.
LEMMA ExecuteStep ==
    ASSUME WInv, NEW e \in Events, NEW k \in Keys, Execute(e, k)
    PROVE  WInv'
<1> USE DEF WInv, TypeOK, Calls, Timers, Execute
<1>1. e \notin windows[k] /\ timer[e] = "none" /\ \A j \in Keys : e \notin windows[j]
  BY DEF EventsInWindows, BegunHaveKeys
<1>2. \A x \in results : e \notin x.events
  BY DEF EventsInResults
<1>3. ASSUME HasDuration, ~stopped
      PROVE  timer' = IF windows[k] = {} THEN [timer EXCEPT ![e] = "pending"] ELSE timer
  <2>1. windows[k] = {} => entries[k] = None
    BY <1>3 DEF OpenersOpen, TimerBelongsToWindow
  <2>2. windows[k] = {} => Halted({entries[k]}) = timer
    BY <2>1 DEF Halted
  <2> QED BY <1>3, <2>2 DEF ScheduleWindowTimeout
<1>4. /\ timer' \in [Events -> Timers]
      /\ \A f \in Events \ {e} : timer'[f] = "none" <=> timer[f] = "none"
  BY HaltedTimers DEF ScheduleWindowTimeout
<1>5. TypeOK'
  <2>1. call' \in [Events -> Calls] /\ keyOf' \in [Events -> Keys \cup {None}]
    OBVIOUS
  <2>2. windows' \in [Keys -> SUBSET Events]
    OBVIOUS
  <2>3. opener' \in [Keys -> Events \cup {None}]
    OBVIOUS
  <2>4. entries' \in [Keys -> Events \cup {None}]
    BY DEF ScheduleWindowTimeout
  <2> QED BY <1>4, <2>1, <2>2, <2>3, <2>4
<1>6. BegunHaveKeys' /\ EventsInWindows'
  BY <1>1, <1>4 DEF BegunHaveKeys, EventsInWindows
<1>7. EventsInResults'
  BY <1>1, <1>2 DEF EventsInResults, BegunHaveKeys, Result
<1>8. EventsSomewhere' /\ OpenersOpen'
  BY DEF EventsSomewhere, BegunHaveKeys, OpenersOpen
<1>9. FullWindowGetsEmitted'
  BY DEF FullWindowGetsEmitted
<1>10. TimerBelongsToWindow'
  BY <1>1, <1>3 DEF TimerBelongsToWindow, OpenersOpen, ScheduleWindowTimeout, EventsInWindows
<1> QED BY <1>5, <1>6, <1>7, <1>8, <1>9, <1>10

\* A timer of another window than k's is not stopped with it.
LEMMA EmitHaltsOwn ==
    ASSUME WInv, NEW k \in Keys
    PROVE  /\ EmitHalts(k) \in [Events -> Timers]
           /\ \A e \in Events : EmitHalts(k)[e] = "none" <=> timer[e] = "none"
           /\ HasDuration /\ ~stopped =>
                \A j \in Keys : windows[j] # {} /\ (j # k \/ windows[k] = {}) =>
                    EmitHalts(k)[opener[j]] = timer[opener[j]]
<1> DEFINE ts == IF windows[k] = {} THEN {} ELSE {entries[k]}
<1>1. EmitHalts(k) = Halted(ts)
  BY DEF EmitHalts
<1>2. ASSUME HasDuration, ~stopped, NEW j \in Keys, windows[j] # {},
             j # k \/ windows[k] = {}
      PROVE  opener[j] \in Events /\ opener[j] \notin ts
  BY <1>2 DEF WInv, TypeOK, OpenersOpen, TimerBelongsToWindow, EventsInWindows
<1> HIDE DEF ts
<1> QED BY <1>1, <1>2, HaltedTimers DEF WInv, TypeOK

\* emitWindowResults under the lock, with whatever becomes of the caller: what
\* was in the window of k is in one new result and in no window.
LEMMA EmitStep ==
    ASSUME WInv, NEW k \in Keys, NEW maker \in {"call", "timer"}, NEW m \in Events,
           EmitWindowResults(k, maker, m),
           call' \in [Events -> Calls],
           \A e \in Events : call'[e] = "new" <=> call[e] = "new",
           \A e \in Events : call[e] = "full" /\ keyOf[e] # k => call'[e] = "full",
           timer' \in [Events -> Timers],
           \A e \in Events : timer'[e] = "none" <=> timer[e] = "none",
           \A e \in Events : timer'[e] = "halted" => EmitHalts(k)[e] = "halted",
           UNCHANGED <<keyOf, stopped, emitFunc>>
    PROVE  WInv'
<1> USE DEF WInv, TypeOK
<1>1. CASE windows[k] = {}
  <2>1. UNCHANGED <<windows, opener, entries, results>>
    BY <1>1 DEF EmitWindowResults
  <2>2. TypeOK' /\ BegunHaveKeys' /\ EventsInWindows'
    BY <2>1 DEF BegunHaveKeys, EventsInWindows
  <2>3. EventsInResults' /\ EventsSomewhere' /\ OpenersOpen'
    BY <2>1 DEF EventsInResults, EventsSomewhere, OpenersOpen, Result
  <2>4. FullWindowGetsEmitted'
    <3>1. ~Full(windows[k])
      BY <1>1, EmptyIsNotFull
    <3> SUFFICES ASSUME NEW j \in Keys, Full(windows[j])
                 PROVE  \E e \in Events : call'[e] = "full" /\ keyOf'[e] = j
      BY <2>1 DEF FullWindowGetsEmitted, Full
    <3> QED BY <3>1 DEF FullWindowGetsEmitted
  <2>5. TimerBelongsToWindow'
    BY <1>1, <2>1, EmitHaltsOwn DEF TimerBelongsToWindow, OpenersOpen
  <2> QED BY <2>2, <2>3, <2>4, <2>5
<1>2. CASE windows[k] # {}
  <2>1. /\ results' = results \cup {ResultOf(k, maker, m)}
        /\ windows' = [windows EXCEPT ![k] = {}]
        /\ opener' = [opener EXCEPT ![k] = None]
        /\ entries' = [entries EXCEPT ![k] = None]
    BY <1>2 DEF EmitWindowResults
  <2>2. ResultOf(k, maker, m) \in Result /\ ResultOf(k, maker, m).events = windows[k]
    BY DEF ResultOf, Result, Places
  <2>3. TypeOK' /\ BegunHaveKeys' /\ EventsInWindows'
    BY <2>1, <2>2 DEF BegunHaveKeys, EventsInWindows
  <2>4. EventsInResults'
    BY <2>1, <2>2 DEF EventsInResults, EventsInWindows, BegunHaveKeys, Result
  <2>5. EventsSomewhere' /\ OpenersOpen'
    BY <2>1, <2>2 DEF EventsSomewhere, OpenersOpen, BegunHaveKeys
  <2>6. FullWindowGetsEmitted'
    <3> SUFFICES ASSUME NEW j \in Keys, Full(windows'[j])
                 PROVE  \E e \in Events : call'[e] = "full" /\ keyOf'[e] = j
      BY DEF FullWindowGetsEmitted, Full
    <3>1. j # k /\ Full(windows[j])
      BY <2>1, EmptyIsNotFull
    <3> QED BY <3>1 DEF FullWindowGetsEmitted
  <2>7. TimerBelongsToWindow'
    <3> SUFFICES ASSUME HasDuration, ~stopped, NEW j \in Keys
                 PROVE  /\ entries'[j] = opener'[j]
                        /\ windows'[j] # {} => /\ opener'[j] \in windows'[j]
                                               /\ timer'[opener'[j]] # "halted"
      BY DEF TimerBelongsToWindow
    <3>1. CASE j = k
      BY <2>1, <3>1
    <3>2. CASE j # k
      BY <2>1, <3>2, EmitHaltsOwn DEF TimerBelongsToWindow, OpenersOpen
    <3> QED BY <3>1, <3>2
  <2> QED BY <2>3, <2>4, <2>5, <2>6, <2>7
<1> QED BY <1>1, <1>2

\* ForceEmitAllWindows: every window becomes a result of its own.
LEMMA ForceStep ==
    ASSUME WInv, ForceEmitAllWindows
    PROVE  WInv'
<1> USE DEF WInv, TypeOK, ForceEmitAllWindows
<1>1. /\ \A k \in Keys : windows'[k] = {} /\ opener'[k] = None /\ entries'[k] = None
      /\ windows' \in [Keys -> SUBSET Events]
      /\ opener' \in [Keys -> Events \cup {None}]
      /\ entries' \in [Keys -> Events \cup {None}]
      /\ UNCHANGED <<call, keyOf, stopped, emitFunc>>
  OBVIOUS
<1>2. /\ timer' \in [Events -> Timers]
      /\ \A e \in Events : timer'[e] = "none" <=> timer[e] = "none"
  BY HaltedTimers
<1> DEFINE new(k) == ResultOf(k, Emitted, None)
<1>3. /\ \A x \in results' : \/ x \in results
                             \/ \E k \in Keys : x = new(k) /\ windows[k] # {}
      /\ \A x \in results : x \in results'
      /\ \A k \in Keys : windows[k] # {} => new(k) \in results'
  OBVIOUS
<1>4. \A k \in Keys : new(k) \in Result /\ new(k).events = windows[k]
  BY DEF ResultOf, Result, Places, Emitted
<1> HIDE DEF new
<1>5. TypeOK' /\ BegunHaveKeys' /\ EventsInWindows' /\ OpenersOpen'
  BY <1>1, <1>2, <1>3, <1>4 DEF BegunHaveKeys, EventsInWindows, OpenersOpen
<1>6. EventsInResults'
  <2> SUFFICES ASSUME NEW x \in results', NEW e \in x.events
               PROVE  /\ call[e] # "new"
                      /\ e \notin windows'[keyOf[e]]
                      /\ \A y \in results' : e \in y.events => y = x
    BY <1>1 DEF EventsInResults
  <2>1. CASE x \in results
    <3>1. e \in Events /\ call[e] # "new" /\ keyOf[e] \in Keys /\ e \notin windows[keyOf[e]]
      BY <2>1 DEF EventsInResults, BegunHaveKeys, Result
    <3>2. e \notin windows'[keyOf[e]]
      BY <3>1, <1>1
    <3>3. \A k \in Keys : e \notin windows[k]
      BY <3>1 DEF EventsInWindows
    <3>4. ASSUME NEW y \in results', e \in y.events PROVE y \in results
      BY <3>3, <3>4, <1>3, <1>4
    <3> QED BY <3>1, <3>2, <3>4, <2>1 DEF EventsInResults
  <2>2. ASSUME NEW k \in Keys, x = new(k), windows[k] # {}
        PROVE  /\ call[e] # "new"
               /\ e \notin windows'[keyOf[e]]
               /\ \A y \in results' : e \in y.events => y = x
    BY <2>2, <1>1, <1>3, <1>4 DEF EventsInResults, EventsInWindows
  <2> QED BY <2>1, <2>2, <1>3
<1>7. EventsSomewhere'
  BY <1>1, <1>3, <1>4 DEF EventsSomewhere, BegunHaveKeys
<1>8. FullWindowGetsEmitted' /\ TimerBelongsToWindow'
  BY <1>1, EmptyIsNotFull DEF FullWindowGetsEmitted, TimerBelongsToWindow, Full
<1> QED BY <1>5, <1>6, <1>7, <1>8

\* The steps that touch neither windows nor results.
LEMMA QuietStep ==
    ASSUME WInv, UNCHANGED <<keyOf, windows, opener, results>>, emitFunc' \in BOOLEAN,
           call' \in [Events -> Calls],
           \A e \in Events : call'[e] = "new" <=> call[e] = "new",
           \A e \in Events : call[e] = "full" => call'[e] = "full",
           timer' \in [Events -> Timers],
           \A e \in Events : timer'[e] = "none" <=> timer[e] = "none",
           \/ stopped' = TRUE /\ entries' \in [Keys -> Events \cup {None}]
           \/ /\ UNCHANGED <<stopped, entries>>
              /\ \A e \in Events : timer'[e] = "halted" => timer[e] = "halted"
    PROVE  WInv'
<1> USE DEF WInv, TypeOK
<1>1. TypeOK' /\ BegunHaveKeys' /\ OpenersOpen'
  BY DEF BegunHaveKeys, OpenersOpen
<1>2. EventsInWindows' /\ EventsInResults' /\ EventsSomewhere'
  BY DEF EventsInWindows, EventsInResults, EventsSomewhere, Result
<1>3. FullWindowGetsEmitted'
  BY DEF FullWindowGetsEmitted, Full
<1>4. TimerBelongsToWindow'
  BY DEF TimerBelongsToWindow, OpenersOpen
<1> QED BY <1>1, <1>2, <1>3, <1>4

\* emitWindowResults without the lock: one result changes its place, whatever
\* becomes of the caller, and has the same events.
LEMMA DeliverStep ==
    ASSUME WInv, NEW maker, NEW m \in Events, Deliver(maker, m),
           UNCHANGED <<keyOf, windows, opener, entries, stopped, emitFunc>>,
           call' \in [Events -> Calls],
           \A e \in Events : call'[e] = "new" <=> call[e] = "new",
           \A e \in Events : call[e] = "full" => call'[e] = "full",
           timer' \in [Events -> Timers],
           \A e \in Events : timer'[e] = "none" <=> timer[e] = "none",
           \A e \in Events : timer'[e] = "halted" => timer[e] = "halted"
    PROVE  WInv'
<1> USE DEF WInv, TypeOK
<1> DEFINE moved(x) == IF x.at = maker /\ x.of = m
                       THEN [x EXCEPT !.at = Emitted, !.of = None] ELSE x
<1>1. results' = {moved(x) : x \in results}
  BY DEF Deliver
<1>2. \A x \in results : moved(x) \in Result /\ moved(x).events = x.events
  BY DEF Result, Places, Emitted
<1> HIDE DEF moved
<1>3. /\ \A y \in results' : \E x \in results : y = moved(x)
      /\ \A x \in results : moved(x) \in results'
  BY <1>1
<1>4. TypeOK' /\ BegunHaveKeys' /\ EventsInWindows' /\ OpenersOpen'
  <2>1. results' \subseteq Result
    BY <1>2, <1>3
  <2>2. BegunHaveKeys' /\ EventsInWindows' /\ OpenersOpen'
    BY DEF BegunHaveKeys, EventsInWindows, OpenersOpen
  <2> QED BY <2>1, <2>2
<1>5. EventsInResults'
  <2> SUFFICES ASSUME NEW y \in results', NEW e \in y.events
               PROVE  /\ call'[e] # "new"
                      /\ e \notin windows[keyOf[e]]
                      /\ \A z \in results' : e \in z.events => z = y
    BY DEF EventsInResults
  <2> PICK x \in results : y = moved(x)
    BY <1>3
  <2>1. e \in x.events /\ e \in Events
    BY <1>2 DEF Result
  <2>2. \A z \in results' : e \in z.events => z = y
    <3> SUFFICES ASSUME NEW z \in results', e \in z.events PROVE z = y
      OBVIOUS
    <3> PICK w \in results : z = moved(w)
      BY <1>3
    <3>1. e \in w.events
      BY <1>2
    <3> QED BY <2>1, <3>1 DEF EventsInResults
  <2> QED BY <2>1, <2>2 DEF EventsInResults
<1>6. EventsSomewhere'
  BY <1>2, <1>3 DEF EventsSomewhere
<1>7. FullWindowGetsEmitted'
  BY DEF FullWindowGetsEmitted, Full
<1>8. TimerBelongsToWindow'
  BY DEF TimerBelongsToWindow, OpenersOpen
<1> QED BY <1>4, <1>5, <1>6, <1>7, <1>8

LEMMA WindowStep == WInv /\ [Next]_vars => WInv'
<1> SUFFICES ASSUME WInv, [Next]_vars PROVE WInv'
  OBVIOUS
<1>1. ASSUME NEW e \in Events, ExecuteEmits(e) PROVE WInv'
  <2>1. keyOf[e] \in Keys
    BY <1>1 DEF ExecuteEmits, WInv, BegunHaveKeys, TypeOK
  <2>2. /\ EmitWindowResults(keyOf[e], "call", e) /\ timer' = EmitHalts(keyOf[e])
        /\ UNCHANGED <<keyOf, stopped, emitFunc>>
    BY <1>1 DEF ExecuteEmits
  <2>3. /\ call' \in [Events -> Calls]
        /\ \A f \in Events : /\ call'[f] = "new" <=> call[f] = "new"
                             /\ keyOf[f] # keyOf[e] => call'[f] = call[f]
    BY <1>1 DEF ExecuteEmits, WInv, TypeOK, Calls
  <2> QED BY <2>1, <2>2, <2>3, EmitHaltsOwn, EmitStep
<1>2. ASSUME NEW e \in Events, TimerEmits(e) PROVE WInv'
  <2>1. keyOf[e] \in Keys
    BY <1>2 DEF TimerEmits, WInv, BegunHaveKeys, TypeOK
  <2>2. /\ EmitWindowResults(keyOf[e], "timer", e)
        /\ timer' = [EmitHalts(keyOf[e]) EXCEPT ![e] =
                        IF windows[keyOf[e]] = {} THEN "over" ELSE "delivers"]
        /\ timer[e] = "emitting"
        /\ UNCHANGED <<call, keyOf, stopped, emitFunc>>
    BY <1>2 DEF TimerEmits
  <2>3. /\ timer' \in [Events -> Timers]
        /\ \A f \in Events : /\ timer'[f] = "none" <=> timer[f] = "none"
                             /\ timer'[f] = "halted" => EmitHalts(keyOf[e])[f] = "halted"
    BY <2>1, <2>2, EmitHaltsOwn DEF Timers
  <2>4. call' \in [Events -> Calls]
    BY <2>2 DEF WInv, TypeOK
  <2> QED BY <2>1, <2>2, <2>3, <2>4, EmitStep
<1>3. ASSUME NEW e \in Events, Cancel(e) PROVE WInv'
  BY <1>3, QuietStep DEF Cancel, WInv, TypeOK, Calls
<1>4. ASSUME NEW e \in Events, Expire(e) \/ TimerChecks(e) PROVE WInv'
  BY <1>4, QuietStep DEF Expire, TimerChecks, WInv, TypeOK, Timers
<1>5. CASE Stop
  <2>1. /\ timer' \in [Events -> Timers]
        /\ \A e \in Events : timer'[e] = "none" <=> timer[e] = "none"
    BY <1>5, HaltedTimers DEF Stop, WInv, TypeOK
  <2> QED BY <1>5, <2>1, QuietStep DEF Stop, WInv, TypeOK
<1>6. CASE UNCHANGED vars
  BY <1>6, QuietStep DEF vars, WInv, TypeOK
<1>7. CASE SetEmitFunc
  BY <1>7, QuietStep DEF SetEmitFunc, WInv, TypeOK
<1>8. ASSUME NEW e \in Events, ExecuteDelivers(e) PROVE WInv'
  BY <1>8, DeliverStep DEF ExecuteDelivers, WInv, TypeOK, Calls
<1>9. ASSUME NEW e \in Events, TimerDelivers(e) PROVE WInv'
  BY <1>9, DeliverStep DEF TimerDelivers, WInv, TypeOK, Timers
<1> QED
  BY <1>1, <1>2, <1>3, <1>4, <1>5, <1>6, <1>7, <1>8, <1>9, ExecuteStep, ForceStep DEF Next

LEMMA WindowInvariant == Spec => []WInv
BY WindowInit, WindowStep, PTL DEF Spec

-----------------------------------------------------------------------------
\* However Execute, late timers, forced emission and Stop interleave between
\* two takings of the lock, every event that Execute took is counted once: in
\* the open window of its key, or in one result event.  That the result then
\* reaches anyone is not said: it does not without an emitFunc.
THEOREM EventsAreCountedOnce == Spec => []CountedInOneWindow
<1>1. WInv => CountedInOneWindow
  <2> SUFFICES ASSUME WInv, NEW e \in Events, call[e] # "new"
               PROVE  Cardinality({x \in results : e \in x.events})
                        + Cardinality({k \in Keys : e \in windows[k]}) = 1
    BY DEF CountedInOneWindow
  <2>1. keyOf[e] \in Keys
    BY DEF WInv, BegunHaveKeys
  <2>2. CASE e \in windows[keyOf[e]]
    <3>1. {x \in results : e \in x.events} = {}
      BY <2>2 DEF WInv, EventsInResults
    <3>2. {k \in Keys : e \in windows[k]} = {keyOf[e]}
      BY <2>1, <2>2 DEF WInv, EventsInWindows
    <3>3. Cardinality({}) = 0 /\ \A z : Cardinality({z}) = 1
      BY FS_EmptySet, FS_Singleton
    <3>4. Cardinality({x \in results : e \in x.events}) = 0
      BY <3>1, <3>3
    <3>5. Cardinality({k \in Keys : e \in windows[k]}) = 1
      BY <3>2, <3>3
    <3> QED BY <3>4, <3>5
  <2>3. ASSUME NEW y \in results, e \in y.events
        PROVE  Cardinality({x \in results : e \in x.events})
                 + Cardinality({k \in Keys : e \in windows[k]}) = 1
    <3>1. {x \in results : e \in x.events} = {y}
      BY <2>3 DEF WInv, EventsInResults
    <3>2. {k \in Keys : e \in windows[k]} = {}
      BY <2>3 DEF WInv, EventsInResults, EventsInWindows
    <3>3. Cardinality({}) = 0 /\ \A z : Cardinality({z}) = 1
      BY FS_EmptySet, FS_Singleton
    <3>4. Cardinality({x \in results : e \in x.events}) = 1
      BY <3>1, <3>3
    <3>5. Cardinality({k \in Keys : e \in windows[k]}) = 0
      BY <3>2, <3>3
    <3> QED BY <3>4, <3>5
  <2> QED BY <2>2, <2>3 DEF WInv, EventsSomewhere
<1> QED BY <1>1, WindowInvariant, PTL

\* A full window always has a call on its way to emit it, however many calls
\* and timers empty and refill it meanwhile.
THEOREM FullWindowsGetEmitted == Spec => []FullWindowGetsEmitted
BY WindowInvariant, PTL DEF WInv

\* Until Stop every open window has its own timer registered, which nobody
\* has halted, and no timer outlives its window in the map.
THEOREM TimersBelongToWindows == Spec => []TimerBelongsToWindow
BY WindowInvariant, PTL DEF WInv
=============================================================================
