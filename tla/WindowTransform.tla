--------------------------- MODULE WindowTransform ---------------------------
(***************************************************************************)
(* The windowed aggregation (internal/transform/aggregate/window.go):      *)
(* Execute collects the events of a key in a window and emits it when it   *)
(* has MaxEvents of them; a one-shot timer, made with the window, emits it *)
(* when it has reached its age.  Both end in emitWindowResults, which      *)
(* takes the lock anew, removes the window and then, without the lock,     *)
(* hands the result to emitFunc, if there is one; so Execute, the timers   *)
(* and Stop interleave between the decision to emit, the removal of the    *)
(* window and the emission.                                                *)
(*                                                                         *)
(* emitFunc is nil until SetEmitFunc is called, which only tests do: in    *)
(* the service no result of a window reaches anyone.                       *)
(*                                                                         *)
(* A timer keeps the context of the call that made its window.  Time is    *)
(* abstracted to the order of things: a pending timer may expire at any    *)
(* moment.  The aggregated values are left out; a window is the set of its *)
(* events.                                                                 *)
(***************************************************************************)
EXTENDS Integers, FiniteSets

CONSTANTS Keys,           \* values of key_field
          Events,         \* the events, one call of Execute each
          MaxEvents,      \* WindowConfig.MaxEvents, 0 for no limit
          HasDuration,    \* WindowConfig.MaxDuration > 0
          MaxCalls,       \* calls of Execute under way at a time; the fetch
                          \*   loop makes one at a time
          ForTesting,     \* are SetEmitFunc, ForceEmitAllWindows and Stop
                          \*   called?  In the repository only tests do
          None            \* no timer

ASSUME ConfigureAssumption ==
    /\ MaxEvents \in Nat
    /\ HasDuration \in BOOLEAN
    /\ MaxEvents > 0 \/ HasDuration
ASSUME CallsAssumption == MaxCalls \in Nat \ {0} /\ ForTesting \in BOOLEAN
ASSUME WindowSetsAssumption ==
    IsFiniteSet(Events) /\ None \notin Events \cup Keys

VARIABLES
    call,      \* call[e]: how far the Execute of e is
    keyOf,     \* keyOf[e]: e's key, once Execute has begun
    windows,   \* windows[k]: the events of k's window; {} is no window
    opener,    \* opener[k]: the event that made k's window
    entries,   \* entries[k]: the timer registered for k, named by its opener
    timer,     \* timer[e]: state of the timer made in the Execute of e
    stopped,   \* Stop has been called
    emitFunc,  \* is emitFunc other than nil?
    results    \* history: the result events, and what became of each

vars == <<call, keyOf, windows, opener, entries, timer, stopped, emitFunc, results>>

(* new        not yet called                                               *)
(* full       the window was full when the lock was released; to be emitted*)
(* delivers   it has removed the window and is to emit the result          *)
(* returned   Execute has returned                                         *)
(* cancelled  and the context of the call is done                          *)
Calls == {"new", "full", "delivers", "returned", "cancelled"}

(* pending    in the runtime's heap                                        *)
(* halted     stopped before it expired                                    *)
(* expired    its function has begun to run                                *)
(* emitting   it found the context live; emitWindowResults is next         *)
(* delivers   it has removed the window and is to emit the result          *)
(* over       its function has returned                                    *)
Timers == {"none", "pending", "halted", "expired", "emitting", "delivers", "over"}

(* A result event: whose window it is, the events aggregated in it, and    *)
(* where it is:                                                            *)
(* call      with the Execute of event of, not yet emitted                 *)
(* timer     with the timer of event of, not yet emitted                   *)
(* offered   emitFunc was called with it; what it returned, nil or an      *)
(*           error, changes nothing here                                   *)
(* dropped   there was no emitFunc                                         *)
Places == {"call", "timer", "offered", "dropped"}
Result == [key : Keys, events : SUBSET Events, at : Places, of : Events \cup {None}]

TypeOK ==
    /\ call \in [Events -> Calls]
    /\ keyOf \in [Events -> Keys \cup {None}]
    /\ windows \in [Keys -> SUBSET Events]
    /\ opener \in [Keys -> Events \cup {None}]
    /\ entries \in [Keys -> Events \cup {None}]
    /\ timer \in [Events -> Timers]
    /\ stopped \in BOOLEAN
    /\ emitFunc \in BOOLEAN
    /\ results \subseteq Result

Init ==
    /\ call = [e \in Events |-> "new"]
    /\ keyOf = [e \in Events |-> None]
    /\ windows = [k \in Keys |-> {}]
    /\ opener = [k \in Keys |-> None]
    /\ entries = [k \in Keys |-> None]
    /\ timer = [e \in Events |-> "none"]
    /\ stopped = FALSE
    /\ emitFunc = FALSE
    /\ results = {}

\* timer.Stop() on the timers of ts: too late for those that have expired.
Halted(ts) ==
    [e \in Events |-> IF e \in ts /\ timer[e] = "pending" THEN "halted" ELSE timer[e]]

-----------------------------------------------------------------------------
(* Emission                                                                *)

ResultOf(k, place, e) == [key |-> k, events |-> windows[k], at |-> place, of |-> e]

\* Fault in EmitWindowResults: the window stays.
EmitKeepsWindow(k, maker, e) ==
    /\ results' = IF windows[k] = {} THEN results ELSE results \cup {ResultOf(k, maker, e)}
    /\ entries' = [entries EXCEPT ![k] = None]
    /\ UNCHANGED <<windows, opener>>

\* Fault in EmitWindowResults: the timer stays registered.
EmitKeepsEntry(k, maker, e) ==
    /\ results' = IF windows[k] = {} THEN results ELSE results \cup {ResultOf(k, maker, e)}
    /\ windows' = [windows EXCEPT ![k] = {}]
    /\ opener' = [opener EXCEPT ![k] = None]
    /\ UNCHANGED entries

\* emitWindowResults under the lock: the result is made and the window and its
\* timer are removed; of a window that is gone already nothing is made again.
\* The timer is stopped (EmitHalts).
EmitWindowResults(k, maker, e) ==
    IF windows[k] = {}
    THEN UNCHANGED <<windows, opener, entries, results>>
    ELSE /\ results' = results \cup {ResultOf(k, maker, e)}
         /\ windows' = [windows EXCEPT ![k] = {}]
         /\ opener' = [opener EXCEPT ![k] = None]
         /\ entries' = [entries EXCEPT ![k] = None]

EmitHalts(k) == Halted(IF windows[k] = {} THEN {} ELSE {entries[k]})

\* What becomes of a result that is emitted now.
Emitted == IF emitFunc THEN "offered" ELSE "dropped"

\* emitWindowResults without the lock: the result goes to emitFunc, if there
\* is one, and to nobody else; an error it returns is passed over.
Deliver(maker, e) ==
    results' = {IF x.at = maker /\ x.of = e
                THEN [x EXCEPT !.at = Emitted, !.of = None] ELSE x : x \in results}

-----------------------------------------------------------------------------
(* Execute                                                                 *)

\* scheduleWindowTimeout: a timer registered before is stopped.
ScheduleWindowTimeout(e, k) ==
    /\ timer' = [Halted({entries[k]}) EXCEPT ![e] = "pending"]
    /\ entries' = [entries EXCEPT ![k] = e]

Full(w) == MaxEvents > 0 /\ Cardinality(w) >= MaxEvents

\* Fault in Execute: fullness is tested before the event is added.
ExecuteTestsFirst(e, k) ==
    /\ call[e] = "new"
    /\ Cardinality({f \in Events : call[f] \in {"full", "delivers"}}) < MaxCalls
    /\ keyOf' = [keyOf EXCEPT ![e] = k]
    /\ windows' = [windows EXCEPT ![k] = @ \cup {e}]
    /\ opener' = [opener EXCEPT ![k] = IF windows[k] = {} THEN e ELSE @]
    /\ IF windows[k] = {} /\ HasDuration
       THEN ScheduleWindowTimeout(e, k)
       ELSE UNCHANGED <<timer, entries>>
    /\ call' = [call EXCEPT ![e] = IF Full(windows[k]) THEN "full" ELSE "returned"]
    /\ UNCHANGED <<stopped, emitFunc, results>>

\* Execute under the lock (an event without a string key has failed before
\* and leaves no trace): the window is found or made, the event goes into
\* it, and if that fills it the call goes on to emit it.
Execute(e, k) ==
    /\ call[e] = "new"
    /\ Cardinality({f \in Events : call[f] \in {"full", "delivers"}}) < MaxCalls
    /\ keyOf' = [keyOf EXCEPT ![e] = k]
    /\ windows' = [windows EXCEPT ![k] = @ \cup {e}]
    /\ opener' = [opener EXCEPT ![k] = IF windows[k] = {} THEN e ELSE @]
    /\ IF windows[k] = {} /\ HasDuration
       THEN ScheduleWindowTimeout(e, k)
       ELSE UNCHANGED <<timer, entries>>
    /\ call' = [call EXCEPT ![e] =
                  IF Full(windows[k] \cup {e}) THEN "full" ELSE "returned"]
    /\ UNCHANGED <<stopped, emitFunc, results>>

\* Execute after the lock was released on a full window.
ExecuteEmits(e) ==
    /\ call[e] = "full"
    /\ EmitWindowResults(keyOf[e], "call", e)
    /\ timer' = EmitHalts(keyOf[e])
    /\ call' = [call EXCEPT ![e] = IF windows[keyOf[e]] = {} THEN "returned" ELSE "delivers"]
    /\ UNCHANGED <<keyOf, stopped, emitFunc>>

ExecuteDelivers(e) ==
    /\ call[e] = "delivers"
    /\ Deliver("call", e)
    /\ call' = [call EXCEPT ![e] = "returned"]
    /\ UNCHANGED <<keyOf, windows, opener, entries, timer, stopped, emitFunc>>

\* The caller cancels the context of its finished call, as the fetch loop
\* does after every record (hcancel).
Cancel(e) ==
    /\ call[e] = "returned"
    /\ call' = [call EXCEPT ![e] = "cancelled"]
    /\ UNCHANGED <<keyOf, windows, opener, entries, timer, stopped, emitFunc, results>>

-----------------------------------------------------------------------------
(* Timers                                                                  *)

Expire(e) ==
    /\ timer[e] = "pending"
    /\ timer' = [timer EXCEPT ![e] = "expired"]
    /\ UNCHANGED <<call, keyOf, windows, opener, entries, stopped, emitFunc, results>>

\* Fault in TimerChecks: a finished call counts as a done context.
TimerChecksCall(e) ==
    /\ timer[e] = "expired"
    /\ timer' = [timer EXCEPT ![e] = IF call[e] # "full" THEN "over" ELSE "emitting"]
    /\ UNCHANGED <<call, keyOf, windows, opener, entries, stopped, emitFunc, results>>

\* The timer's function looks at the context first.
TimerChecks(e) ==
    /\ timer[e] = "expired"
    /\ timer' = [timer EXCEPT ![e] = IF call[e] = "cancelled" THEN "over" ELSE "emitting"]
    /\ UNCHANGED <<call, keyOf, windows, opener, entries, stopped, emitFunc, results>>

TimerEmits(e) ==
    /\ timer[e] = "emitting"
    /\ EmitWindowResults(keyOf[e], "timer", e)
    /\ timer' = [EmitHalts(keyOf[e]) EXCEPT ![e] =
                   IF windows[keyOf[e]] = {} THEN "over" ELSE "delivers"]
    /\ UNCHANGED <<call, keyOf, stopped, emitFunc>>

TimerDelivers(e) ==
    /\ timer[e] = "delivers"
    /\ Deliver("timer", e)
    /\ timer' = [timer EXCEPT ![e] = "over"]
    /\ UNCHANGED <<call, keyOf, windows, opener, entries, stopped, emitFunc>>

-----------------------------------------------------------------------------
(* For testing                                                             *)

\* SetEmitFunc; nobody passes nil.
SetEmitFunc ==
    /\ ForTesting
    /\ ~emitFunc
    /\ emitFunc' = TRUE
    /\ UNCHANGED <<call, keyOf, windows, opener, entries, timer, stopped, results>>

\* ForceEmitAllWindows: the windows are removed, every timer is stopped, and
\* the results go to emitFunc together, all of it under the lock; its error is
\* the caller's, and the windows are gone.
ForceEmitAllWindows ==
    /\ ForTesting
    /\ \E k \in Keys : windows[k] # {}
    /\ results' = results \cup
                    {ResultOf(k, Emitted, None) : k \in {j \in Keys : windows[j] # {}}}
    /\ windows' = [k \in Keys |-> {}]
    /\ opener' = [k \in Keys |-> None]
    /\ entries' = [k \in Keys |-> None]
    /\ timer' = Halted({entries[k] : k \in Keys})
    /\ UNCHANGED <<call, keyOf, stopped, emitFunc>>

\* Stop: the timers are stopped, the windows stay.
Stop ==
    /\ ForTesting
    /\ ~stopped
    /\ stopped' = TRUE
    /\ entries' = [k \in Keys |-> None]
    /\ timer' = Halted({entries[k] : k \in Keys})
    /\ UNCHANGED <<call, keyOf, windows, opener, emitFunc, results>>

-----------------------------------------------------------------------------
Next ==
    \/ \E e \in Events :
          \/ \E k \in Keys : Execute(e, k)
          \/ ExecuteEmits(e)
          \/ ExecuteDelivers(e)
          \/ Cancel(e)
          \/ Expire(e)
          \/ TimerChecks(e)
          \/ TimerEmits(e)
          \/ TimerDelivers(e)
    \/ SetEmitFunc
    \/ ForceEmitAllWindows
    \/ Stop

Spec == Init /\ [][Next]_vars

(* The runtime fires the timers that are due and runs their goroutines,    *)
(* a call once begun goes on, and emitFunc returns.  Nothing is assumed of *)
(* callers that cancel, of further events, or of what only tests call.     *)
FairSpec ==
    /\ Spec
    /\ \A e \in Events :
          /\ WF_vars(ExecuteEmits(e))
          /\ WF_vars(ExecuteDelivers(e))
          /\ WF_vars(Expire(e))
          /\ WF_vars(TimerChecks(e))
          /\ WF_vars(TimerEmits(e))
          /\ WF_vars(TimerDelivers(e))

-----------------------------------------------------------------------------
\* Every event Execute took is in the open window of its key or in one result
\* event, never in both, in two or in none, however Execute, expiring timers
\* and forced emission meet between two takings of the lock.  It says what is
\* aggregated, not what is emitted: a result that emitFunc refuses, or that
\* meets no emitFunc, counts its events as well and is gone.
CountedInOneWindow ==
    \A e \in Events : call[e] # "new" =>
        Cardinality({x \in results : e \in x.events})
          + Cardinality({k \in Keys : e \in windows[k]}) = 1

\* A window that is full is never left behind: some call is on its way to
\* emit it.  So it can outgrow MaxEvents only by what concurrent calls add.
FullWindowGetsEmitted ==
    \A k \in Keys : Full(windows[k]) =>
        \E e \in Events : call[e] = "full" /\ keyOf[e] = k

\* Until Stop the two maps agree: an open window has its own timer
\* registered, and not a halted one, and there is no timer without a window.
\* A new window never inherits the timer of an earlier one.
TimerBelongsToWindow ==
    HasDuration /\ ~stopped =>
        \A k \in Keys : /\ entries[k] = opener[k]
                        /\ windows[k] # {} => /\ opener[k] \in windows[k]
                                              /\ timer[opener[k]] # "halted"

\* A window with a duration is taken for emission in the end, unless Stop is
\* called, also when no further event comes: it is taken at its age.
WindowsAreEmitted ==
    \A k \in Keys : windows[k] # {} ~> (windows[k] = {} \/ stopped)

\* An event in a window while there is an emitFunc is offered to it in a result
\* in the end, also when no further event comes, when timers of earlier windows
\* of the key are still about and when the calls that only added to the window
\* have cancelled their contexts; Stop, or the context of the very call that
\* made the window, is the only thing to prevent it.  Without an emitFunc the
\* window is removed as well, and its result dropped.
EmittedUnlessOpenerCancels ==
    \A e \in Events :
        (emitFunc /\ \E k \in Keys : e \in windows[k])
          ~> \/ \E x \in results : e \in x.events /\ x.at = "offered"
             \/ stopped
             \/ \E k \in Keys : e \in windows[k] /\ call[opener[k]] = "cancelled"
=============================================================================
