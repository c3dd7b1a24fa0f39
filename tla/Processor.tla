------------------------------ MODULE Processor ------------------------------
(***************************************************************************)
(* The worker pool of internal/consumer/processor.go: Enqueue hands an     *)
(* event to a goroutine of its own when one of a fixed number of slots is  *)
(* free, Stop raises the shutdown flag and waits for the wait group, and   *)
(* any number of calls of Enqueue may be under way meanwhile.  The flag is *)
(* read before the slot is waited for, and the wait group is entered after *)
(* that.                                                                   *)
(***************************************************************************)
EXTENDS Integers, FiniteSets

CONSTANTS Events,        \* one call of Enqueue each
          Concurrency    \* NewProcessor's argument

ASSUME ConcurrencyAssumption == Concurrency \in Int
ASSUME EventsAssumption == IsFiniteSet(Events)

VARIABLES
    call,       \* call[e]: how far the Enqueue of e is
    task,       \* task[e]: how far the goroutine of e is
    workerSem,  \* slots taken
    wg,         \* the wait group's counter
    shutdown,   \* the shutdown flag
    stop,       \* how far Stop is
    inFlight    \* history: events in the wait group when the flag was raised

vars == <<call, task, workerSem, wg, shutdown, stop, inFlight>>

\* NewProcessor makes room for one worker at least.
Capacity == IF Concurrency < 1 THEN 1 ELSE Concurrency

TypeOK ==
    /\ call \in [Events -> {"new", "blocked", "slot", "nil", "error"}]
    /\ task \in [Events -> {"none", "running", "slotFreed", "done"}]
    /\ workerSem \in 0 .. Capacity
    /\ wg \in 0 .. Cardinality(Events)
    /\ shutdown \in BOOLEAN
    /\ stop \in {"none", "waiting", "nil", "ctxErr"}
    /\ inFlight \subseteq Events

Init ==
    /\ call = [e \in Events |-> "new"]
    /\ task = [e \in Events |-> "none"]
    /\ workerSem = 0
    /\ wg = 0
    /\ shutdown = FALSE
    /\ stop = "none"
    /\ inFlight = {}

-----------------------------------------------------------------------------
\* Enqueue: the load of the flag.
Enter(e) ==
    /\ call[e] = "new"
    /\ call' = [call EXCEPT ![e] = IF shutdown THEN "error" ELSE "blocked"]
    /\ UNCHANGED <<task, workerSem, wg, shutdown, stop, inFlight>>

\* The select takes a slot, or
Acquire(e) ==
    /\ call[e] = "blocked"
    /\ workerSem < Capacity
    /\ workerSem' = workerSem + 1
    /\ call' = [call EXCEPT ![e] = "slot"]
    /\ UNCHANGED <<task, wg, shutdown, stop, inFlight>>

\* sees the caller's context done.
GiveUp(e) ==
    /\ call[e] = "blocked"
    /\ call' = [call EXCEPT ![e] = "error"]
    /\ UNCHANGED <<task, workerSem, wg, shutdown, stop, inFlight>>

\* wg.Add(1), the goroutine is started, Enqueue returns nil.
Spawn(e) ==
    /\ call[e] = "slot"
    /\ wg' = wg + 1
    /\ task' = [task EXCEPT ![e] = "running"]
    /\ call' = [call EXCEPT ![e] = "nil"]
    /\ UNCHANGED <<workerSem, shutdown, stop, inFlight>>

\* Fault in FreeSlot: the slot is not given back.
KeepSlot(e) ==
    /\ task[e] = "running"
    /\ task' = [task EXCEPT ![e] = "slotFreed"]
    /\ UNCHANGED <<call, workerSem, wg, shutdown, stop, inFlight>>

\* The handler returns, its error is logged, and the deferred function frees
\* the slot
FreeSlot(e) ==
    /\ task[e] = "running"
    /\ workerSem' = workerSem - 1
    /\ task' = [task EXCEPT ![e] = "slotFreed"]
    /\ UNCHANGED <<call, wg, shutdown, stop, inFlight>>

\* and leaves the wait group.
WgDone(e) ==
    /\ task[e] = "slotFreed"
    /\ wg' = wg - 1
    /\ task' = [task EXCEPT ![e] = "done"]
    /\ UNCHANGED <<call, workerSem, shutdown, stop, inFlight>>

-----------------------------------------------------------------------------
\* Stop raises the flag and starts to wait.
Stop ==
    /\ stop = "none"
    /\ shutdown' = TRUE
    /\ stop' = "waiting"
    /\ inFlight' = {e \in Events : task[e] \in {"running", "slotFreed"}}
    /\ UNCHANGED <<call, task, workerSem, wg>>

\* Fault in ReturnNil: Stop waits for a slot, not for the wait group.
ReturnOnFreeSlots ==
    /\ stop = "waiting"
    /\ workerSem < Capacity
    /\ stop' = "nil"
    /\ UNCHANGED <<call, task, workerSem, wg, shutdown, inFlight>>

\* wg.Wait is over: the counter has been seen at zero.
ReturnNil ==
    /\ stop = "waiting"
    /\ wg = 0
    /\ stop' = "nil"
    /\ UNCHANGED <<call, task, workerSem, wg, shutdown, inFlight>>

\* Stop's context is done first.
ReturnCtxErr ==
    /\ stop = "waiting"
    /\ stop' = "ctxErr"
    /\ UNCHANGED <<call, task, workerSem, wg, shutdown, inFlight>>

-----------------------------------------------------------------------------
Next ==
    \/ \E e \in Events :
          Enter(e) \/ Acquire(e) \/ GiveUp(e) \/ Spawn(e) \/ FreeSlot(e) \/ WgDone(e)
    \/ Stop
    \/ ReturnNil
    \/ ReturnCtxErr

Spec == Init /\ [][Next]_vars

(* Goroutines that are not blocked run, and handlers return.  Go serves    *)
(* the senders blocked on a channel in order, so one that finds a slot     *)
(* free again and again gets it.  No context is assumed to be ever done.   *)
FairSpec ==
    /\ Spec
    /\ \A e \in Events :
          /\ SF_vars(Acquire(e))
          /\ WF_vars(Spawn(e))
          /\ WF_vars(FreeSlot(e))
          /\ WF_vars(WgDone(e))
    /\ WF_vars(ReturnNil)

-----------------------------------------------------------------------------
\* The slots and the wait group account for the goroutines exactly, whatever
\* Enqueue and Stop are doing: a slot is held from its acquisition until the
\* handler has returned, so at most Capacity handlers run, and none is lost.
PoolAccounted ==
    /\ workerSem = Cardinality({e \in Events :
                                  call[e] = "slot" \/ task[e] = "running"})
    /\ wg = Cardinality({e \in Events : task[e] \in {"running", "slotFreed"}})

\* When Stop returns nil, everything that was in flight when it was called
\* has run to its end.
StopDrains == stop = "nil" => \A e \in inFlight : task[e] = "done"

\* A call of Enqueue that is let in comes back, and a call of Stop too: the
\* pool never locks up at its capacity.
CallsReturn ==
    /\ \A e \in Events : call[e] = "blocked" ~> call[e] \in {"nil", "error"}
    /\ stop = "waiting" ~> stop \in {"nil", "ctxErr"}
=============================================================================
