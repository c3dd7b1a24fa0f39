--------------------------- MODULE ProcessorProofs ---------------------------
(***************************************************************************)
(* Proofs about Processor, for any number of calls and any concurrency.    *)
(***************************************************************************)
EXTENDS Processor, FiniteSetTheorems, TLAPS

\* The events that hold a slot, and those in the wait group.
Holders == {e \in Events : call[e] = "slot" \/ task[e] = "running"}
Group == {e \in Events : task[e] \in {"running", "slotFreed"}}

\* A goroutine exists once its Enqueue has returned nil, and what was in
\* flight at Stop has not gone back.
TaskShape ==
    /\ \A e \in Events : call[e] = "nil" <=> task[e] # "none"
    /\ \A e \in inFlight : task[e] # "none"

IInv == TypeOK /\ PoolAccounted /\ TaskShape /\ StopDrains

USE ConcurrencyAssumption, EventsAssumption

LEMMA CapacityNat == Capacity \in Nat \ {0}
BY DEF Capacity

\* Subsets of the events can be counted.
LEMMA Countable ==
    ASSUME NEW S \in SUBSET Events
    PROVE  /\ IsFiniteSet(S)
           /\ Cardinality(S) \in Nat
           /\ Cardinality(S) <= Cardinality(Events)
           /\ Cardinality(Events) \in Nat
           /\ Cardinality(S) = 0 <=> S = {}
BY FS_Subset, FS_CardinalityType, FS_EmptySet

LEMMA AddOne ==
    ASSUME NEW S \in SUBSET Events, NEW e \in Events, e \notin S
    PROVE  Cardinality(S \cup {e}) = Cardinality(S) + 1
BY Countable, FS_AddElement

LEMMA RemoveOne ==
    ASSUME NEW S \in SUBSET Events, NEW e \in S
    PROVE  Cardinality(S \ {e}) = Cardinality(S) - 1
BY Countable, FS_RemoveElement

\* Every action keeps the invariant.  What moves is one event into or out of
\* Holders or Group, with its counter.
LEMMA PoolStep == IInv /\ [Next]_vars => IInv'
<1> SUFFICES ASSUME IInv, [Next]_vars PROVE IInv'
  OBVIOUS
<1>0. /\ TypeOK /\ TaskShape /\ StopDrains
      /\ workerSem = Cardinality(Holders)
      /\ wg = Cardinality(Group)
  BY DEF IInv, PoolAccounted, Holders, Group
<1>a. Holders \in SUBSET Events /\ Group \in SUBSET Events
  BY DEF Holders, Group
<1>b. /\ Holders' \in SUBSET Events /\ Group' \in SUBSET Events
      /\ Cardinality(Group') \in 0 .. Cardinality(Events)
  <2>1. Holders' \in SUBSET Events /\ Group' \in SUBSET Events
    BY DEF Holders, Group
  <2> QED BY <2>1, Countable
<1>c. ASSUME workerSem' = Cardinality(Holders'), wg' = Cardinality(Group'),
             TypeOK', TaskShape', StopDrains'
      PROVE  IInv'
  BY <1>c DEF IInv, PoolAccounted, Holders, Group
<1> USE CapacityNat
<1>1. ASSUME NEW e \in Events, Enter(e) PROVE IInv'
  <2>1. TypeOK' /\ TaskShape' /\ StopDrains'
    BY <1>0, <1>1 DEF Enter, TypeOK, TaskShape, StopDrains
  <2>2. Holders' = Holders /\ Group' = Group
    BY <1>0, <1>1 DEF Enter, TypeOK, Holders, Group
  <2> QED BY <1>0, <1>1, <1>c, <2>1, <2>2 DEF Enter
<1>2. ASSUME NEW e \in Events, Acquire(e) PROVE IInv'
  <2>1. TypeOK' /\ TaskShape' /\ StopDrains'
    BY <1>0, <1>2 DEF Acquire, TypeOK, TaskShape, StopDrains
  <2>2. e \notin Holders /\ Holders' = Holders \cup {e} /\ Group' = Group
    BY <1>0, <1>2 DEF Acquire, TypeOK, TaskShape, Holders, Group
  <2>3. Cardinality(Holders') = Cardinality(Holders) + 1
    BY <1>a, <2>2, AddOne
  <2> QED BY <1>0, <1>2, <1>c, <2>1, <2>2, <2>3 DEF Acquire
<1>3. ASSUME NEW e \in Events, GiveUp(e) PROVE IInv'
  <2>1. TypeOK' /\ TaskShape' /\ StopDrains'
    BY <1>0, <1>3 DEF GiveUp, TypeOK, TaskShape, StopDrains
  <2>2. Holders' = Holders /\ Group' = Group
    BY <1>0, <1>3 DEF GiveUp, TypeOK, Holders, Group
  <2> QED BY <1>0, <1>3, <1>c, <2>1, <2>2 DEF GiveUp
<1>4. ASSUME NEW e \in Events, Spawn(e) PROVE IInv'
  <2>1. e \notin Group /\ Group' = Group \cup {e} /\ Holders' = Holders
    BY <1>0, <1>4 DEF Spawn, TypeOK, TaskShape, Holders, Group
  <2>2. Cardinality(Group') = Cardinality(Group) + 1
    BY <1>a, <2>1, AddOne
  <2>3. wg' = Cardinality(Group') /\ wg' \in 0 .. Cardinality(Events)
    BY <1>0, <1>4, <1>b, <2>2 DEF Spawn
  <2>4. TypeOK'
    BY <1>0, <1>4, <2>3 DEF Spawn, TypeOK
  <2>5. task[e] = "none"
    BY <1>0, <1>4 DEF Spawn, TypeOK, TaskShape
  <2>6. TaskShape' /\ StopDrains'
    BY <1>0, <1>4, <2>5 DEF Spawn, TypeOK, TaskShape, StopDrains
  <2> QED BY <1>0, <1>4, <1>c, <2>1, <2>3, <2>4, <2>6 DEF Spawn
<1>5. ASSUME NEW e \in Events, FreeSlot(e) PROVE IInv'
  <2>1. e \in Holders /\ Holders' = Holders \ {e} /\ Group' = Group
    BY <1>0, <1>5 DEF FreeSlot, TypeOK, TaskShape, Holders, Group
  <2>2. Cardinality(Holders') = Cardinality(Holders) - 1
    BY <1>a, <2>1, RemoveOne
  <2>3. Holders # {} /\ Cardinality(Holders) \in Nat /\ Cardinality(Holders) # 0
    BY <1>a, <2>1, Countable
  <2>4. TypeOK'
    BY <1>0, <1>5, <2>3 DEF FreeSlot, TypeOK
  <2>5. TaskShape' /\ StopDrains'
    BY <1>0, <1>5 DEF FreeSlot, TypeOK, TaskShape, StopDrains
  <2> QED BY <1>0, <1>5, <1>c, <2>1, <2>2, <2>4, <2>5 DEF FreeSlot
<1>6. ASSUME NEW e \in Events, WgDone(e) PROVE IInv'
  <2>1. e \in Group /\ Group' = Group \ {e} /\ Holders' = Holders
    BY <1>0, <1>6 DEF WgDone, TypeOK, TaskShape, Holders, Group
  <2>2. Cardinality(Group') = Cardinality(Group) - 1
    BY <1>a, <2>1, RemoveOne
  <2>3. wg' = Cardinality(Group')
    BY <1>0, <1>6, <2>2 DEF WgDone
  <2>4. TypeOK'
    BY <1>0, <1>6, <1>b, <2>3 DEF WgDone, TypeOK
  <2>5. TaskShape' /\ StopDrains'
    BY <1>0, <1>6 DEF WgDone, TypeOK, TaskShape, StopDrains
  <2> QED BY <1>0, <1>6, <1>c, <2>1, <2>3, <2>4, <2>5 DEF WgDone
<1>7. CASE Stop
  <2>1. TypeOK' /\ TaskShape' /\ StopDrains'
    BY <1>0, <1>7 DEF Stop, TypeOK, TaskShape, StopDrains
  <2>2. Holders' = Holders /\ Group' = Group
    BY <1>7 DEF Stop, Holders, Group
  <2> QED BY <1>0, <1>7, <1>c, <2>1, <2>2 DEF Stop
<1>8. CASE ReturnNil
  <2>1. Group = {}
    BY <1>0, <1>8, <1>a, Countable DEF ReturnNil
  <2>2. \A e \in inFlight : task[e] = "done"
    BY <1>0, <2>1 DEF Group, TypeOK, TaskShape
  <2>3. TypeOK' /\ TaskShape' /\ StopDrains'
    BY <1>0, <1>8, <2>2 DEF ReturnNil, TypeOK, TaskShape, StopDrains
  <2>4. Holders' = Holders /\ Group' = Group
    BY <1>8 DEF ReturnNil, Holders, Group
  <2> QED BY <1>0, <1>8, <1>c, <2>3, <2>4 DEF ReturnNil
<1>9. CASE ReturnCtxErr
  <2>1. TypeOK' /\ TaskShape' /\ StopDrains'
    BY <1>0, <1>9 DEF ReturnCtxErr, TypeOK, TaskShape, StopDrains
  <2>2. Holders' = Holders /\ Group' = Group
    BY <1>9 DEF ReturnCtxErr, Holders, Group
  <2> QED BY <1>0, <1>9, <1>c, <2>1, <2>2 DEF ReturnCtxErr
<1>10. CASE UNCHANGED vars
  <2>1. TypeOK' /\ TaskShape' /\ StopDrains'
    BY <1>0, <1>10 DEF vars, TypeOK, TaskShape, StopDrains
  <2>2. Holders' = Holders /\ Group' = Group
    BY <1>10 DEF vars, Holders, Group
  <2> QED BY <1>0, <1>10, <1>c, <2>1, <2>2 DEF vars
<1> QED
  BY <1>1, <1>2, <1>3, <1>4, <1>5, <1>6, <1>7, <1>8, <1>9, <1>10 DEF Next

LEMMA PoolInvariant == Spec => []IInv
<1>1. Init => IInv
  <2> SUFFICES ASSUME Init PROVE IInv
    OBVIOUS
  <2>1. Holders = {} /\ Group = {}
    BY DEF Init, Holders, Group
  <2>2. Cardinality(Events) \in Nat
    BY FS_CardinalityType
  <2>3. TypeOK
    <3>1. workerSem \in 0 .. Capacity /\ wg \in 0 .. Cardinality(Events)
      BY <2>2, CapacityNat DEF Init
    <3>2. /\ call \in [Events -> {"new", "blocked", "slot", "nil", "error"}]
          /\ task \in [Events -> {"none", "running", "slotFreed", "done"}]
      BY DEF Init
    <3> QED BY <3>1, <3>2 DEF Init, TypeOK
  <2>4. TaskShape /\ StopDrains
    BY DEF Init, TaskShape, StopDrains
  <2>5. PoolAccounted
    BY <2>1, FS_EmptySet DEF Init, PoolAccounted, Holders, Group
  <2> QED BY <2>3, <2>4, <2>5 DEF IInv
<1> QED BY <1>1, PoolStep, PTL DEF Spec

\* The semaphore and the wait group count exactly the goroutines they stand
\* for, at every moment of any number of calls of Enqueue and of Stop.
THEOREM PoolIsAccounted == Spec => []PoolAccounted
<1>1. IInv => PoolAccounted
  BY DEF IInv
<1> QED BY <1>1, PoolInvariant, PTL

\* A nil from Stop means that the work in flight at the call is done; the
\* counters' exactness is what makes wg = 0 say so.
THEOREM StopAlwaysDrains == Spec => []StopDrains
<1>1. IInv => StopDrains
  BY DEF IInv
<1> QED BY <1>1, PoolInvariant, PTL
=============================================================================
