--------------------------- MODULE ConsumerProofs ---------------------------
(***************************************************************************)
(* Proofs about Consumer, for any group, any partitions, any batch size    *)
(* and any number of faults and moves, and about Aggregation: it only adds *)
(* to what Consumer does, no settled record disappears but in the ways     *)
(* gone records, and every result that was delivered adds up, for windows  *)
(* of any size.                                                            *)
(***************************************************************************)
EXTENDS Aggregation, FiniteSetTheorems, WellFoundedInduction, TLAPS

\* Outside a batch nothing is left of one, and a commit is due only for a
\* record that was handed over.
BatchShape ==
    \A m \in Members :
        /\ \A p \in Partitions : next[m][p] <= limit[m][p]
        /\ pc[m] \notin {"each", "commit"} =>
              \A p \in Partitions : limit[m][p] = 0
        /\ pc[m] = "commit" => cur[m] \in Partitions

\* A member that is down has left the group and will start afresh.
DownShape ==
    \A m \in Members : pc[m] = "down" =>
        /\ ~cancelled[m]
        /\ \A p \in Partitions : owner[p] # m

\* What a live loop has taken from its batch, and everything before the
\* batch, has been handled.
BatchCovers ==
    \A m \in Members : ~cancelled[m] =>
        \A p \in Partitions : \A o \in 0 .. next[m][p] - 1 : <<p, o>> \in Handled

\* Records of p that m still has to hand to the handler.
Remaining(m, p) == next[m][p] .. limit[m][p] - 1

\* Below the fetch position of a live owner everything has been handled or
\* is still to come in the owner's batch.
PositionCovers ==
    \A p \in Partitions : \A m \in Members :
        owner[p] = m /\ ~cancelled[m] =>
            \A o \in 0 .. position[p] - 1 :
                <<p, o>> \in Handled \/ o \in Remaining(m, p)

IInv ==
    /\ TypeOK
    /\ BatchShape
    /\ DownShape
    /\ BatchCovers
    /\ PositionCovers
    /\ CommitCovers

\* A module-wide fact: the bounds are numbers.
USE RecordsAssumption, FetchAssumption, BoundsAssumption, NoneAssumption

-----------------------------------------------------------------------------
(* Type correctness                                                        *)

\* Every action keeps the types, whatever else holds.
LEMMA TypeStep == TypeOK /\ [Next]_vars => TypeOK'
<1> SUFFICES ASSUME TypeOK, [Next]_vars PROVE TypeOK'
  OBVIOUS
<1> USE DEF TypeOK, PCs
<1>1. ASSUME NEW m \in Members, Start(m) PROVE TypeOK'
  BY <1>1 DEF Start, groupVars, history
<1>2. ASSUME NEW m \in Members, Check(m) PROVE TypeOK'
  BY <1>2 DEF Check, groupVars, history
<1>3. ASSUME NEW m \in Members, Poll(m) PROVE TypeOK'
  <2>1. PICK take \in [Partitions -> 0 .. FetchMax] :
           /\ CanTake(m, take)
           /\ next' = [next EXCEPT ![m] =
                      [p \in Partitions |-> IF take[p] > 0 THEN position[p] ELSE 0]]
           /\ limit' = [limit EXCEPT ![m] =
                      [p \in Partitions |->
                         IF take[p] > 0 THEN position[p] + take[p] ELSE 0]]
           /\ position' = [p \in Partitions |-> position[p] + take[p]]
    BY <1>3 DEF Poll
  <2>2. \A p \in Partitions : position[p] + take[p] \in 0 .. NumRecords
    BY <2>1 DEF CanTake
  <2>3. position' \in [Partitions -> 0 .. NumRecords]
    BY <2>1, <2>2
  <2>4. next' \in [Members -> [Partitions -> 0 .. NumRecords]]
    BY <2>1
  <2>5. limit' \in [Members -> [Partitions -> 0 .. NumRecords]]
    BY <2>1, <2>2
  <2> QED BY <2>3, <2>4, <2>5, <1>3 DEF Poll, history
<1>4. ASSUME NEW m \in Members, EmptyPoll(m) PROVE TypeOK'
  BY <1>4 DEF EmptyPoll, groupVars, history
<1>5. ASSUME NEW m \in Members, NEW p \in Partitions, Turn(m, p), HandOver(m, p)
      PROVE /\ next' \in [Members -> [Partitions -> 0 .. NumRecords]]
            /\ cur' \in [Members -> Partitions \cup {None}]
            /\ <<p, next[m][p]>> \in Records
  BY <1>5 DEF Turn, HandOver, Records, Offsets
<1>6. ASSUME NEW m \in Members, NEW p \in Partitions,
             HandleSettled(m, p) \/ HandleFailed(m, p) \/ HandleCancelled(m, p)
      PROVE TypeOK'
  BY <1>5, <1>6 DEF HandleSettled, HandleFailed, HandleCancelled, groupVars, history
<1>7. ASSUME NEW m \in Members, CommitRecord(m) PROVE TypeOK'
  <2>1. CASE cur[m] \in Partitions
    <3>1. next[m][cur[m]] \in 0 .. NumRecords
      BY <2>1
    <3> QED BY <1>7, <2>1, <3>1 DEF CommitRecord, history
  <2>2. CASE cur[m] = None
    BY <1>7, <2>2 DEF CommitRecord, history
  <2> QED BY <2>1, <2>2
<1>8. ASSUME NEW m \in Members, CommitFailed(m) PROVE TypeOK'
  BY <1>8 DEF CommitFailed, groupVars, history
<1>9. ASSUME NEW m \in Members, EndBatch(m) PROVE TypeOK'
  BY <1>9 DEF EndBatch, groupVars, history, NoBatch
<1>10. ASSUME NEW m \in Members, StopCancel(m) PROVE TypeOK'
  BY <1>10 DEF StopCancel, groupVars, history
<1>11. ASSUME NEW m \in Members, StopClose(m) PROVE TypeOK'
  BY <1>11 DEF StopClose, Released, history
<1>12. ASSUME NEW m \in Members, Crash(m) PROVE TypeOK'
  BY <1>12 DEF Crash, Released, NoBatch, history
<1>13. ASSUME NEW m \in Members, NEW p \in Partitions, Assign(m, p) \/ Move(m, p)
       PROVE TypeOK'
  <2>1. /\ owner' \in [Partitions -> Members \cup {None}]
        /\ position' \in [Partitions -> 0 .. NumRecords]
    BY <1>13 DEF Assign, Move, GiveTo
  <2>2. CASE Assign(m, p)
    BY <2>1, <2>2 DEF Assign, loopVars, history
  <2>3. CASE Move(m, p)
    BY <2>1, <2>3 DEF Move, loopVars, history
  <2> QED BY <1>13, <2>2, <2>3
<1>14. CASE UNCHANGED vars
  BY <1>14 DEF vars
<1> QED
  BY <1>1, <1>2, <1>3, <1>4, <1>6, <1>7, <1>8, <1>9, <1>10, <1>11, <1>12, <1>13,
     <1>14 DEF Next, LoopStep

\* The variables keep their types: offsets, positions and batches stay
\* within the log, whatever the order of polls, commits, moves and crashes.
THEOREM TypeCorrect == Spec => []TypeOK
<1>1. Init => TypeOK
  BY DEF Init, TypeOK, NoBatch, PCs
<1> QED BY <1>1, TypeStep, PTL DEF Spec

-----------------------------------------------------------------------------
(* Coverage                                                                *)

\* Every action preserves the inductive invariant.
LEMMA CoverStep == IInv /\ [Next]_vars => IInv'
<1> SUFFICES ASSUME IInv, [Next]_vars PROVE IInv'
  OBVIOUS
<1> USE DEF IInv
<1>type. TypeOK'
  BY TypeStep
<1>1. ASSUME NEW m \in Members, Start(m) PROVE IInv'
  BY <1>1, <1>type DEF Start, groupVars, history, TypeOK, BatchShape, DownShape,
     BatchCovers, PositionCovers, CommitCovers, Handled, Remaining
<1>2. ASSUME NEW m \in Members, Check(m) PROVE IInv'
  BY <1>2, <1>type DEF Check, groupVars, history, TypeOK, BatchShape, DownShape,
     BatchCovers, PositionCovers, CommitCovers, Handled, Remaining
<1>3. ASSUME NEW m \in Members, Poll(m) PROVE IInv'
  <2>1. PICK take \in [Partitions -> 0 .. FetchMax] :
           /\ CanTake(m, take)
           /\ next' = [next EXCEPT ![m] =
                      [p \in Partitions |-> IF take[p] > 0 THEN position[p] ELSE 0]]
           /\ limit' = [limit EXCEPT ![m] =
                      [p \in Partitions |->
                         IF take[p] > 0 THEN position[p] + take[p] ELSE 0]]
           /\ position' = [p \in Partitions |-> position[p] + take[p]]
    BY <1>3 DEF Poll
  <2>2. /\ pc[m] = "poll"
        /\ pc' = [pc EXCEPT ![m] = "each"]
        /\ UNCHANGED <<committed, owner, cur, cancelled, settled, failed>>
    BY <1>3 DEF Poll, history
  <2>3. \A p \in Partitions : take[p] > 0 => owner[p] = m
    BY <2>1 DEF CanTake
  <2>4. \A p \in Partitions : limit[m][p] = 0
    BY <2>2 DEF BatchShape, TypeOK
  <2>5. BatchShape'
    BY <2>1, <2>2 DEF BatchShape, TypeOK
  <2>6. DownShape' /\ CommitCovers'
    BY <2>2 DEF DownShape, CommitCovers, Handled, TypeOK
  <2>7. BatchCovers'
    <3> SUFFICES ASSUME NEW q \in Members, ~cancelled[q], NEW p \in Partitions,
                        NEW o \in 0 .. next'[q][p] - 1
                 PROVE <<p, o>> \in Handled
      BY <2>2 DEF BatchCovers, Handled
    <3>1. CASE q # m
      BY <3>1, <2>1 DEF BatchCovers, TypeOK
    <3>2. CASE q = m
      <4>1. take[p] > 0 /\ o \in 0 .. position[p] - 1
        BY <3>2, <2>1 DEF TypeOK
      <4>2. owner[p] = m
        BY <4>1, <2>3
      <4>3. o \notin Remaining(m, p)
        BY <2>4 DEF Remaining, TypeOK
      <4> QED BY <3>2, <4>1, <4>2, <4>3 DEF PositionCovers
    <3> QED BY <3>1, <3>2
  <2>8. PositionCovers'
    <3> SUFFICES ASSUME NEW p \in Partitions, NEW q \in Members, owner[p] = q,
                        ~cancelled[q], NEW o \in 0 .. position'[p] - 1,
                        <<p, o>> \notin Handled
                 PROVE o \in Remaining(q, p)'
      BY <2>2 DEF PositionCovers, Handled
    <3>1. o < position[p] => o \in Remaining(q, p)
      BY DEF PositionCovers, TypeOK
    <3>2. CASE q # m
      <4>1. take[p] = 0
        BY <3>2, <2>3
      <4>2. o < position[p]
        BY <4>1, <2>1 DEF TypeOK
      <4> QED BY <3>1, <3>2, <4>2, <2>1 DEF Remaining, TypeOK
    <3>3. CASE q = m
      <4>1. ~(o < position[p])
        BY <3>1, <3>3, <2>4 DEF Remaining, TypeOK
      <4> QED BY <4>1, <3>3, <2>1 DEF Remaining, TypeOK
    <3> QED BY <3>2, <3>3
  <2> QED BY <1>type, <2>5, <2>6, <2>7, <2>8
<1>4. ASSUME NEW m \in Members, EmptyPoll(m) PROVE IInv'
  BY <1>4, <1>type DEF EmptyPoll, groupVars, history, TypeOK, BatchShape, DownShape,
     BatchCovers, PositionCovers, CommitCovers, Handled, Remaining
<1>5. ASSUME NEW m \in Members, NEW p \in Partitions, Turn(m, p), HandOver(m, p),
             UNCHANGED <<committed, owner, position, limit, cancelled>>,
             pc' = pc \/ pc' = [pc EXCEPT ![m] = "commit"],
             Handled \subseteq Handled',
             ~cancelled[m] => <<p, next[m][p]>> \in Handled'
      PROVE IInv'
  <2>1. /\ pc[m] = "each"
        /\ next[m][p] < limit[m][p]
        /\ next' = [next EXCEPT ![m] = [next[m] EXCEPT ![p] = next[m][p] + 1]]
        /\ cur' = [cur EXCEPT ![m] = p]
    BY <1>5 DEF Turn, HandOver, TypeOK
  <2>a. ASSUME NEW q \in Members, NEW r \in Partitions
        PROVE /\ next'[q][r] = IF q = m /\ r = p THEN next[m][p] + 1 ELSE next[q][r]
              /\ next[q][r] \in Nat /\ limit[q][r] \in Nat
    BY <2>1 DEF TypeOK
  <2>2. BatchShape'
    BY <1>5, <2>1 DEF BatchShape, TypeOK
  <2>3. DownShape' /\ CommitCovers'
    BY <1>5, <2>1 DEF DownShape, CommitCovers, TypeOK
  <2>4. BatchCovers'
    <3> SUFFICES ASSUME NEW q \in Members, ~cancelled[q], NEW r \in Partitions,
                        NEW o \in 0 .. next'[q][r] - 1
                 PROVE <<r, o>> \in Handled'
      BY <1>5 DEF BatchCovers
    <3>1. CASE o \in 0 .. next[q][r] - 1
      BY <3>1, <1>5 DEF BatchCovers
    <3>2. CASE o \notin 0 .. next[q][r] - 1
      <4>1. q = m /\ r = p /\ o = next[m][p]
        BY <3>2, <2>a
      <4> QED BY <4>1, <1>5
    <3> QED BY <3>1, <3>2
  <2>5. PositionCovers'
    <3> SUFFICES ASSUME NEW r \in Partitions, NEW q \in Members, owner[r] = q,
                        ~cancelled[q], NEW o \in 0 .. position[r] - 1,
                        <<r, o>> \notin Handled'
                 PROVE o \in Remaining(q, r)'
      BY <1>5 DEF PositionCovers
    <3>1. o \in Remaining(q, r)
      BY <1>5 DEF PositionCovers
    <3>2. ~(q = m /\ r = p /\ o = next[m][p])
      BY <1>5
    <3>3. limit' = limit
      BY <1>5
    <3> QED BY <3>1, <3>2, <3>3, <2>a DEF Remaining
  <2> QED BY <1>type, <2>2, <2>3, <2>4, <2>5
<1>6. ASSUME NEW m \in Members, NEW p \in Partitions,
             HandleSettled(m, p) \/ HandleFailed(m, p) \/ HandleCancelled(m, p)
      PROVE IInv'
  BY <1>5, <1>6 DEF HandleSettled, HandleFailed, HandleCancelled, groupVars,
     history, Handled
<1>7. ASSUME NEW m \in Members, CommitRecord(m) PROVE IInv'
  <2>1. /\ pc[m] = "commit"
        /\ ~cancelled[m]
        /\ cur[m] \in Partitions
        /\ committed' = [committed EXCEPT ![cur[m]] = next[m][cur[m]]]
        /\ pc' = [pc EXCEPT ![m] = "each"]
        /\ UNCHANGED <<owner, position, next, limit, cur, cancelled, settled, failed>>
    BY <1>7 DEF CommitRecord, BatchShape, history
  <2>2. BatchShape' /\ DownShape'
    BY <2>1 DEF BatchShape, DownShape, TypeOK
  <2>3. BatchCovers' /\ PositionCovers'
    BY <2>1 DEF BatchCovers, PositionCovers, Handled, Remaining
  <2>4. CommitCovers'
    BY <2>1 DEF CommitCovers, BatchCovers, Handled, TypeOK
  <2> QED BY <1>type, <2>2, <2>3, <2>4
<1>8. ASSUME NEW m \in Members, CommitFailed(m) PROVE IInv'
  BY <1>8, <1>type DEF CommitFailed, groupVars, history, TypeOK, BatchShape, DownShape,
     BatchCovers, PositionCovers, CommitCovers, Handled, Remaining
<1>9. ASSUME NEW m \in Members, EndBatch(m) PROVE IInv'
  BY <1>9, <1>type DEF EndBatch, groupVars, history, TypeOK, BatchShape, DownShape,
     BatchCovers, PositionCovers, CommitCovers, Handled, Remaining, BatchOver, NoBatch
<1>10. ASSUME NEW m \in Members, StopCancel(m) PROVE IInv'
  BY <1>10, <1>type DEF StopCancel, groupVars, history, TypeOK, BatchShape, DownShape,
     BatchCovers, PositionCovers, CommitCovers, Handled, Remaining, InGroup
<1>11. ASSUME NEW m \in Members, StopClose(m) PROVE IInv'
  BY <1>11, <1>type DEF StopClose, Released, history, TypeOK, BatchShape, DownShape,
     BatchCovers, PositionCovers, CommitCovers, Handled, Remaining
<1>12. ASSUME NEW m \in Members, Crash(m) PROVE IInv'
  BY <1>12, <1>type DEF Crash, Released, NoBatch, history, TypeOK, BatchShape, DownShape,
     BatchCovers, PositionCovers, CommitCovers, Handled, Remaining
<1>13. ASSUME NEW m \in Members, NEW p \in Partitions, Assign(m, p) \/ Move(m, p)
       PROVE IInv'
  <2>1. /\ pc[m] # "down"
        /\ owner' = [owner EXCEPT ![p] = m]
        /\ position' = [position EXCEPT ![p] = committed[p]]
        /\ UNCHANGED <<committed, pc, next, limit, cur, cancelled, settled, failed>>
    BY <1>13 DEF Assign, Move, GiveTo, InGroup, loopVars, history
  <2>2. BatchShape' /\ DownShape' /\ BatchCovers' /\ CommitCovers'
    BY <2>1 DEF BatchShape, DownShape, BatchCovers, CommitCovers, Handled, TypeOK
  <2>3. PositionCovers'
    BY <2>1 DEF PositionCovers, CommitCovers, Handled, Remaining, TypeOK
  <2> QED BY <1>type, <2>2, <2>3
<1>14. CASE UNCHANGED vars
  BY <1>14, <1>type DEF vars, BatchShape, DownShape, BatchCovers, PositionCovers,
     CommitCovers, Handled, Remaining
<1> QED
  BY <1>1, <1>2, <1>3, <1>4, <1>6, <1>7, <1>8, <1>9, <1>10, <1>11, <1>12, <1>13, <1>14
  DEF Next, LoopStep

\* The inductive invariant holds in every reachable state.
LEMMA Covered == Spec => []IInv
<1>1. Init => IInv
  BY DEF Init, IInv, TypeOK, NoBatch, PCs, BatchShape, DownShape, BatchCovers,
     PositionCovers, CommitCovers
<1> QED BY <1>1, CoverStep, PTL DEF Spec

\* The committed offset of a partition never passes a record whose handler
\* did not run to an outcome in a live context: for any number of members,
\* any batch size and any interleaving of rebalances, late commits, crashes
\* and the drain of a batch after Stop has cancelled the context.
THEOREM CommitsAreCovered == Spec => []CommitCovers
<1>1. IInv => CommitCovers
  BY DEF IInv
<1> QED BY <1>1, Covered, PTL

-----------------------------------------------------------------------------
(* Refinement                                                              *)

\* Every step of the group is a step of the ledger, or leaves it alone.
LEMMA LedgerStep == IInv /\ [Next]_vars => [Ledger!Next]_(Ledger!vars)
<1> SUFFICES ASSUME IInv, [Next]_vars PROVE [Ledger!Next]_(Ledger!vars)
  OBVIOUS
<1> USE DEF IInv
<1>1. ASSUME NEW m \in Members, NEW p \in Partitions,
             HandleSettled(m, p) \/ HandleFailed(m, p)
      PROVE Ledger!Next
  <2>1. /\ Handled' = Handled \cup {<<p, next[m][p]>>}
        /\ UNCHANGED committed
    BY <1>1 DEF HandleSettled, HandleFailed, Handled, groupVars
  <2>2. <<p, next[m][p]>> \in Ledger!Records
    BY <1>1 DEF HandleSettled, HandleFailed, Turn, TypeOK, Ledger!Records
  <2>3. Ledger!Report(<<p, next[m][p]>>)
    BY <2>1 DEF Ledger!Report
  <2> QED BY <2>2, <2>3 DEF Ledger!Next
<1>2. ASSUME NEW m \in Members, CommitRecord(m) PROVE Ledger!Next
  <2>1. /\ cur[m] \in Partitions
        /\ ~cancelled[m]
        /\ next[m][cur[m]] \in 0 .. NumRecords
        /\ committed' = [committed EXCEPT ![cur[m]] = next[m][cur[m]]]
        /\ UNCHANGED Handled
    BY <1>2 DEF CommitRecord, BatchShape, TypeOK, Handled, history
  <2>2. \A b \in 0 .. next[m][cur[m]] - 1 : <<cur[m], b>> \in Handled
    BY <2>1 DEF BatchCovers
  <2>3. Ledger!Place(cur[m], next[m][cur[m]])
    BY <2>1, <2>2 DEF Ledger!Place
  <2> QED BY <2>1, <2>3 DEF Ledger!Next
<1>3. ASSUME NEW m \in Members,
             \/ Start(m) \/ Check(m) \/ Poll(m) \/ EmptyPoll(m) \/ CommitFailed(m)
             \/ EndBatch(m) \/ StopCancel(m) \/ StopClose(m) \/ Crash(m)
             \/ \E p \in Partitions :
                   HandleCancelled(m, p) \/ Assign(m, p) \/ Move(m, p)
      PROVE UNCHANGED <<committed, settled, failed>>
  BY <1>3 DEF Start, Check, Poll, EmptyPoll, CommitFailed, EndBatch, StopCancel,
     StopClose, Crash, HandleCancelled, Assign, Move, groupVars, history
<1>4. UNCHANGED <<committed, settled, failed>> => UNCHANGED Ledger!vars
  BY DEF Ledger!vars, Handled
<1>5. UNCHANGED vars => UNCHANGED <<committed, settled, failed>>
  BY DEF vars
<1> QED BY <1>1, <1>2, <1>3, <1>4, <1>5 DEF Next, LoopStep

\* The consumer group implements the offset ledger, with the records handled
\* so far as the ledger's `done'.
THEOREM RefinesLedger == Spec => ImplementsLedger
<1>1. Init => Ledger!Init
  BY DEF Init, Ledger!Init, Handled
<1> QED BY <1>1, LedgerStep, Covered, PTL DEF Spec, ImplementsLedger, Ledger!Spec

-----------------------------------------------------------------------------
(* Commits go forward while no live member loses a partition               *)

\* Without moves a batch belongs to the owner of its partition, and lies
\* between the committed offset and the fetch position.
Forward ==
    moves = 0 =>
        /\ \A p \in Partitions : owner[p] # None => committed[p] <= position[p]
        /\ \A m \in Members : \A p \in Partitions : limit[m][p] > 0 =>
              /\ owner[p] = m
              /\ committed[p] <= next[m][p]
              /\ limit[m][p] <= position[p]
        /\ \A m \in Members : pc[m] = "commit" => limit[m][cur[m]] > 0

\* Every action keeps Forward, and none that keeps moves at zero puts a
\* committed offset back.
LEMMA ForwardStep ==
    IInv /\ Forward /\ [Next]_vars =>
        /\ Forward'
        /\ moves = 0 => \A p \in Partitions : committed'[p] >= committed[p]
<1> SUFFICES ASSUME IInv, Forward, [Next]_vars
             PROVE /\ Forward'
                   /\ moves = 0 => \A p \in Partitions : committed'[p] >= committed[p]
  OBVIOUS
<1> DEFINE Goal == /\ Forward'
                   /\ moves = 0 => \A p \in Partitions : committed'[p] >= committed[p]
<1> USE DEF IInv, TypeOK
<1>1. ASSUME NEW m \in Members,
             \/ Start(m) \/ Check(m) \/ EmptyPoll(m) \/ StopCancel(m) \/ CommitFailed(m)
      PROVE Goal
  BY <1>1 DEF Start, Check, EmptyPoll, StopCancel, CommitFailed, Forward, groupVars
<1>2. ASSUME NEW m \in Members, Poll(m) PROVE Goal
  <2>1. PICK take \in [Partitions -> 0 .. FetchMax] :
           /\ CanTake(m, take)
           /\ next' = [next EXCEPT ![m] =
                      [p \in Partitions |-> IF take[p] > 0 THEN position[p] ELSE 0]]
           /\ limit' = [limit EXCEPT ![m] =
                      [p \in Partitions |->
                         IF take[p] > 0 THEN position[p] + take[p] ELSE 0]]
           /\ position' = [p \in Partitions |-> position[p] + take[p]]
    BY <1>2 DEF Poll
  <2>2. pc' = [pc EXCEPT ![m] = "each"] /\ UNCHANGED <<committed, owner, cur, moves>>
    BY <1>2 DEF Poll
  <2>3. \A p \in Partitions : take[p] > 0 => owner[p] = m
    BY <2>1 DEF CanTake
  <2>4. \A p \in Partitions : position'[p] >= position[p]
    BY <2>1
  <2>5. ASSUME moves = 0, NEW q \in Members, NEW p \in Partitions, limit'[q][p] > 0
        PROVE owner[p] = q /\ committed[p] <= next'[q][p] /\ limit'[q][p] <= position'[p]
    <3>1. CASE q = m
      <4>1. take[p] > 0
        BY <3>1, <2>1, <2>5
      <4>2. owner[p] = m /\ committed[p] <= position[p]
        BY <4>1, <2>3, <2>5, NoneAssumption DEF Forward
      <4> QED BY <3>1, <4>1, <4>2, <2>1
    <3>2. CASE q # m
      <4>1. next'[q] = next[q] /\ limit'[q] = limit[q]
        BY <3>2, <2>1
      <4>2. limit[q][p] \in Nat /\ position[p] \in Nat /\ position'[p] \in Nat
        BY <2>1
      <4>3. owner[p] = q /\ committed[p] <= next[q][p] /\ limit[q][p] <= position[p]
        BY <4>1, <2>5 DEF Forward
      <4> QED BY <4>1, <4>2, <4>3, <2>4
    <3> QED BY <3>1, <3>2
  <2>6. moves = 0 => \A q \in Members : pc'[q] = "commit" => limit'[q][cur'[q]] > 0
    BY <2>1, <2>2 DEF Forward
  <2>7. moves = 0 => \A p \in Partitions : owner[p] # None => committed[p] <= position'[p]
    BY <2>1, <2>4 DEF Forward
  <2> QED BY <2>2, <2>5, <2>6, <2>7 DEF Forward
<1>3. ASSUME NEW m \in Members, NEW p \in Partitions,
             HandleSettled(m, p) \/ HandleFailed(m, p) \/ HandleCancelled(m, p)
      PROVE Goal
  <2>1. /\ next[m][p] < limit[m][p]
        /\ next' = [next EXCEPT ![m] = [next[m] EXCEPT ![p] = next[m][p] + 1]]
        /\ cur' = [cur EXCEPT ![m] = p]
        /\ pc' = pc \/ pc' = [pc EXCEPT ![m] = "commit"]
        /\ pc[m] = "each"
        /\ UNCHANGED <<committed, owner, position, limit, moves>>
    BY <1>3 DEF HandleSettled, HandleFailed, HandleCancelled, Turn, HandOver, groupVars
  <2>2. ASSUME NEW q \in Members, NEW r \in Partitions
        PROVE next'[q][r] >= next[q][r]
    BY <2>1
  <2>3. moves = 0 => \A q \in Members : pc'[q] = "commit" => limit[q][cur'[q]] > 0
    BY <2>1 DEF Forward
  <2> QED BY <2>1, <2>2, <2>3 DEF Forward
<1>4. ASSUME NEW m \in Members, CommitRecord(m) PROVE Goal
  <2>1. /\ pc[m] = "commit" /\ cur[m] \in Partitions
        /\ committed' = [committed EXCEPT ![cur[m]] = next[m][cur[m]]]
        /\ pc' = [pc EXCEPT ![m] = "each"]
        /\ UNCHANGED <<owner, position, next, limit, cur, moves>>
    BY <1>4 DEF CommitRecord, BatchShape
  <2>2. moves = 0 => /\ committed[cur[m]] <= next[m][cur[m]]
                     /\ next[m][cur[m]] <= limit[m][cur[m]]
                     /\ limit[m][cur[m]] <= position[cur[m]]
                     /\ owner[cur[m]] = m
    BY <2>1 DEF Forward, BatchShape
  <2>3. moves = 0 => \A q \in Members, p \in Partitions :
                        limit[q][p] > 0 /\ p = cur[m] => q = m
    BY <2>2 DEF Forward
  <2> QED BY <2>1, <2>2, <2>3 DEF Forward
<1>5. ASSUME NEW m \in Members, EndBatch(m) PROVE Goal
  BY <1>5 DEF EndBatch, NoBatch, Forward, groupVars
<1>6. ASSUME NEW m \in Members, StopClose(m) PROVE Goal
  <2>1. /\ pc[m] \in {"exited", "aborted"}
        /\ pc' = [pc EXCEPT ![m] = "down"]
        /\ owner' = [p \in Partitions |-> IF owner[p] = m THEN None ELSE owner[p]]
        /\ UNCHANGED <<committed, position, next, limit, cur, moves>>
    BY <1>6 DEF StopClose, Released
  <2>2. \A p \in Partitions : limit[m][p] = 0
    BY <2>1 DEF BatchShape
  <2>3. \A p \in Partitions : owner'[p] # None => owner'[p] = owner[p]
    BY <2>1
  <2>4. \A q \in Members, p \in Partitions : limit[q][p] > 0 /\ owner[p] = q => owner'[p] = q
    BY <2>1, <2>2
  <2>5. \A q \in Members : pc'[q] = "commit" => pc[q] = "commit"
    BY <2>1
  <2> QED BY <2>1, <2>3, <2>4, <2>5 DEF Forward
<1>7. ASSUME NEW m \in Members, Crash(m) PROVE Goal
  BY <1>7 DEF Crash, Released, NoBatch, Forward
<1>8. ASSUME NEW m \in Members, NEW p \in Partitions, Assign(m, p) PROVE Goal
  BY <1>8 DEF Assign, GiveTo, loopVars, Forward
<1>9. ASSUME NEW m \in Members, NEW p \in Partitions, Move(m, p) PROVE Goal
  BY <1>9 DEF Move, Forward
<1>10. CASE UNCHANGED vars
  BY <1>10 DEF vars, Forward
<1> QED
  BY <1>1, <1>2, <1>3, <1>4, <1>5, <1>6, <1>7, <1>8, <1>9, <1>10 DEF Next, LoopStep

\* As long as no partition was taken from a live member, committed offsets
\* never go back.
THEOREM CommitsGoForward == Spec => CommitForward
<1>1. Init => Forward
  BY DEF Init, Forward, NoBatch
<1>2. IInv /\ Forward /\ [Next]_vars =>
        [moves = 0 => \A p \in Partitions : committed'[p] >= committed[p]]_vars
  BY ForwardStep
<1> QED BY <1>1, <1>2, ForwardStep, Covered, PTL DEF Spec, CommitForward

-----------------------------------------------------------------------------
(* One record per poll: nothing is lost                                    *)

\* A batch holds one record, and when its handler has failed, or its commit
\* is due, the batch is over.
OneRecord ==
    \A m \in Members :
        /\ \A p \in Partitions : limit[m][p] <= next[m][p] + 1
        /\ \A p, q \in Partitions :
              next[m][p] < limit[m][p] /\ next[m][q] < limit[m][q] => p = q
        /\ abortErr[m] => pc[m] = "each" /\ BatchOver(m)
        /\ pc[m] = "commit" => BatchOver(m)

\* The loop is neither cancelled nor on its way out after an error.
Healthy(m) == ~cancelled[m] /\ ~abortErr[m] /\ pc[m] # "aborted"

BatchSettled ==
    \A m \in Members : Healthy(m) =>
        \A p \in Partitions : \A o \in 0 .. next[m][p] - 1 : <<p, o>> \in settled

PositionSettled ==
    \A p \in Partitions : \A m \in Members : owner[p] = m /\ Healthy(m) =>
        \A o \in 0 .. position[p] - 1 : <<p, o>> \in settled \/ o \in Remaining(m, p)

SInv == IInv /\ OneRecord /\ BatchSettled /\ PositionSettled /\ NoLoss

\* A poll bounded by one record takes one record of one partition.
LEMMA TakeOne ==
    ASSUME FetchMax = 1, NEW take \in [Partitions -> 0 .. FetchMax],
           Cardinality(Taken(take)) <= FetchMax,
           NEW p \in Partitions, NEW q \in Partitions, take[p] > 0, take[q] > 0
    PROVE  p = q /\ take[p] = 1
<1>1. IsFiniteSet(Partitions \X (1 .. FetchMax))
  <2>1. IsFiniteSet(1 .. FetchMax)
    <3>1. 1 \in Int /\ FetchMax \in Int
      OBVIOUS
    <3> QED BY <3>1, FS_Interval
  <2> QED BY <2>1, PartitionsAssumption, FS_Product
<1>2. IsFiniteSet(Taken(take))
  BY <1>1, FS_Subset DEF Taken
<1>3. {<<p, 1>>, <<q, 1>>} \subseteq Taken(take)
  BY DEF Taken
<1>4. SUFFICES ASSUME p # q PROVE FALSE
  OBVIOUS
<1>5. <<p, 1>> # <<q, 1>>
  BY <1>4
<1>6. IsFiniteSet({<<p, 1>>}) /\ Cardinality({<<p, 1>>}) = 1
  BY FS_Singleton
<1>7. Cardinality({<<p, 1>>} \cup {<<q, 1>>}) = 2
  <2>1. <<q, 1>> \notin {<<p, 1>>}
    BY <1>5
  <2>2. Cardinality({<<p, 1>>} \cup {<<q, 1>>}) =
           IF <<q, 1>> \in {<<p, 1>>} THEN Cardinality({<<p, 1>>})
                                    ELSE Cardinality({<<p, 1>>}) + 1
    BY <1>6, FS_AddElement
  <2> QED BY <1>6, <2>1, <2>2
<1>8. Cardinality({<<p, 1>>} \cup {<<q, 1>>}) <= Cardinality(Taken(take))
  BY <1>2, <1>3, FS_Subset
<1>9. Cardinality(Taken(take)) \in Nat
  BY <1>2, FS_CardinalityType
<1> QED BY <1>7, <1>8, <1>9

\* With FetchMax = 1 every action preserves SInv.
LEMMA SettledStep == ASSUME FetchMax = 1 PROVE SInv /\ [Next]_vars => SInv'
<1> SUFFICES ASSUME SInv, [Next]_vars PROVE SInv'
  OBVIOUS
<1> USE DEF SInv
<1>ind. IInv /\ IInv'
  BY CoverStep
<1>type. TypeOK /\ TypeOK' /\ BatchShape /\ DownShape
  BY <1>ind DEF IInv
<1>1. ASSUME NEW m \in Members, Start(m) \/ Check(m) \/ EmptyPoll(m) \/ CommitFailed(m)
      PROVE SInv'
  <2>1. /\ UNCHANGED <<committed, owner, position, next, limit, abortErr, cancelled, settled>>
        /\ \E v \in {"check", "poll", "exited", "each"} : pc' = [pc EXCEPT ![m] = v]
        /\ pc[m] \in {"down", "check", "poll", "commit"}
    BY <1>1 DEF Start, Check, EmptyPoll, CommitFailed, groupVars, history
  <2>2. ~abortErr[m]
    BY <2>1 DEF OneRecord
  <2>3. \A q \in Members : /\ Healthy(q)' => Healthy(q)
                           /\ pc'[q] = "commit" => pc[q] = "commit"
                           /\ q # m => pc'[q] = pc[q]
    BY <2>1, <1>type DEF Healthy, TypeOK
  <2>4. OneRecord'
    BY <2>1, <2>2, <2>3 DEF OneRecord, BatchOver
  <2>5. BatchSettled' /\ PositionSettled' /\ NoLoss'
    BY <2>1, <2>3 DEF BatchSettled, PositionSettled, NoLoss, Remaining
  <2> QED BY <1>ind, <2>4, <2>5
<1>2. ASSUME NEW m \in Members, Poll(m) PROVE SInv'
  <2>1. PICK take \in [Partitions -> 0 .. FetchMax] :
           /\ CanTake(m, take)
           /\ next' = [next EXCEPT ![m] =
                      [p \in Partitions |-> IF take[p] > 0 THEN position[p] ELSE 0]]
           /\ limit' = [limit EXCEPT ![m] =
                      [p \in Partitions |->
                         IF take[p] > 0 THEN position[p] + take[p] ELSE 0]]
           /\ position' = [p \in Partitions |-> position[p] + take[p]]
    BY <1>2 DEF Poll
  <2>2. /\ pc[m] = "poll"
        /\ pc' = [pc EXCEPT ![m] = "each"]
        /\ UNCHANGED <<committed, owner, cur, abortErr, cancelled, settled>>
    BY <1>2 DEF Poll, history
  <2>3. \A p \in Partitions : take[p] > 0 => owner[p] = m /\ take[p] = 1
    BY <2>1 DEF CanTake
  <2>4. \A p, q \in Partitions : take[p] > 0 /\ take[q] > 0 => p = q
    BY <2>1, TakeOne DEF CanTake
  <2>5. /\ \A p \in Partitions : limit[m][p] = 0
        /\ ~abortErr[m]
    BY <2>2, <1>type DEF BatchShape, OneRecord, TypeOK
  <2>6. ASSUME NEW q \in Members, q # m
        PROVE next'[q] = next[q] /\ limit'[q] = limit[q] /\ pc'[q] = pc[q]
    BY <2>1, <2>2, <2>6, <1>type DEF TypeOK
  <2>7. ASSUME NEW p \in Partitions
        PROVE /\ next'[m][p] = IF take[p] > 0 THEN position[p] ELSE 0
              /\ limit'[m][p] = IF take[p] > 0 THEN position[p] + 1 ELSE 0
              /\ position'[p] = IF take[p] > 0 THEN position[p] + 1 ELSE position[p]
              /\ position[p] \in Nat
    BY <2>1, <2>3, <1>type DEF TypeOK
  <2>8. OneRecord'
    <3> SUFFICES ASSUME NEW q \in Members PROVE
           (/\ \A p \in Partitions : limit[q][p] <= next[q][p] + 1
            /\ \A p, r \in Partitions :
                  next[q][p] < limit[q][p] /\ next[q][r] < limit[q][r] => p = r
            /\ abortErr[q] => pc[q] = "each" /\ BatchOver(q)
            /\ pc[q] = "commit" => BatchOver(q))'
      BY DEF OneRecord
    <3>1. CASE q # m
      BY <3>1, <2>2, <2>6 DEF OneRecord, BatchOver
    <3>2. CASE q = m
      <4>1. \A p \in Partitions : limit'[m][p] <= next'[m][p] + 1
        BY <2>7
      <4>2. \A p, r \in Partitions :
               next'[m][p] < limit'[m][p] /\ next'[m][r] < limit'[m][r] => p = r
        BY <2>7, <2>4
      <4>3. ~abortErr'[m] /\ pc'[m] = "each"
        BY <2>2, <2>5, <1>type DEF TypeOK
      <4> QED BY <3>2, <4>1, <4>2, <4>3
    <3> QED BY <3>1, <3>2
  <2>9. \A q \in Members : Healthy(q)' => Healthy(q)
    BY <2>2, <1>type DEF Healthy, TypeOK
  <2>10. BatchSettled'
    <3> SUFFICES ASSUME NEW q \in Members, Healthy(q), NEW p \in Partitions,
                        NEW o \in 0 .. next'[q][p] - 1
                 PROVE <<p, o>> \in settled
      BY <2>2, <2>9 DEF BatchSettled
    <3>1. CASE q # m
      BY <3>1, <2>6 DEF BatchSettled
    <3>2. CASE q = m
      <4>1. take[p] > 0 /\ o \in 0 .. position[p] - 1
        BY <3>2, <2>7
      <4>2. o \notin Remaining(m, p)
        BY <2>5 DEF Remaining
      <4> QED BY <3>2, <4>1, <4>2, <2>3 DEF PositionSettled
    <3> QED BY <3>1, <3>2
  <2>11. PositionSettled'
    <3> SUFFICES ASSUME NEW p \in Partitions, NEW q \in Members, owner[p] = q,
                        Healthy(q), NEW o \in 0 .. position'[p] - 1,
                        <<p, o>> \notin settled
                 PROVE o \in Remaining(q, p)'
      BY <2>2, <2>9 DEF PositionSettled
    <3>1. o < position[p] => o \in Remaining(q, p)
      BY <2>7 DEF PositionSettled
    <3>2. CASE q # m
      BY <3>1, <3>2, <2>3, <2>6, <2>7 DEF Remaining
    <3>3. CASE q = m
      BY <3>1, <3>3, <2>5, <2>7 DEF Remaining
    <3> QED BY <3>2, <3>3
  <2>12. NoLoss'
    BY <2>2 DEF NoLoss
  <2> QED BY <1>ind, <2>8, <2>10, <2>11, <2>12
<1>3. ASSUME NEW m \in Members, NEW p \in Partitions,
             HandleSettled(m, p) \/ HandleFailed(m, p) \/ HandleCancelled(m, p)
      PROVE SInv'
  <2>1. /\ pc[m] = "each"
        /\ next[m][p] < limit[m][p]
        /\ next' = [next EXCEPT ![m] = [next[m] EXCEPT ![p] = next[m][p] + 1]]
        /\ pc' = pc \/ pc' = [pc EXCEPT ![m] = "commit"]
        /\ UNCHANGED <<committed, owner, position, limit, cancelled>>
        /\ settled \subseteq settled'
    BY <1>3, <1>type DEF HandleSettled, HandleFailed, HandleCancelled, Turn, HandOver,
       groupVars, history, TypeOK
  <2>2. /\ abortErr' = abortErr \/ (abortErr' = [abortErr EXCEPT ![m] = TRUE] /\ pc' = pc)
        /\ ~cancelled[m] /\ abortErr' = abortErr => <<p, next[m][p]>> \in settled'
    <3>1. ~abortErr[m]
      BY <2>1, <1>type DEF OneRecord, BatchOver, TypeOK
    <3>2. CASE HandleSettled(m, p)
      BY <3>2 DEF HandleSettled
    <3>3. CASE HandleFailed(m, p)
      BY <3>1, <3>3, <1>type DEF HandleFailed, TypeOK
    <3>4. CASE HandleCancelled(m, p)
      BY <3>4 DEF HandleCancelled
    <3> QED BY <1>3, <3>2, <3>3, <3>4
  <2>3. ASSUME NEW q \in Members, NEW r \in Partitions
        PROVE /\ next'[q][r] = IF q = m /\ r = p THEN next[m][p] + 1 ELSE next[q][r]
              /\ next[q][r] \in Nat /\ limit[q][r] \in Nat
    BY <2>1, <1>type DEF TypeOK
  <2>4. BatchOver(m)' /\ \A r \in Partitions : limit[m][r] <= next'[m][r] + 1
    <3> SUFFICES ASSUME NEW r \in Partitions
                 PROVE limit[m][r] <= next'[m][r] /\ limit[m][r] <= next'[m][r] + 1
      BY <2>1, <2>3 DEF BatchOver
    <3>1. CASE r = p
      BY <3>1, <2>3 DEF OneRecord
    <3>2. CASE r # p
      BY <3>2, <2>1, <2>3 DEF OneRecord
    <3> QED BY <3>1, <3>2
  <2>5. ASSUME NEW q \in Members, q # m
        PROVE next'[q] = next[q] /\ limit'[q] = limit[q] /\ pc'[q] = pc[q]
              /\ abortErr'[q] = abortErr[q] /\ cancelled'[q] = cancelled[q]
    BY <2>1, <2>2, <2>5, <1>type DEF TypeOK
  <2>6. OneRecord'
    <3> SUFFICES ASSUME NEW q \in Members PROVE
           (/\ \A r \in Partitions : limit[q][r] <= next[q][r] + 1
            /\ \A r, t \in Partitions :
                  next[q][r] < limit[q][r] /\ next[q][t] < limit[q][t] => r = t
            /\ abortErr[q] => pc[q] = "each" /\ BatchOver(q)
            /\ pc[q] = "commit" => BatchOver(q))'
      BY DEF OneRecord
    <3>1. CASE q # m
      BY <3>1, <2>5 DEF OneRecord, BatchOver
    <3>2. CASE q = m
      <4>1. abortErr'[m] => pc'[m] = "each"
        <5>1. ~abortErr[m]
          BY <2>1, <2>3 DEF OneRecord, BatchOver
        <5> QED BY <5>1, <2>1, <2>2, <1>type DEF TypeOK
      <4>2. \A r \in Partitions : ~(next'[m][r] < limit'[m][r])
        BY <2>1, <2>3, <2>4 DEF BatchOver
      <4> QED BY <3>2, <2>1, <2>4, <4>1, <4>2
    <3> QED BY <3>1, <3>2
  <2>7. ASSUME NEW q \in Members, Healthy(q)'
        PROVE Healthy(q) /\ (q = m => <<p, next[m][p]>> \in settled')
    BY <2>1, <2>2, <2>5, <2>7, <1>type DEF Healthy, TypeOK
  <2>8. BatchSettled'
    <3> SUFFICES ASSUME NEW q \in Members, Healthy(q)', NEW r \in Partitions,
                        NEW o \in 0 .. next'[q][r] - 1
                 PROVE <<r, o>> \in settled'
      BY DEF BatchSettled
    <3>1. CASE o \in 0 .. next[q][r] - 1
      BY <3>1, <2>1, <2>7 DEF BatchSettled
    <3>2. CASE o \notin 0 .. next[q][r] - 1
      <4>1. q = m /\ r = p /\ o = next[m][p]
        BY <3>2, <2>3
      <4> QED BY <4>1, <2>7
    <3> QED BY <3>1, <3>2
  <2>9. PositionSettled'
    <3> SUFFICES ASSUME NEW r \in Partitions, NEW q \in Members, owner[r] = q,
                        Healthy(q)', NEW o \in 0 .. position[r] - 1,
                        <<r, o>> \notin settled'
                 PROVE o \in Remaining(q, r)'
      BY <2>1 DEF PositionSettled
    <3>1. o \in Remaining(q, r)
      BY <2>1, <2>7 DEF PositionSettled
    <3>2. ~(q = m /\ r = p /\ o = next[m][p])
      BY <2>7
    <3>3. limit' = limit
      BY <2>1
    <3> QED BY <3>1, <3>2, <3>3, <2>3 DEF Remaining
  <2>10. NoLoss'
    BY <2>1 DEF NoLoss
  <2> QED BY <1>ind, <2>6, <2>8, <2>9, <2>10
<1>4. ASSUME NEW m \in Members, CommitRecord(m) PROVE SInv'
  <2>1. /\ pc[m] = "commit"
        /\ cur[m] \in Partitions
        /\ ~cancelled[m]
        /\ committed' = [committed EXCEPT ![cur[m]] = next[m][cur[m]]]
        /\ pc' = [pc EXCEPT ![m] = "each"]
        /\ UNCHANGED <<owner, position, next, limit, cur, abortErr, cancelled, settled>>
    BY <1>4, <1>type DEF CommitRecord, BatchShape, history
  <2>2. Healthy(m)
    BY <2>1 DEF Healthy, OneRecord
  <2>3. OneRecord'
    BY <2>1, <1>type DEF OneRecord, BatchOver, TypeOK
  <2>4. \A q \in Members : Healthy(q)' => Healthy(q)
    BY <2>1, <1>type DEF Healthy, TypeOK
  <2>5. BatchSettled' /\ PositionSettled'
    BY <2>1, <2>4 DEF BatchSettled, PositionSettled, Remaining
  <2>6. NoLoss'
    BY <2>1, <2>2, <1>type DEF NoLoss, BatchSettled, TypeOK
  <2> QED BY <1>ind, <2>3, <2>5, <2>6
<1>5. ASSUME NEW m \in Members, EndBatch(m) PROVE SInv'
  <2>1. /\ BatchOver(m)
        /\ pc[m] = "each"
        /\ pc' = [pc EXCEPT ![m] = IF abortErr[m] THEN "aborted" ELSE "check"]
        /\ next' = [next EXCEPT ![m] = NoBatch]
        /\ limit' = [limit EXCEPT ![m] = NoBatch]
        /\ abortErr' = [abortErr EXCEPT ![m] = FALSE]
        /\ UNCHANGED <<committed, owner, position, cancelled, settled>>
    BY <1>5 DEF EndBatch, groupVars, history
  <2>2. \A q \in Members : Healthy(q)' => Healthy(q)
    BY <2>1, <1>type DEF Healthy, TypeOK
  <2>3. OneRecord'
    BY <2>1, <1>type DEF OneRecord, BatchOver, NoBatch, TypeOK
  <2>4. BatchSettled' /\ NoLoss'
    BY <2>1, <2>2, <1>type DEF BatchSettled, NoLoss, NoBatch, TypeOK
  <2>5. PositionSettled'
    BY <2>1, <2>2, <1>type DEF PositionSettled, Remaining, BatchOver, NoBatch, TypeOK
  <2> QED BY <1>ind, <2>3, <2>4, <2>5
<1>6. ASSUME NEW m \in Members, StopCancel(m) PROVE SInv'
  BY <1>6, <1>ind, <1>type DEF StopCancel, groupVars, history, TypeOK, OneRecord, BatchOver,
     Healthy, BatchSettled, PositionSettled, NoLoss, Remaining
<1>7. ASSUME NEW m \in Members, StopClose(m) PROVE SInv'
  <2>1. /\ pc[m] \in {"exited", "aborted"}
        /\ pc' = [pc EXCEPT ![m] = "down"]
        /\ cancelled' = [cancelled EXCEPT ![m] = FALSE]
        /\ owner' = [p \in Partitions |-> IF owner[p] = m THEN None ELSE owner[p]]
        /\ UNCHANGED <<committed, position, next, limit, abortErr, settled>>
    BY <1>7 DEF StopClose, Released, history
  <2>2. /\ ~abortErr[m]
        /\ \A p \in Partitions : limit[m][p] = 0 /\ next[m][p] = 0
    BY <2>1, <1>type DEF BatchShape, OneRecord, TypeOK
  <2>3. \A q \in Members : q # m => /\ Healthy(q)' => Healthy(q)
                                   /\ pc'[q] = pc[q]
    BY <2>1, <1>type DEF Healthy, TypeOK
  <2>4. pc'[m] = "down"
    BY <2>1, <1>type DEF TypeOK
  <2>5. OneRecord'
    BY <2>1, <2>2, <2>3, <2>4 DEF OneRecord, BatchOver
  <2>6. BatchSettled' /\ NoLoss'
    BY <2>1, <2>2, <2>3 DEF BatchSettled, NoLoss
  <2>7. \A p \in Partitions : owner'[p] # m /\ (owner'[p] \in Members => owner'[p] = owner[p])
    BY <2>1
  <2>8. PositionSettled'
    BY <2>1, <2>3, <2>7 DEF PositionSettled, Remaining
  <2> QED BY <1>ind, <2>5, <2>6, <2>8
<1>8. ASSUME NEW m \in Members, Crash(m) PROVE SInv'
  BY <1>8, <1>ind, <1>type DEF Crash, Released, NoBatch, history, TypeOK, OneRecord, BatchOver,
     BatchShape, Healthy, BatchSettled, PositionSettled, NoLoss, Remaining
<1>9. ASSUME NEW m \in Members, NEW p \in Partitions, Assign(m, p) \/ Move(m, p)
      PROVE SInv'
  <2>1. /\ owner' = [owner EXCEPT ![p] = m]
        /\ position' = [position EXCEPT ![p] = committed[p]]
        /\ UNCHANGED <<committed, pc, next, limit, abortErr, cancelled, settled>>
    BY <1>9 DEF Assign, Move, GiveTo, loopVars, history
  <2>2. OneRecord' /\ BatchSettled' /\ NoLoss'
    BY <2>1 DEF OneRecord, BatchOver, BatchSettled, Healthy, NoLoss
  <2>3. PositionSettled'
    BY <2>1, <1>type DEF PositionSettled, NoLoss, Healthy, Remaining, TypeOK
  <2> QED BY <1>ind, <2>2, <2>3
<1>10. CASE UNCHANGED vars
  BY <1>10, <1>ind DEF vars, OneRecord, BatchOver, BatchSettled, PositionSettled, Healthy,
     NoLoss, Remaining
<1> QED
  BY <1>1, <1>2, <1>3, <1>4, <1>5, <1>6, <1>7, <1>8, <1>9, <1>10 DEF Next, LoopStep

\* When each poll takes one record (FetchMaxRecords = 1), commit-on-success
\* holds as the comments in the fetch loop have it: every record below a
\* committed offset was handled with a nil result.  The batch loss that a
\* larger FetchMaxRecords allows is a run of its own.
THEOREM SingleFetchLosesNothing == ASSUME FetchMax = 1 PROVE Spec => []NoLoss
<1>1. Init => SInv
  BY DEF Init, SInv, IInv, TypeOK, NoBatch, PCs, BatchShape, DownShape, BatchCovers,
     PositionCovers, CommitCovers, OneRecord, BatchSettled, PositionSettled, NoLoss
<1>2. SInv => NoLoss
  BY DEF SInv
<1> QED BY <1>1, <1>2, SettledStep, PTL DEF Spec

-----------------------------------------------------------------------------
(* Aggregation implements Consumer                                        *)

LEMMA AggregationStep == [AggregationNext]_allVars => [Next]_vars
<1> SUFFICES ASSUME [AggregationNext]_allVars PROVE [Next]_vars
  OBVIOUS
<1>1. CASE UNCHANGED allVars
  BY <1>1 DEF allVars
<1>2. CASE Tick
  BY <1>2 DEF Tick
<1>3. ASSUME NEW m \in Members, Handle(m) PROVE Next
  BY <1>3 DEF Handle, CountEvent, Emit, EmitFails, Reject, RejectFails, Next, LoopStep
<1>4. ASSUME NEW m \in Members, OtherLoopStep(m) PROVE Next
  BY <1>4 DEF OtherLoopStep, Next, LoopStep
<1>5. ASSUME NEW m \in Members, Evict(m) PROVE UNCHANGED vars
  BY <1>5 DEF Evict
<1>6. ASSUME NEW m \in Members, GroupStep(m) PROVE Next
  BY <1>6 DEF GroupStep, Next
<1>7. ASSUME NEW m \in Members,
             Start(m) \/ StopCancel(m) \/ StopClose(m) \/ Crash(m)
      PROVE Next
  BY <1>7 DEF Next
<1> QED
  BY <1>1, <1>2, <1>3, <1>4, <1>5, <1>6, <1>7 DEF AggregationNext

\* Counting events in windows takes nothing away from the fetch loop and adds
\* nothing to it: every step of the group with windows is a step of the group
\* without, so that all that is proved of Consumer holds of it.
THEOREM AggregationRefinesConsumer == AggregationSpec => Spec
<1>1. AggregationInit => Init
  BY DEF AggregationInit
<1> QED
  BY <1>1, AggregationStep, PTL DEF AggregationSpec, Spec

-----------------------------------------------------------------------------
(* No settled record disappears                                            *)

CountedEvents == {Input[r] : r \in Records}

\* A map of windows whose windows hold events of the topics.
IsWindow(w) ==
    /\ w = [eventCount |-> w.eventCount, age |-> w.age, events |-> w.events,
            aggregates |-> w.aggregates]
    /\ w.events \in Seq(CountedEvents)

Shape(ws) == \A k \in DOMAIN ws : IsWindow(ws[k])

WindowsShape ==
    /\ windows = [m \in Members |-> windows[m]]
    /\ \A m \in Members : Shape(windows[m])

\* Every record whose handler returned nil is in a delivered result, in an
\* open window, or in gone.
SettledIsSomewhere == settled \subseteq Delivered \cup Open \cup gone

AInv == TypeOK /\ WindowsShape /\ SettledIsSomewhere

LEMMA RecordOfEvent ==
    ASSUME TypeOK, NEW m \in Members, NEW p \in Partitions, Turn(m, p)
    PROVE  /\ Record(m, p) \in Records
           /\ Input[Record(m, p)] \in CountedEvents
           /\ Input[Record(m, p)].record = Record(m, p)
<1>1. next[m][p] \in Offsets
  BY RecordsAssumption DEF TypeOK, Turn, Offsets
<1>2. Record(m, p) \in Records
  BY <1>1 DEF Record, Records
<1> QED
  BY <1>2, InputAssumption DEF CountedEvents

LEMMA AppendedRecords ==
    ASSUME NEW events \in Seq(CountedEvents), NEW ev \in CountedEvents
    PROVE  /\ Append(events, ev) \in Seq(CountedEvents)
           /\ RecordsOf(events) \cup {ev.record} \subseteq RecordsOf(Append(events, ev))
<1>1. Append(events, ev) \in Seq(CountedEvents)
  OBVIOUS
<1>2. ASSUME NEW i \in DOMAIN events
      PROVE  events[i].record \in RecordsOf(Append(events, ev))
  <2>1. i \in DOMAIN Append(events, ev) /\ Append(events, ev)[i] = events[i]
    BY <1>2
  <2> QED
    BY <2>1 DEF RecordsOf
<1>3. ev.record \in RecordsOf(Append(events, ev))
  <2>1. /\ Len(events) + 1 \in DOMAIN Append(events, ev)
        /\ Append(events, ev)[Len(events) + 1] = ev
    OBVIOUS
  <2> QED
    BY <2>1 DEF RecordsOf
<1> QED
  BY <1>1, <1>2, <1>3 DEF RecordsOf

\* The window Execute counts an event in is a window, and has the event in
\* addition to those it had.
LEMMA CountedWindow ==
    ASSUME NEW ws, Shape(ws), NEW key, NEW ev \in CountedEvents
    PROVE  LET w == Counted(Opened(ws, key), ev)
           IN  /\ IsWindow(w)
               /\ ev.record \in RecordsOf(w.events)
               /\ key \in DOMAIN ws => RecordsOf(ws[key].events) \subseteq RecordsOf(w.events)
<1> DEFINE old == Opened(ws, key)
           w == Counted(old, ev)
<1>1. IsWindow(old)
  <2>1. CASE key \in DOMAIN ws
    BY <2>1 DEF Opened, Shape
  <2>2. CASE key \notin DOMAIN ws
    <3>1. old = NewWindow
      BY <2>2 DEF Opened
    <3> QED
      BY <3>1 DEF NewWindow, IsWindow
  <2> QED
    BY <2>1, <2>2
<1>2. old.events \in Seq(CountedEvents)
  BY <1>1 DEF IsWindow
<1>3. w = [eventCount |-> old.eventCount + 1, age |-> 0, events |-> Append(old.events, ev),
           aggregates |-> UpdateAggregations(old.aggregates, ev.numbers)]
  BY DEF Counted
<1> HIDE DEF old
<1>4. w.events = Append(old.events, ev)
  BY <1>3
<1>5. IsWindow(w)
  <2>1. w = [eventCount |-> w.eventCount, age |-> w.age, events |-> w.events,
             aggregates |-> w.aggregates]
    BY <1>3
  <2> HIDE DEF w
  <2> QED
    BY <1>2, <1>4, <2>1, AppendedRecords DEF IsWindow
<1>6. key \in DOMAIN ws => old = ws[key]
  BY DEF old, Opened
<1> HIDE DEF w
<1>7. RecordsOf(old.events) \cup {ev.record} \subseteq RecordsOf(w.events)
  BY <1>2, <1>4, AppendedRecords
<1>8. /\ IsWindow(w)
      /\ ev.record \in RecordsOf(w.events)
      /\ key \in DOMAIN ws => RecordsOf(ws[key].events) \subseteq RecordsOf(w.events)
  BY <1>5, <1>6, <1>7
<1> QED
  BY <1>8 DEF w, old

\* Execute loses nothing: what was in the windows and the event it is called
\* with are in the windows it leaves and the result it returns.
LEMMA ExecuteKeepsRecords ==
    ASSUME NEW ws, Shape(ws), NEW ev \in CountedEvents
    PROVE  LET x == Execute(ws, ev)
           IN  /\ Shape(x.windows)
               /\ RecordsIn(ws) \cup {ev.record}
                    \subseteq RecordsIn(x.windows) \cup RecordsOut(x.result)
<1> DEFINE key == CHOOSE k \in ev.key : TRUE
           w == Counted(Opened(ws, key), ev)
           x == Execute(ws, ev)
<1>1. /\ IsWindow(w)
      /\ ev.record \in RecordsOf(w.events)
      /\ key \in DOMAIN ws => RecordsOf(ws[key].events) \subseteq RecordsOf(w.events)
  BY CountedWindow
<1>2. x = IF w.eventCount >= Count
          THEN [windows |-> Restrict(ws, DOMAIN ws \ {key}), result |-> {Result(key, w)}]
          ELSE [windows |-> With(ws, key, w), result |-> {}]
  BY DEF Execute
<1> HIDE DEF key, w, x
<1>3. CASE w.eventCount >= Count
  <2>1. /\ x.windows = [k \in DOMAIN ws \ {key} |-> ws[k]]
        /\ x.result = {Result(key, w)}
    BY <1>2, <1>3 DEF Restrict
  <2>2. Shape(x.windows)
    BY <2>1 DEF Shape
  <2>3. RecordsOut(x.result) = RecordsOf(w.events)
    BY <2>1 DEF RecordsOut, Result
  <2>4. ASSUME NEW k \in DOMAIN ws, k # key
        PROVE  RecordsOf(ws[k].events) \subseteq RecordsIn(x.windows)
    BY <2>1, <2>4 DEF RecordsIn
  <2>5. RecordsIn(ws) \subseteq RecordsIn(x.windows) \cup RecordsOut(x.result)
    BY <1>1, <2>3, <2>4 DEF RecordsIn
  <2> QED
    BY <1>1, <2>2, <2>3, <2>5 DEF x
<1>4. CASE ~(w.eventCount >= Count)
  <2>1. x.windows = With(ws, key, w) /\ x.result = {}
    BY <1>2, <1>4
  <2>2. /\ DOMAIN x.windows = DOMAIN ws \cup {key}
        /\ x.windows[key] = w
        /\ \A k \in DOMAIN ws : k # key => x.windows[k] = ws[k]
    BY <2>1 DEF With
  <2>3. Shape(x.windows)
    BY <1>1, <2>2 DEF Shape
  <2>4. RecordsOf(w.events) \subseteq RecordsIn(x.windows)
    BY <2>2 DEF RecordsIn
  <2>5. ASSUME NEW k \in DOMAIN ws
        PROVE  RecordsOf(ws[k].events) \subseteq RecordsIn(x.windows)
    <3>1. CASE k = key
      BY <1>1, <2>4, <3>1
    <3>2. CASE k # key
      BY <2>2, <3>2 DEF RecordsIn
    <3> QED
      BY <3>1, <3>2
  <2>6. RecordsIn(ws) \subseteq RecordsIn(x.windows)
    BY <2>5 DEF RecordsIn
  <2> QED
    BY <1>1, <2>3, <2>4, <2>6 DEF x
<1> QED
  BY <1>3, <1>4

\* A sweep of the eviction loop takes the records of the idle windows and no
\* others.
LEMMA EvictedRecords ==
    ASSUME NEW ws, Shape(ws)
    PROVE  /\ Shape(Evicted(ws))
           /\ RecordsIn(ws) \subseteq RecordsIn(Evicted(ws))
                \cup UNION {RecordsOf(ws[k].events) : k \in Idle(ws)}
<1>1. Evicted(ws) = [k \in DOMAIN ws \ Idle(ws) |-> ws[k]]
  BY DEF Evicted, Restrict
<1>2. Shape(Evicted(ws))
  BY <1>1 DEF Shape
<1>3. ASSUME NEW k \in DOMAIN ws, k \notin Idle(ws)
      PROVE  RecordsOf(ws[k].events) \subseteq RecordsIn(Evicted(ws))
  BY <1>1, <1>3 DEF RecordsIn
<1> QED
  BY <1>2, <1>3 DEF RecordsIn

\* Time changes the ages of windows and not their events.
LEMMA AgedEvents ==
    ASSUME NEW ws, Shape(ws)
    PROVE  /\ DOMAIN Aged(ws) = DOMAIN ws
           /\ \A k \in DOMAIN ws : /\ IsWindow(Aged(ws)[k])
                                   /\ Aged(ws)[k].events = ws[k].events
                                   /\ Aged(ws)[k].eventCount = ws[k].eventCount
                                   /\ Aged(ws)[k].aggregates = ws[k].aggregates
<1>1. DOMAIN Aged(ws) = DOMAIN ws
  BY DEF Aged
<1>2. ASSUME NEW k \in DOMAIN ws
      PROVE  /\ IsWindow(Aged(ws)[k])
             /\ Aged(ws)[k].events = ws[k].events
             /\ Aged(ws)[k].eventCount = ws[k].eventCount
             /\ Aged(ws)[k].aggregates = ws[k].aggregates
  <2> DEFINE age == Min({ws[k].age + 1, IdleTimeout + 1})
  <2>1. Aged(ws)[k] = [ws[k] EXCEPT !.age = age]
    BY DEF Aged
  <2>2. IsWindow(ws[k])
    BY DEF Shape
  <2> HIDE DEF age
  <2>3. Aged(ws)[k] = [eventCount |-> ws[k].eventCount, age |-> age,
                       events |-> ws[k].events, aggregates |-> ws[k].aggregates]
    BY <2>1, <2>2 DEF IsWindow
  <2> QED
    BY <2>2, <2>3 DEF IsWindow
<1> QED
  BY <1>1, <1>2

LEMMA AgedRecords ==
    ASSUME NEW ws, Shape(ws)
    PROVE  Shape(Aged(ws)) /\ RecordsIn(Aged(ws)) = RecordsIn(ws)
BY AgedEvents DEF Shape, RecordsIn

\* The windows of one member change, and what was in them is in the windows
\* it has then, in results or in gone.
LEMMA MemberStep ==
    ASSUME WindowsShape, NEW m \in Members, NEW ws, Shape(ws),
           windows' = [windows EXCEPT ![m] = ws],
           results \subseteq results', gone \subseteq gone',
           RecordsIn(windows[m]) \subseteq RecordsIn(ws) \cup Delivered' \cup gone'
    PROVE  /\ WindowsShape'
           /\ Delivered \cup Open \cup gone \subseteq (Delivered \cup Open \cup gone)'
           /\ RecordsIn(ws) \subseteq Open'
<1>1. /\ windows' = [n \in Members |-> windows'[n]]
      /\ windows'[m] = ws
      /\ \A n \in Members : n # m => windows'[n] = windows[n]
  BY DEF WindowsShape
<1>2. WindowsShape'
  BY <1>1 DEF WindowsShape
<1>3. Delivered \subseteq Delivered'
  BY DEF Delivered, RecordsOut
<1>4. RecordsIn(ws) \subseteq Open'
  BY <1>1 DEF Open
<1>5. ASSUME NEW n \in Members
      PROVE  RecordsIn(windows[n]) \subseteq (Delivered \cup Open \cup gone)'
  <2>1. CASE n = m
    BY <1>4, <2>1
  <2>2. CASE n # m
    BY <1>1, <2>2 DEF Open
  <2> QED
    BY <2>1, <2>2
<1>6. Open \subseteq (Delivered \cup Open \cup gone)'
  BY <1>5 DEF Open
<1> QED
  BY <1>2, <1>3, <1>4, <1>6

LEMMA SomewhereStep == AInv /\ [AggregationNext]_allVars => AInv'
<1> SUFFICES ASSUME AInv, [AggregationNext]_allVars PROVE AInv'
  OBVIOUS
<1> USE DEF AInv
<1>type. TypeOK'
  BY AggregationStep, TypeStep
<1>same. ASSUME UNCHANGED aggregateVars, settled' = settled
         PROVE  WindowsShape' /\ SettledIsSomewhere'
  BY <1>same DEF aggregateVars, WindowsShape, SettledIsSomewhere, Delivered, Open
<1>1. CASE UNCHANGED allVars
  BY <1>1, <1>type, <1>same DEF allVars, vars
<1>2. ASSUME NEW m \in Members, Start(m) \/ StopCancel(m), UNCHANGED aggregateVars
      PROVE  AInv'
  BY <1>2, <1>type, <1>same DEF Start, StopCancel, history
<1>3. ASSUME NEW m \in Members, NEW p \in Partitions,
             CountEvent(m, p) \/ Emit(m, p)
      PROVE  AInv'
  <2> DEFINE x == Executed(m, p)
  <2>1. HandleSettled(m, p) /\ windows' = [windows EXCEPT ![m] = x.windows]
    BY <1>3 DEF CountEvent, Emit
  <2>2. gone' = gone /\ results \subseteq results' /\ x.result \subseteq results'
    BY <1>3 DEF CountEvent, Emit
  <2>3. settled' = settled \cup {Record(m, p)} /\ Turn(m, p)
    BY <2>1 DEF HandleSettled, Record
  <2>4. /\ Shape(x.windows)
        /\ RecordsIn(windows[m]) \cup {Record(m, p)}
             \subseteq RecordsIn(x.windows) \cup RecordsOut(x.result)
    BY <2>3, RecordOfEvent, ExecuteKeepsRecords DEF WindowsShape, Executed
  <2>5. RecordsOut(x.result) \subseteq Delivered'
    BY <2>2 DEF Delivered, RecordsOut
  <2> HIDE DEF x
  <2>6. /\ WindowsShape'
        /\ Delivered \cup Open \cup gone \subseteq (Delivered \cup Open \cup gone)'
        /\ RecordsIn(x.windows) \subseteq Open'
    BY <2>1, <2>2, <2>4, <2>5, MemberStep
  <2> QED
    BY <1>type, <2>3, <2>4, <2>5, <2>6 DEF SettledIsSomewhere
<1>4. ASSUME NEW m \in Members, NEW p \in Partitions, EmitFails(m, p) PROVE AInv'
  <2> DEFINE x == Executed(m, p)
  <2>1. /\ windows' = [windows EXCEPT ![m] = x.windows]
        /\ gone' = gone \cup RecordsOut(x.result) /\ results' = results
        /\ settled' = settled /\ Turn(m, p)
    BY <1>4 DEF EmitFails, HandleFailed, Gone
  <2>2. /\ Shape(x.windows)
        /\ RecordsIn(windows[m]) \subseteq RecordsIn(x.windows) \cup RecordsOut(x.result)
    BY <2>1, RecordOfEvent, ExecuteKeepsRecords DEF WindowsShape, Executed
  <2> HIDE DEF x
  <2>3. /\ WindowsShape'
        /\ Delivered \cup Open \cup gone \subseteq (Delivered \cup Open \cup gone)'
    BY <2>1, <2>2, MemberStep
  <2> QED
    BY <1>type, <2>1, <2>3 DEF SettledIsSomewhere
<1>5. ASSUME NEW m \in Members, NEW p \in Partitions, Reject(m, p) PROVE AInv'
  BY <1>5, <1>type DEF Reject, HandleSettled, Gone, Record, WindowsShape,
     SettledIsSomewhere, Delivered, Open
<1>6. ASSUME NEW m \in Members, NEW p \in Partitions, RejectFails(m, p) PROVE AInv'
  BY <1>6, <1>type, <1>same DEF RejectFails, HandleFailed
<1>7. ASSUME NEW m \in Members, OtherLoopStep(m) PROVE AInv'
  BY <1>7, <1>type, <1>same DEF OtherLoopStep, Check, Poll, EmptyPoll, HandleCancelled,
     CommitRecord, CommitFailed, EndBatch, history
<1>8. ASSUME NEW m \in Members, Ends(m), settled' = settled PROVE AInv'
  <2>1. Shape(NoWindows)
    BY DEF NoWindows, Shape
  <2>2. /\ WindowsShape'
        /\ Delivered \cup Open \cup gone \subseteq (Delivered \cup Open \cup gone)'
    BY <1>8, <2>1, MemberStep DEF Ends, Gone
  <2> QED
    BY <1>8, <1>type, <2>2 DEF SettledIsSomewhere
<1>9. ASSUME NEW m \in Members, StopClose(m) \/ Crash(m) PROVE settled' = settled
  BY <1>9 DEF StopClose, Crash, history
<1>10. ASSUME NEW m \in Members, Evict(m) PROVE AInv'
  <2>1. /\ windows' = [windows EXCEPT ![m] = Evicted(windows[m])]
        /\ gone' = gone \cup UNION {RecordsOf(windows[m][k].events) : k \in Idle(windows[m])}
        /\ results' = results /\ settled' = settled
    BY <1>10 DEF Evict, Gone, vars, WindowsShape
  <2>2. /\ WindowsShape'
        /\ Delivered \cup Open \cup gone \subseteq (Delivered \cup Open \cup gone)'
    BY <2>1, EvictedRecords, MemberStep DEF WindowsShape
  <2> QED
    BY <1>type, <2>1, <2>2 DEF SettledIsSomewhere
<1>11. ASSUME Tick PROVE AInv'
  <2>1. /\ windows' = [m \in Members |-> Aged(windows[m])]
        /\ UNCHANGED <<results, gone, settled>>
    BY <1>11 DEF Tick, vars
  <2>2. \A m \in Members : /\ Shape(windows'[m])
                           /\ RecordsIn(windows[m]) \subseteq RecordsIn(windows'[m])
    BY <2>1, AgedRecords DEF WindowsShape
  <2>3. WindowsShape'
    BY <2>1, <2>2 DEF WindowsShape
  <2>4. Open \subseteq Open' /\ Delivered' = Delivered
    BY <2>1, <2>2 DEF Open, Delivered
  <2> QED
    BY <1>type, <2>1, <2>3, <2>4 DEF SettledIsSomewhere
<1>12. ASSUME NEW m \in Members, GroupStep(m) PROVE AInv'
  BY <1>12, <1>type, <1>same DEF GroupStep, Assign, Move, history
<1> QED
  BY <1>1, <1>2, <1>3, <1>4, <1>5, <1>6, <1>7, <1>8, <1>9, <1>10, <1>11, <1>12
     DEF AggregationNext, Handle

LEMMA Somewhere == AggregationSpec => []AInv
<1>1. AggregationInit => AInv
  <2> SUFFICES ASSUME AggregationInit PROVE AInv
    OBVIOUS
  <2>1. TypeOK
    BY RecordsAssumption, BoundsAssumption DEF AggregationInit, Init, TypeOK, NoBatch, PCs
  <2>2. WindowsShape
    BY DEF AggregationInit, WindowsShape, Shape, NoWindows
  <2>3. SettledIsSomewhere
    BY DEF AggregationInit, Init, SettledIsSomewhere
  <2> QED
    BY <2>1, <2>2, <2>3 DEF AInv
<1> QED
  BY <1>1, SomewhereStep, PTL DEF AggregationSpec

\* With one record to a fetch, no record the committed offsets say is done
\* has disappeared: whatever the number of members, partitions and keys, the
\* window size and the timeout, it is in a delivered result, in an open window,
\* or among those that were rejected, evicted, or lost with a process or with
\* a result that could not be sent.
THEOREM CommittedRecordsAreSomewhere ==
    ASSUME FetchMax = 1 PROVE AggregationSpec => []CommittedIsSomewhere
<1>1. Spec => []NoLoss
  BY SingleFetchLosesNothing
<1>2. NoLoss /\ AInv => CommittedIsSomewhere
  BY DEF NoLoss, AInv, SettledIsSomewhere, CommittedIsSomewhere
<1> QED
  BY <1>1, <1>2, AggregationRefinesConsumer, Somewhere, PTL

-----------------------------------------------------------------------------
(* No record is counted twice without a redelivery                         *)

NoRedelivery == moves = 0 /\ faults = 0

\* As long as no partition has moved and no process was stopped, a partition
\* that nobody has is one nobody has had, and only its owner has records of a
\* partition in its batch, the last it polled.
FirstOwners ==
    /\ \A m \in Members : ~cancelled[m]
    /\ \A p \in Partitions : owner[p] = None => committed[p] = 0 /\ position[p] = 0
    /\ \A m \in Members : \A p \in Partitions :
          limit[m][p] # 0 => owner[p] = m /\ limit[m][p] = position[p]

\* What is counted has been polled and is not still to come.
Past(p, o) == o < position[p] /\ \A m \in Members : o \notin Remaining(m, p)

CountedIsPast ==
    \A p \in Partitions : \A o \in Offsets :
        <<p, o>> \in Delivered \cup Open => Past(p, o)

NoRepeat(events) ==
    \A i, j \in DOMAIN events : events[i].record = events[j].record => i = j

\* The windows of a process count every record at most once,
OnceIn(ws) ==
    /\ \A k \in DOMAIN ws : NoRepeat(ws[k].events)
    /\ \A k, l \in DOMAIN ws :
          k # l => RecordsOf(ws[k].events) \cap RecordsOf(ws[l].events) = {}

\* and so do results,
OnceOut(rs) ==
    /\ \A r \in rs : NoRepeat(r.events)
    /\ \A r, s \in rs : r # s => RecordsOf(r.events) \cap RecordsOf(s.events) = {}

\* and all of them together.
OnceOverall ==
    /\ \A m \in Members : OnceIn(windows[m])
    /\ \A m, n \in Members : m # n => RecordsIn(windows[m]) \cap RecordsIn(windows[n]) = {}
    /\ OnceOut(results)
    /\ Delivered \cap Open = {}

CInv ==
    /\ IInv
    /\ AInv
    /\ NoRedelivery => FirstOwners /\ CountedIsPast /\ OnceOverall

LEMMA NoRedeliverySoFar ==
    ASSUME TypeOK, [Next]_vars, NoRedelivery'
    PROVE  /\ NoRedelivery
           /\ \A m \in Members : ~StopCancel(m) /\ ~Crash(m)
           /\ \A m \in Members : \A p \in Partitions : ~Move(m, p)
<1>1. \A m \in Members : ~StopCancel(m) /\ ~Crash(m)
  BY DEF StopCancel, Crash, NoRedelivery, TypeOK
<1>2. \A m \in Members : \A p \in Partitions : ~Move(m, p)
  BY DEF Move, NoRedelivery, TypeOK
<1>3. UNCHANGED <<moves, faults>>
  <2>1. ASSUME NEW m \in Members, LoopStep(m) PROVE UNCHANGED <<moves, faults>>
    BY <2>1 DEF LoopStep, Check, Poll, EmptyPoll, HandleSettled, HandleFailed,
       HandleCancelled, CommitRecord, CommitFailed, EndBatch
  <2>2. CASE UNCHANGED vars
    BY <2>2 DEF vars
  <2> QED BY <1>1, <1>2, <2>1, <2>2 DEF Next, Start, StopClose, Assign
<1> QED BY <1>1, <1>2, <1>3 DEF NoRedelivery

\* The handler gets a record: its partition is the owner's, the record is still
\* to come before the step and is past after it.
LEMMA HandedOver ==
    ASSUME IInv, FirstOwners, NEW m \in Members, NEW p \in Partitions, Turn(m, p),
           HandOver(m, p), UNCHANGED <<limit, position>>,
           NEW o \in Offsets, o = next[m][p]
    PROVE  ~Past(p, o) /\ Past(p, o)'
<1>1. /\ next[m][p] \in Nat /\ limit[m][p] \in Nat /\ next[m][p] < limit[m][p]
      /\ position[p] \in Nat
  BY DEF Turn, IInv, TypeOK
<1>2. owner[p] = m /\ limit[m][p] = position[p]
  BY <1>1 DEF FirstOwners
<1>3. \A n \in Members : n # m => limit[n][p] = 0 /\ next[n][p] \in Nat
  BY <1>2 DEF FirstOwners, IInv, TypeOK
<1>4. /\ next'[m][p] = next[m][p] + 1
      /\ \A n \in Members : n # m => next'[n][p] = next[n][p]
  BY DEF HandOver, IInv, TypeOK
<1>5. o \in Remaining(m, p)
  BY <1>1 DEF Remaining
<1>6. ASSUME NEW n \in Members PROVE o \notin next'[n][p] .. limit[n][p] - 1
  <2>1. CASE n = m
    BY <1>1, <1>4, <2>1
  <2>2. CASE n # m
    BY <1>1, <1>3, <1>4, <2>2
  <2> QED BY <2>1, <2>2
<1>7. o < position'[p] /\ limit' = limit
  BY <1>1, <1>2
<1> QED BY <1>5, <1>6, <1>7 DEF Past, Remaining

\* What is past stays past.
LEMMA PastStays ==
    ASSUME IInv, FirstOwners, [Next]_vars, NoRedelivery',
           NEW p \in Partitions, NEW o \in Offsets, Past(p, o)
    PROVE  Past(p, o)'
<1> USE DEF IInv, TypeOK, Past, Remaining, Offsets
<1>1. ASSUME UNCHANGED <<position, next, limit>> PROVE Past(p, o)'
  BY <1>1
<1>2. ASSUME NEW m \in Members, Poll(m) PROVE Past(p, o)'
  <2>1. PICK take \in [Partitions -> 0 .. FetchMax] :
          /\ next' = [next EXCEPT ![m] =
                        [q \in Partitions |-> IF take[q] > 0 THEN position[q] ELSE 0]]
          /\ limit' = [limit EXCEPT ![m] =
                        [q \in Partitions |->
                           IF take[q] > 0 THEN position[q] + take[q] ELSE 0]]
          /\ position' = [q \in Partitions |-> position[q] + take[q]]
    BY <1>2 DEF Poll
  <2>2. o < position'[p]
    BY <2>1
  <2>3. /\ next'[m][p] = IF take[p] > 0 THEN position[p] ELSE 0
        /\ limit'[m][p] = IF take[p] > 0 THEN position[p] + take[p] ELSE 0
        /\ \A n \in Members : n # m => next'[n] = next[n] /\ limit'[n] = limit[n]
    BY <2>1
  <2>4. o \notin next'[m][p] .. limit'[m][p] - 1
    BY <2>3
  <2> QED BY <2>2, <2>3, <2>4
<1>3. ASSUME NEW m \in Members, NEW q \in Partitions, HandOver(m, q),
             UNCHANGED <<limit, position>>
      PROVE  Past(p, o)'
  <2>1. \A n \in Members : next'[n][p] \in {next[n][p], next[n][p] + 1}
    BY <1>3 DEF HandOver
  <2>2. ASSUME NEW n \in Members PROVE o \notin next'[n][p] .. limit[n][p] - 1
    <3>1. next[n][p] \in Nat /\ limit[n][p] \in Nat /\ o \in Nat
      OBVIOUS
    <3>2. o \notin next[n][p] .. limit[n][p] - 1
      OBVIOUS
    <3> HIDE DEF TypeOK, Past
    <3> QED BY <2>1, <3>1, <3>2
  <2> QED BY <1>3, <2>2
<1>4. ASSUME NEW m \in Members, EndBatch(m) PROVE Past(p, o)'
  <2>1. /\ next'[m][p] = 0 /\ limit'[m][p] = 0 /\ position' = position
        /\ \A n \in Members : n # m => next'[n] = next[n] /\ limit'[n] = limit[n]
    BY <1>4 DEF EndBatch, NoBatch, groupVars
  <2> QED BY <2>1
<1>5. ASSUME NEW m \in Members, NEW q \in Partitions, Assign(m, q) PROVE Past(p, o)'
  <2>1. /\ q # p => position'[p] = position[p]
        /\ q = p => position[p] = 0
        /\ UNCHANGED <<next, limit>>
    BY <1>5 DEF Assign, GiveTo, FirstOwners, loopVars
  <2> QED BY <2>1
<1>6. ASSUME NEW m \in Members, LoopStep(m) PROVE Past(p, o)'
  <2>1. CASE Check(m) \/ EmptyPoll(m) \/ CommitRecord(m) \/ CommitFailed(m)
    BY <1>1, <2>1 DEF Check, EmptyPoll, CommitRecord, CommitFailed, groupVars
  <2>2. ASSUME NEW q \in Partitions,
               HandleSettled(m, q) \/ HandleFailed(m, q) \/ HandleCancelled(m, q)
        PROVE  Past(p, o)'
    BY <1>3, <2>2 DEF HandleSettled, HandleFailed, HandleCancelled, groupVars
  <2> HIDE DEF Past
  <2> QED BY <1>2, <1>4, <1>6, <2>1, <2>2 DEF LoopStep
<1>7. ASSUME NEW m \in Members, Start(m) \/ StopClose(m) PROVE Past(p, o)'
  BY <1>1, <1>7 DEF Start, StopClose, groupVars
<1>8. CASE UNCHANGED vars
  BY <1>1, <1>8 DEF vars
<1> HIDE DEF Past, TypeOK
<1> QED BY <1>5, <1>6, <1>7, <1>8, NoRedeliverySoFar DEF Next, TypeOK

LEMMA FirstOwnersStep ==
    ASSUME IInv, NoRedelivery => FirstOwners, [Next]_vars, NoRedelivery'
    PROVE  FirstOwners'
<1>1. FirstOwners
  BY NoRedeliverySoFar DEF IInv
<1> USE <1>1 DEF IInv, TypeOK, FirstOwners
<1>2. ASSUME UNCHANGED <<cancelled, owner, committed, position, limit>> PROVE FirstOwners'
  BY <1>2
<1>3. ASSUME NEW m \in Members, Poll(m) PROVE FirstOwners'
  <2>1. PICK take \in [Partitions -> 0 .. FetchMax] :
          /\ CanTake(m, take)
          /\ limit' = [limit EXCEPT ![m] =
                        [q \in Partitions |->
                           IF take[q] > 0 THEN position[q] + take[q] ELSE 0]]
          /\ position' = [q \in Partitions |-> position[q] + take[q]]
    BY <1>3 DEF Poll
  <2>2. \A p \in Partitions : take[p] > 0 => owner[p] = m
    BY <2>1 DEF CanTake
  <2>3. UNCHANGED <<cancelled, owner, committed>>
    BY <1>3 DEF Poll
  <2>4. ASSUME NEW p \in Partitions, owner[p] = None PROVE position'[p] = 0
    BY <2>1, <2>2, <2>4
  <2>5. ASSUME NEW n \in Members, NEW p \in Partitions, limit'[n][p] # 0
        PROVE  owner[p] = n /\ limit'[n][p] = position'[p]
    <3>1. CASE n = m
      BY <2>1, <2>2, <2>5, <3>1
    <3>2. CASE n # m
      <4>1. limit'[n][p] = limit[n][p]
        BY <2>1, <3>2
      <4>2. owner[p] = n /\ limit[n][p] = position[p]
        BY <2>5, <4>1
      <4>3. take[p] = 0
        BY <2>2, <3>2, <4>2
      <4> QED BY <2>1, <4>1, <4>2, <4>3
    <3> QED BY <3>1, <3>2
  <2> QED BY <2>3, <2>4, <2>5
<1>4. ASSUME NEW m \in Members, CommitRecord(m) PROVE FirstOwners'
  <2>1. cur[m] \in Partitions /\ committed' = [committed EXCEPT ![cur[m]] = next[m][cur[m]]]
    BY <1>4 DEF CommitRecord, BatchShape
  <2>2. owner[cur[m]] = None => next[m][cur[m]] = 0
    BY <2>1 DEF BatchShape
  <2>3. UNCHANGED <<cancelled, owner, position, limit>>
    BY <1>4 DEF CommitRecord
  <2> QED BY <2>1, <2>2, <2>3
<1>5. ASSUME NEW m \in Members, EndBatch(m) PROVE FirstOwners'
  BY <1>5 DEF EndBatch, NoBatch, groupVars
<1>6. ASSUME NEW m \in Members, NEW p \in Partitions, Assign(m, p) PROVE FirstOwners'
  <2>1. owner[p] = None /\ committed[p] = 0 /\ \A n \in Members : limit[n][p] = 0
    BY <1>6 DEF Assign
  <2> QED BY <1>6, <2>1 DEF Assign, GiveTo, loopVars
<1>7. ASSUME NEW m \in Members, StopClose(m) PROVE FALSE
  BY <1>7 DEF StopClose
<1>8. ASSUME NEW m \in Members, LoopStep(m) PROVE FirstOwners'
  <2>1. CASE Check(m) \/ EmptyPoll(m) \/ CommitFailed(m)
    BY <1>2, <2>1 DEF Check, EmptyPoll, CommitFailed, groupVars
  <2>2. ASSUME NEW q \in Partitions,
               HandleSettled(m, q) \/ HandleFailed(m, q) \/ HandleCancelled(m, q)
        PROVE  FirstOwners'
    BY <1>2, <2>2 DEF HandleSettled, HandleFailed, HandleCancelled, groupVars
  <2> HIDE DEF FirstOwners
  <2> QED BY <1>3, <1>4, <1>5, <1>8, <2>1, <2>2 DEF LoopStep
<1>9. ASSUME NEW m \in Members, Start(m) PROVE FirstOwners'
  BY <1>2, <1>9 DEF Start, groupVars
<1>10. CASE UNCHANGED vars
  BY <1>2, <1>10 DEF vars
<1> HIDE DEF FirstOwners, TypeOK
<1> QED BY <1>6, <1>7, <1>8, <1>9, <1>10, NoRedeliverySoFar DEF Next, TypeOK

LEMMA AppendedOnce ==
    ASSUME NEW events \in Seq(CountedEvents), NEW ev \in CountedEvents,
           NoRepeat(events), ev.record \notin RecordsOf(events)
    PROVE  /\ NoRepeat(Append(events, ev))
           /\ RecordsOf(Append(events, ev)) = RecordsOf(events) \cup {ev.record}
<1> DEFINE new == Append(events, ev)
           n == Len(events) + 1
<1>1. /\ Len(events) \in Nat /\ DOMAIN events = 1 .. Len(events) /\ DOMAIN new = 1 .. n
      /\ new[n] = ev /\ \A i \in 1 .. Len(events) : new[i] = events[i]
  OBVIOUS
<1> HIDE DEF new
<1>2. \A i \in DOMAIN new : i = n \/ i \in DOMAIN events
  BY <1>1
<1>3. \A i \in DOMAIN events : events[i].record # ev.record
  BY DEF RecordsOf
<1>4. NoRepeat(new)
  BY <1>1, <1>2, <1>3 DEF NoRepeat
<1>5. RecordsOf(new) \subseteq RecordsOf(events) \cup {ev.record}
  BY <1>1, <1>2 DEF RecordsOf
<1>6. RecordsOf(events) \cup {ev.record} \subseteq RecordsOf(new)
  BY AppendedRecords DEF new
<1> QED BY <1>4, <1>5, <1>6 DEF new

\* Execute of an event that is not in a window yet doubles nothing: what it
\* emits is not in the windows it leaves.
LEMMA ExecuteOnce ==
    ASSUME NEW ws, Shape(ws), OnceIn(ws), NEW ev \in CountedEvents,
           ev.record \notin RecordsIn(ws)
    PROVE  LET x == Execute(ws, ev)
           IN  /\ OnceIn(x.windows) /\ OnceOut(x.result)
               /\ RecordsIn(x.windows) \cup RecordsOut(x.result)
                    \subseteq RecordsIn(ws) \cup {ev.record}
               /\ RecordsIn(x.windows) \cap RecordsOut(x.result) = {}
<1> DEFINE key == CHOOSE k \in ev.key : TRUE
           old == Opened(ws, key)
           w == Counted(old, ev)
           x == Execute(ws, ev)
<1>1. /\ old.events \in Seq(CountedEvents) /\ NoRepeat(old.events)
      /\ key \in DOMAIN ws => old = ws[key]
      /\ key \notin DOMAIN ws => RecordsOf(old.events) = {}
  <2>1. CASE key \in DOMAIN ws
    BY <2>1 DEF Opened, Shape, IsWindow, OnceIn
  <2>2. CASE key \notin DOMAIN ws
    <3>1. old.events = <<>>
      BY <2>2 DEF Opened, NewWindow
    <3> HIDE DEF old
    <3> QED BY <2>2, <3>1 DEF NoRepeat, RecordsOf
  <2> QED BY <2>1, <2>2
<1>2. w.events = Append(old.events, ev)
  BY DEF Counted
<1>3. x = IF w.eventCount >= Count
          THEN [windows |-> Restrict(ws, DOMAIN ws \ {key}), result |-> {Result(key, w)}]
          ELSE [windows |-> With(ws, key, w), result |-> {}]
  BY DEF Execute
<1> HIDE DEF key, old, w, x
<1>4. RecordsOf(old.events) \subseteq RecordsIn(ws)
  BY <1>1 DEF RecordsIn
<1>5. NoRepeat(w.events) /\ RecordsOf(w.events) = RecordsOf(old.events) \cup {ev.record}
  BY <1>1, <1>2, <1>4, AppendedOnce
<1>6. ASSUME NEW k \in DOMAIN ws, k # key
      PROVE  /\ RecordsOf(ws[k].events) \cap RecordsOf(w.events) = {}
             /\ RecordsOf(ws[k].events) \subseteq RecordsIn(ws)
  <2>1. RecordsOf(ws[k].events) \subseteq RecordsIn(ws)
    BY DEF RecordsIn
  <2>2. RecordsOf(ws[k].events) \cap RecordsOf(old.events) = {}
    BY <1>1, <1>6 DEF OnceIn
  <2> QED BY <1>5, <2>1, <2>2
<1>7. CASE w.eventCount >= Count
  <2>1. /\ DOMAIN x.windows = DOMAIN ws \ {key}
        /\ \A k \in DOMAIN x.windows : x.windows[k] = ws[k]
        /\ x.result = {Result(key, w)} /\ Result(key, w).events = w.events
    BY <1>3, <1>7 DEF Restrict, Result
  <2>2. OnceIn(x.windows)
    BY <2>1 DEF OnceIn
  <2>3. OnceOut(x.result) /\ RecordsOut(x.result) = RecordsOf(w.events)
    BY <1>5, <2>1 DEF OnceOut, RecordsOut
  <2>4. \A k \in DOMAIN x.windows :
           /\ RecordsOf(x.windows[k].events) \subseteq RecordsIn(ws)
           /\ RecordsOf(x.windows[k].events) \cap RecordsOf(w.events) = {}
    BY <1>6, <2>1
  <2>5. /\ RecordsIn(x.windows) \subseteq RecordsIn(ws)
        /\ RecordsIn(x.windows) \cap RecordsOf(w.events) = {}
    BY <2>4 DEF RecordsIn
  <2> QED BY <1>4, <1>5, <2>2, <2>3, <2>5 DEF x
<1>8. CASE ~(w.eventCount >= Count)
  <2>1. /\ DOMAIN x.windows = DOMAIN ws \cup {key}
        /\ x.windows[key] = w
        /\ \A k \in DOMAIN ws : k # key => x.windows[k] = ws[k]
        /\ x.result = {}
    BY <1>3, <1>8 DEF With
  <2>2. OnceIn(x.windows)
    BY <1>5, <1>6, <2>1 DEF OnceIn
  <2>3. OnceOut(x.result) /\ RecordsOut(x.result) = {}
    BY <2>1 DEF OnceOut, RecordsOut
  <2>4. \A k \in DOMAIN x.windows :
           RecordsOf(x.windows[k].events) \subseteq RecordsIn(ws) \cup {ev.record}
    BY <1>4, <1>5, <1>6, <2>1
  <2>5. RecordsIn(x.windows) \subseteq RecordsIn(ws) \cup {ev.record}
    BY <2>4 DEF RecordsIn
  <2> QED BY <2>2, <2>3, <2>5 DEF x
<1> QED BY <1>7, <1>8

\* The windows of one member change, and some of what was in them goes into
\* results, together with records that were not counted before.
LEMMA OnceStep ==
    ASSUME WindowsShape, OnceOverall, NEW m \in Members, NEW ws, NEW rs, NEW new,
           windows' = [windows EXCEPT ![m] = ws], results' = results \cup rs,
           OnceIn(ws), OnceOut(rs), RecordsIn(ws) \cap RecordsOut(rs) = {},
           RecordsIn(ws) \cup RecordsOut(rs) \subseteq RecordsIn(windows[m]) \cup new,
           new \cap (Delivered \cup Open) = {}
    PROVE  OnceOverall' /\ (Delivered \cup Open)' \subseteq Delivered \cup Open \cup new
<1>1. windows'[m] = ws /\ \A n \in Members : n # m => windows'[n] = windows[n]
  BY DEF WindowsShape
<1>2. \A n \in Members : RecordsIn(windows[n]) \subseteq Open
  BY DEF Open
<1>3. Delivered' = Delivered \cup RecordsOut(rs)
  BY DEF Delivered, RecordsOut
<1>4. \A n \in Members : OnceIn(windows'[n])
  BY <1>1 DEF OnceOverall
<1>5. \A n \in Members : n # m => RecordsIn(ws) \cap RecordsIn(windows[n]) = {}
  BY <1>2 DEF OnceOverall
<1>6. \A n, l \in Members : n # l => RecordsIn(windows'[n]) \cap RecordsIn(windows'[l]) = {}
  BY <1>1, <1>5 DEF OnceOverall
<1>7. (RecordsIn(ws) \cup RecordsOut(rs)) \cap Delivered = {}
  BY <1>2 DEF OnceOverall
<1>8. OnceOut(results')
  <2>1. \A r \in results, s \in rs : RecordsOf(r.events) \cap RecordsOf(s.events) = {}
    <3>1. \A r \in results : RecordsOf(r.events) \subseteq Delivered
      BY DEF Delivered, RecordsOut
    <3>2. \A s \in rs : RecordsOf(s.events) \subseteq RecordsOut(rs)
      BY DEF RecordsOut
    <3> QED BY <1>7, <3>1, <3>2
  <2> QED BY <2>1 DEF OnceOut, OnceOverall
<1>9. \A n \in Members : n # m => RecordsIn(windows[n]) \cap RecordsOut(rs) = {}
  BY <1>2 DEF OnceOverall
<1>10. \A n \in Members : Delivered' \cap RecordsIn(windows'[n]) = {}
  BY <1>1, <1>2, <1>3, <1>7, <1>9 DEF OnceOverall
<1>11. Delivered' \cap Open' = {}
  BY <1>10 DEF Open
<1>12. \A n \in Members : RecordsIn(windows'[n]) \subseteq Open \cup new
  BY <1>1, <1>2
<1>13. Open' \subseteq Open \cup new
  BY <1>12 DEF Open
<1>14. RecordsOut(rs) \subseteq Open \cup new
  BY <1>2
<1>15. OnceOverall'
  BY <1>4, <1>6, <1>8, <1>11 DEF OnceOverall
<1> QED BY <1>3, <1>13, <1>14, <1>15

\* Nothing is counted that is not past, if what is new among it is past.
LEMMA CountedPastStep ==
    ASSUME IInv, FirstOwners, CountedIsPast, [Next]_vars, NoRedelivery', NEW new,
           (Delivered \cup Open)' \subseteq Delivered \cup Open \cup new,
           \A p \in Partitions : \A o \in Offsets : <<p, o>> \in new => Past(p, o)'
    PROVE  CountedIsPast'
<1> SUFFICES ASSUME NEW p \in Partitions, NEW o \in Offsets, <<p, o>> \in (Delivered \cup Open)'
             PROVE  Past(p, o)'
  BY DEF CountedIsPast
<1>1. CASE <<p, o>> \in Delivered \cup Open
  BY <1>1, PastStays DEF CountedIsPast
<1> QED BY <1>1

\* The handler counts the record, or its result cannot be sent.
LEMMA CountingStep ==
    ASSUME CInv, FirstOwners, CountedIsPast, OnceOverall, [Next]_vars, NoRedelivery',
           NEW m \in Members, NEW p \in Partitions,
           CountEvent(m, p) \/ Emit(m, p) \/ EmitFails(m, p)
    PROVE  CountedIsPast' /\ OnceOverall'
<1> USE DEF CInv
<1> DEFINE x == Executed(m, p)
           ev == Input[Record(m, p)]
           o == next[m][p]
<1>1. /\ Turn(m, p) /\ HandOver(m, p) /\ UNCHANGED <<limit, position>>
      /\ windows' = [windows EXCEPT ![m] = x.windows]
  BY DEF CountEvent, Emit, EmitFails, HandleSettled, HandleFailed, groupVars
<1>2. PICK rs : rs \in {{}, x.result} /\ results' = results \cup rs
  BY DEF CountEvent, Emit, EmitFails
<1>3. Record(m, p) \in Records /\ ev \in CountedEvents /\ ev.record = Record(m, p)
  BY <1>1, RecordOfEvent DEF AInv
<1>4. o \in Offsets /\ Record(m, p) = <<p, o>>
  BY <1>3 DEF Record, Records
<1>5. PICK n \in Offsets : n = o
  BY <1>4
<1>6. ~Past(p, n) /\ Past(p, n)'
  BY <1>1, <1>5, HandedOver
<1>7. Record(m, p) \notin Delivered \cup Open
  BY <1>4, <1>5, <1>6 DEF CountedIsPast
<1>8. ev.record \notin RecordsIn(windows[m])
  BY <1>3, <1>7 DEF Open
<1>9. Shape(windows[m]) /\ OnceIn(windows[m]) /\ WindowsShape
  BY DEF AInv, WindowsShape, OnceOverall
<1>10. /\ OnceIn(x.windows) /\ OnceOut(x.result)
       /\ RecordsIn(x.windows) \cup RecordsOut(x.result)
            \subseteq RecordsIn(windows[m]) \cup {ev.record}
       /\ RecordsIn(x.windows) \cap RecordsOut(x.result) = {}
  BY <1>3, <1>8, <1>9, ExecuteOnce DEF Executed
<1>11. OnceOut({}) /\ RecordsOut({}) = {}
  BY DEF OnceOut, RecordsOut
<1> DEFINE ws == x.windows
           new == {Record(m, p)}
<1>12. /\ OnceIn(ws) /\ OnceOut(rs) /\ RecordsIn(ws) \cap RecordsOut(rs) = {}
       /\ RecordsIn(ws) \cup RecordsOut(rs) \subseteq RecordsIn(windows[m]) \cup new
       /\ new \cap (Delivered \cup Open) = {}
       /\ windows' = [windows EXCEPT ![m] = ws]
  BY <1>1, <1>2, <1>3, <1>7, <1>10, <1>11
<1> HIDE DEF ws, new
<1>13. OnceOverall' /\ (Delivered \cup Open)' \subseteq Delivered \cup Open \cup new
  BY <1>2, <1>9, <1>12, OnceStep
<1>14. \A q \in Partitions : \A l \in Offsets : <<q, l>> \in new => Past(q, l)'
  BY <1>4, <1>5, <1>6 DEF new
<1>15. CountedIsPast'
  BY <1>13, <1>14, CountedPastStep
<1> QED BY <1>13, <1>15

LEMMA CountedStep ==
    ASSUME CInv, [AggregationNext]_allVars
    PROVE  CInv'
<1> USE DEF CInv
<1>next. [Next]_vars
  BY AggregationStep
<1>inv. IInv' /\ AInv'
  BY <1>next, CoverStep, SomewhereStep
<1> SUFFICES ASSUME NoRedelivery' PROVE (FirstOwners /\ CountedIsPast /\ OnceOverall)'
  BY <1>inv
<1>1. /\ FirstOwners /\ CountedIsPast /\ OnceOverall
      /\ \A m \in Members : ~StopCancel(m) /\ ~Crash(m)
  BY <1>next, NoRedeliverySoFar DEF IInv
<1>2. FirstOwners'
  BY <1>next, <1>1, FirstOwnersStep
<1>past. ASSUME (Delivered \cup Open)' \subseteq Delivered \cup Open PROVE CountedIsPast'
  <2> DEFINE new == {}
  <2>1. /\ (Delivered \cup Open)' \subseteq Delivered \cup Open \cup new
        /\ \A p \in Partitions : \A o \in Offsets : <<p, o>> \in new => Past(p, o)'
    BY <1>past
  <2> HIDE DEF new
  <2> QED BY <1>next, <1>1, <2>1, CountedPastStep
<1>same. ASSUME UNCHANGED <<windows, results>> PROVE CountedIsPast' /\ OnceOverall'
  <2>1. OnceOverall'
    BY <1>same, <1>1 DEF OnceOverall, Delivered, Open
  <2>2. (Delivered \cup Open)' \subseteq Delivered \cup Open
    BY <1>same DEF Delivered, Open
  <2> QED BY <2>1, <2>2, <1>past
<1>3. ASSUME NEW m \in Members, Handle(m) PROVE CountedIsPast' /\ OnceOverall'
  <2>1. ASSUME NEW p \in Partitions, Reject(m, p) \/ RejectFails(m, p)
        PROVE  CountedIsPast' /\ OnceOverall'
    BY <2>1, <1>same DEF Reject, RejectFails, aggregateVars
  <2> QED BY <1>3, <1>next, <1>1, <2>1, CountingStep DEF Handle
<1>4. ASSUME NEW m \in Members,
             OtherLoopStep(m) \/ GroupStep(m)
               \/ ((Start(m) \/ StopCancel(m)) /\ UNCHANGED aggregateVars)
      PROVE  CountedIsPast' /\ OnceOverall'
  BY <1>4, <1>same DEF OtherLoopStep, GroupStep, aggregateVars
<1>5. ASSUME NEW m \in Members, StopClose(m) PROVE FALSE
  BY <1>1, <1>5 DEF StopClose, FirstOwners
<1>6. ASSUME NEW m \in Members, Evict(m) PROVE CountedIsPast' /\ OnceOverall'
  <2> DEFINE ws == Evicted(windows[m])
  <2>1. windows' = [windows EXCEPT ![m] = ws] /\ results' = results
    BY <1>6 DEF Evict, AInv, WindowsShape
  <2>2. OnceIn(windows[m]) /\ WindowsShape
    BY <1>1 DEF OnceOverall, AInv
  <2>3. ws = [k \in DOMAIN windows[m] \ Idle(windows[m]) |-> windows[m][k]]
    BY DEF Evicted, Restrict
  <2> HIDE DEF ws
  <2>4. OnceIn(ws)
    BY <2>2, <2>3 DEF OnceIn
  <2>5. RecordsIn(ws) \subseteq RecordsIn(windows[m])
    BY <2>3 DEF RecordsIn
  <2> DEFINE rs == {}
  <2>6. /\ OnceOut(rs) /\ RecordsOut(rs) = {} /\ results' = results \cup rs
    BY <2>1 DEF OnceOut, RecordsOut
  <2> HIDE DEF rs
  <2>7. OnceOverall' /\ (Delivered \cup Open)' \subseteq Delivered \cup Open \cup {}
    BY <1>1, <2>1, <2>2, <2>4, <2>5, <2>6, OnceStep
  <2> QED BY <2>7, <1>past
<1>7. ASSUME Tick PROVE CountedIsPast' /\ OnceOverall'
  <2>1. windows' = [m \in Members |-> Aged(windows[m])] /\ results' = results
    BY <1>7 DEF Tick
  <2>2. ASSUME NEW m \in Members
        PROVE  OnceIn(windows'[m]) /\ RecordsIn(windows'[m]) = RecordsIn(windows[m])
    <3>1. windows'[m] = Aged(windows[m]) /\ Shape(windows[m]) /\ OnceIn(windows[m])
      BY <1>1, <2>1 DEF AInv, WindowsShape, OnceOverall
    <3>2. OnceIn(Aged(windows[m]))
      BY <3>1, AgedEvents DEF OnceIn
    <3> QED BY <3>1, <3>2, AgedRecords
  <2>3. Delivered' = Delivered /\ Open' = Open
    BY <2>1, <2>2 DEF Delivered, Open
  <2>4. OnceOverall'
    BY <1>1, <2>1, <2>2, <2>3 DEF OnceOverall
  <2> QED BY <2>3, <2>4, <1>past
<1>8. CASE UNCHANGED allVars
  <2>1. UNCHANGED <<windows, results>>
    BY <1>8 DEF allVars, aggregateVars
  <2> QED BY <2>1, <1>2, <1>same
<1> QED BY <1>1, <1>2, <1>3, <1>4, <1>5, <1>6, <1>7, <1>8 DEF AggregationNext

\* A set whose elements are all the same has at most one.
LEMMA AtMostOne ==
    ASSUME NEW S, \A x, y \in S : x = y
    PROVE  Cardinality(S) <= 1
<1>1. CASE S = {}
  BY <1>1, FS_EmptySet
<1>2. CASE S # {}
  <2>1. PICK x \in S : S = {x}
    BY <1>2
  <2>2. Cardinality({x}) = 1
    BY FS_Singleton
  <2> QED BY <2>1, <2>2
<1> QED BY <1>1, <1>2

LEMMA OnePlace ==
    ASSUME OnceOverall, NEW r
    PROVE  Cardinality(CountedAt(r)) <= 1
<1> DEFINE InResult(x) == \E res \in results : \E i \in At(res.events, r) : x = <<res, i>>
           InWindow(x) == \E m \in Members : \E k \in DOMAIN windows[m] :
                             \E i \in At(windows[m][k].events, r) : x = <<m, k, i>>
<1>1. ASSUME NEW x \in CountedAt(r) PROVE InResult(x) \/ InWindow(x)
  <2>1. CASE x \in ResultPlaces(r)
    <3>1. PICK res \in results : x \in {<<res, i>> : i \in At(res.events, r)}
      BY <2>1 DEF ResultPlaces
    <3> QED BY <3>1
  <2>2. CASE x \in WindowPlaces(r)
    <3>1. PICK m \in Members :
            x \in UNION {{<<m, k, i>> : i \in At(windows[m][k].events, r)} :
                            k \in DOMAIN windows[m]}
      BY <2>2 DEF WindowPlaces
    <3>2. PICK k \in DOMAIN windows[m] :
            x \in {<<m, k, i>> : i \in At(windows[m][k].events, r)}
      BY <3>1
    <3> QED BY <3>2
  <2> HIDE DEF InResult, InWindow
  <2> QED BY <2>1, <2>2 DEF CountedAt
<1>2. \A events : \A i \in At(events, r) : r \in RecordsOf(events)
  BY DEF At, RecordsOf
<1>3. ASSUME NEW x, InResult(x) PROVE r \in Delivered
  BY <1>2, <1>3 DEF Delivered, RecordsOut
<1>4. ASSUME NEW x, InWindow(x) PROVE r \in Open
  BY <1>2, <1>4 DEF Open, RecordsIn
<1>5. ASSUME NEW x, NEW y, InResult(x), InResult(y) PROVE x = y
  <2>1. PICK res \in results : \E i \in At(res.events, r) : x = <<res, i>>
    BY <1>5
  <2>2. PICK i \in At(res.events, r) : x = <<res, i>>
    BY <2>1
  <2>3. PICK other \in results : \E j \in At(other.events, r) : y = <<other, j>>
    BY <1>5
  <2>4. PICK j \in At(other.events, r) : y = <<other, j>>
    BY <2>3
  <2>5. other = res
    BY <1>2, <2>2, <2>4 DEF OnceOverall, OnceOut
  <2>6. i = j
    BY <2>2, <2>4, <2>5 DEF At, OnceOverall, OnceOut, NoRepeat
  <2> QED BY <2>2, <2>4, <2>5, <2>6
<1>6. ASSUME NEW x, NEW y, InWindow(x), InWindow(y) PROVE x = y
  <2>1. PICK m \in Members : \E k \in DOMAIN windows[m] :
                \E i \in At(windows[m][k].events, r) : x = <<m, k, i>>
    BY <1>6
  <2>2. PICK k \in DOMAIN windows[m] : \E i \in At(windows[m][k].events, r) : x = <<m, k, i>>
    BY <2>1
  <2>3. PICK i \in At(windows[m][k].events, r) : x = <<m, k, i>>
    BY <2>2
  <2>4. PICK n \in Members : \E l \in DOMAIN windows[n] :
                \E j \in At(windows[n][l].events, r) : y = <<n, l, j>>
    BY <1>6
  <2>5. PICK l \in DOMAIN windows[n] : \E j \in At(windows[n][l].events, r) : y = <<n, l, j>>
    BY <2>4
  <2>6. PICK j \in At(windows[n][l].events, r) : y = <<n, l, j>>
    BY <2>5
  <2>7. /\ r \in RecordsOf(windows[m][k].events) /\ r \in RecordsOf(windows[n][l].events)
    BY <1>2, <2>3, <2>6
  <2>8. m = n
    <3>1. r \in RecordsIn(windows[m]) /\ r \in RecordsIn(windows[n])
      BY <2>7 DEF RecordsIn
    <3> QED BY <3>1 DEF OnceOverall
  <2>9. k = l
    BY <2>7, <2>8 DEF OnceOverall, OnceIn
  <2>10. i = j
    BY <2>3, <2>6, <2>8, <2>9 DEF At, OnceOverall, OnceIn, NoRepeat
  <2> QED BY <2>3, <2>6, <2>8, <2>9, <2>10
<1>7. \A x, y \in CountedAt(r) : x = y
  <2> HIDE DEF InResult, InWindow
  <2> QED BY <1>1, <1>3, <1>4, <1>5, <1>6 DEF OnceOverall
<1> QED BY <1>7, AtMostOne

\* As long as no partition has moved and no process was stopped or has died, no
\* record is counted twice, in delivered results and open windows together:
\* whatever the number of members, keys and windows, Execute, the eviction loop
\* and a result that cannot be sent double nothing.
THEOREM RecordsAreCountedOnceWithoutRedelivery ==
    AggregationSpec => []CountedOnceWithoutRedelivery
<1>1. AggregationInit => FirstOwners /\ CountedIsPast /\ OnceOverall
  <2> SUFFICES ASSUME AggregationInit PROVE FirstOwners /\ CountedIsPast /\ OnceOverall
    OBVIOUS
  <2>1. FirstOwners
    BY DEF AggregationInit, Init, NoBatch, FirstOwners
  <2>2. Delivered = {} /\ \A m \in Members : windows[m] = NoWindows /\ RecordsIn(NoWindows) = {}
    BY DEF AggregationInit, Delivered, RecordsOut, NoWindows, RecordsIn
  <2>3. Open = {}
    BY <2>2 DEF Open
  <2>4. CountedIsPast
    BY <2>2, <2>3 DEF CountedIsPast
  <2>5. OnceIn(NoWindows) /\ OnceOut(results)
    BY DEF AggregationInit, OnceIn, OnceOut, NoWindows
  <2>6. OnceOverall
    BY <2>2, <2>3, <2>5 DEF OnceOverall
  <2> QED BY <2>1, <2>4, <2>6
<1>2. CInv => CountedOnceWithoutRedelivery
  BY OnePlace DEF CInv, NoRedelivery, CountedOnceWithoutRedelivery
<1>3. CInv /\ [AggregationNext]_allVars => CInv'
  BY CountedStep
<1>4. AggregationSpec => []IInv
  BY Covered, AggregationRefinesConsumer, PTL
<1>5. AggregationInit /\ IInv /\ AInv => CInv
  BY <1>1 DEF CInv
<1> QED BY <1>2, <1>3, <1>4, <1>5, Somewhere, PTL DEF AggregationSpec

-----------------------------------------------------------------------------
(* Induction and folds                                                     *)

\* Induction, for the numbers in a set.
LEMMA Induction ==
    ASSUME NEW S, 0 \in S, \A n \in Nat : n \in S => n + 1 \in S
    PROVE  Nat \subseteq S
<1> DEFINE T == Nat \ S
<1> SUFFICES ASSUME T # {} PROVE FALSE
  OBVIOUS
<1>1. PICK x \in T : \A y \in T : ~(<<y, x>> \in OpToRel(<, Nat))
  BY WFMin, NatLessThanWellFounded, Zenon
<1>2. \A y \in T : ~(y < x)
  BY <1>1 DEF OpToRel
<1>3. x # 0 /\ x - 1 \in Nat /\ x - 1 \notin T
  BY <1>2
<1> QED BY <1>3

LEMMA MaxUpTo ==
    ASSUME NEW k \in Nat, NEW s \in SUBSET (1 .. k), k \in s
    PROVE  Max(s) = k
<1>1. \A y \in s : k >= y
  OBVIOUS
<1>2. \A x \in s : (\A y \in s : x >= y) => x = k
  OBVIOUS
<1> QED BY <1>1, <1>2 DEF Max

\* What one aggregation makes of the states.
UpdateOne(states, agg, numbers) ==
    IF agg.field \in DOMAIN numbers
    THEN [states EXCEPT ![agg.as] = Update(@, agg.function, numbers[agg.field])]
    ELSE states

UpdateFold(g, as, numbers, k) ==
    g = [s \in SUBSET (1 .. k) |->
           IF s = {} THEN as
           ELSE UpdateOne(g[s \ {Max(s)}], Aggregations[Max(s)], numbers)]

LEMMA UpdateFolds ==
    ASSUME NEW as, NEW numbers
    PROVE  \A k \in Nat : \E g : UpdateFold(g, as, numbers, k)
<1> DEFINE S == {k \in Nat : \E g : UpdateFold(g, as, numbers, k)}
<1>1. 0 \in S
  <2> DEFINE g == [s \in SUBSET (1 .. 0) |-> as]
  <2>1. \A s \in SUBSET (1 .. 0) : s = {}
    OBVIOUS
  <2>2. g = [s \in SUBSET (1 .. 0) |->
                IF s = {} THEN as
                ELSE UpdateOne(g[s \ {Max(s)}], Aggregations[Max(s)], numbers)]
    BY <2>1, Zenon
  <2>3. UpdateFold(g, as, numbers, 0)
    BY <2>2, Zenon DEF UpdateFold
  <2> HIDE DEF g
  <2> QED BY <2>3
<1>2. ASSUME NEW k \in Nat, k \in S PROVE k + 1 \in S
  <2>1. PICK g : UpdateFold(g, as, numbers, k)
    BY <1>2
  <2> DEFINE new(s) == UpdateOne(g[s \ {k + 1}], Aggregations[k + 1], numbers)
             h == [s \in SUBSET (1 .. k + 1) |-> IF k + 1 \in s THEN new(s) ELSE g[s]]
             body(s) == IF s = {} THEN as
                        ELSE UpdateOne(h[s \ {Max(s)}], Aggregations[Max(s)], numbers)
  <2>2. ASSUME NEW s \in SUBSET (1 .. k + 1) PROVE h[s] = body(s)
    <3>1. CASE k + 1 \in s
      <4>1. Max(s) = k + 1 /\ s # {}
        BY <3>1, k + 1 \in Nat, MaxUpTo
      <4>2. h[s \ {k + 1}] = g[s \ {k + 1}]
        OBVIOUS
      <4>3. h[s] = new(s)
        BY <3>1
      <4> HIDE DEF h
      <4> QED BY <4>1, <4>2, <4>3
    <3>2. CASE k + 1 \notin s
      <4>1. s \in SUBSET (1 .. k)
        BY <3>2
      <4>2. h[s] = g[s] /\ h[s \ {Max(s)}] = g[s \ {Max(s)}]
        BY <3>2, <4>1, s \ {Max(s)} \in SUBSET (1 .. k)
      <4>3. g[s] = IF s = {} THEN as
                   ELSE UpdateOne(g[s \ {Max(s)}], Aggregations[Max(s)], numbers)
        BY <2>1, <4>1, Zenon DEF UpdateFold
      <4> HIDE DEF h
      <4> QED BY <4>2, <4>3
    <3> QED BY <3>1, <3>2
  <2>3. h = [s \in SUBSET (1 .. k + 1) |-> body(s)]
    <3>1. h = [s \in SUBSET (1 .. k + 1) |-> h[s]]
      OBVIOUS
    <3> HIDE DEF h
    <3> QED BY <2>2, <3>1, Zenon
  <2>4. UpdateFold(h, as, numbers, k + 1)
    BY <2>3, Zenon DEF UpdateFold
  <2>5. \E i : UpdateFold(i, as, numbers, k + 1)
    BY <2>4, Zenon
  <2> QED BY <2>5, k + 1 \in Nat
<1>3. Nat \subseteq S
  <2> HIDE DEF S
  <2> QED BY <1>1, <1>2, Induction
<1> QED BY <1>3

\* updateAggregationsIncremental goes through the aggregations in their order.
LEMMA UpdateRun ==
    ASSUME NEW as, NEW numbers
    PROVE  \E f : /\ f[0] = as
                  /\ \A k \in 1 .. Len(Aggregations) :
                        f[k] = UpdateOne(f[k - 1], Aggregations[k], numbers)
                  /\ UpdateAggregations(as, numbers) = f[Len(Aggregations)]
<1> DEFINE n == Len(Aggregations)
           iter == CHOOSE g : UpdateFold(g, as, numbers, n)
           f == [k \in 0 .. n |-> iter[1 .. k]]
<1>1. n \in Nat /\ DOMAIN Aggregations = 1 .. n
  BY AggregationsAssumption
<1>2. UpdateFold(iter, as, numbers, n)
  BY <1>1, UpdateFolds, Zenon
<1>3. UpdateAggregations(as, numbers) = iter[1 .. n]
  BY <1>1, Zenon DEF UpdateAggregations, FoldLeft, MapThenFoldSet, UpdateOne, UpdateFold
<1> HIDE DEF iter, n
<1>4. f[0] = as
  <2>1. f[0] = iter[{}] /\ {} \in SUBSET (1 .. n)
    BY <1>1, 1 .. 0 = {}
  <2> QED BY <1>2, <2>1, Zenon DEF UpdateFold
<1>5. ASSUME NEW k \in 1 .. n
      PROVE  f[k] = UpdateOne(f[k - 1], Aggregations[k], numbers)
  <2>1. k \in 0 .. n /\ k - 1 \in 0 .. n /\ k - 1 \in Nat
    BY <1>1
  <2>2. 1 .. k \in SUBSET (1 .. n) /\ 1 .. k # {}
    BY <1>1
  <2>3. Max(1 .. k) = k
    BY <1>1, k \in Nat, k \in 1 .. k, 1 .. k \in SUBSET (1 .. k), MaxUpTo
  <2>4. (1 .. k) \ {k} = 1 .. k - 1
    BY <2>1
  <2>5. iter[1 .. k] = UpdateOne(iter[(1 .. k) \ {Max(1 .. k)}], Aggregations[Max(1 .. k)], numbers)
    BY <1>2, <2>2, Zenon DEF UpdateFold
  <2> QED BY <2>1, <2>3, <2>4, <2>5
<1>6. f[n] = iter[1 .. n]
  BY <1>1
<1> HIDE DEF f
<1> QED BY <1>3, <1>4, <1>5, <1>6 DEF n

NoFields == [a \in Names |-> {}]

SetValue(fields, agg, aggregates) ==
    LET value == ValueOf(aggregates[agg.as], agg.function)
    IN  IF value = {} THEN fields ELSE [fields EXCEPT ![agg.as] = value]

ResultFold(g, aggregates, k) ==
    g = [s \in SUBSET (1 .. k) |->
           IF s = {} THEN NoFields
           ELSE SetValue(g[s \ {Max(s)}], Aggregations[Max(s)], aggregates)]

LEMMA ResultFolds ==
    ASSUME NEW aggregates
    PROVE  \A k \in Nat : \E g : ResultFold(g, aggregates, k)
<1> DEFINE S == {k \in Nat : \E g : ResultFold(g, aggregates, k)}
<1>1. 0 \in S
  <2> DEFINE g == [s \in SUBSET (1 .. 0) |-> NoFields]
  <2>1. \A s \in SUBSET (1 .. 0) : s = {}
    OBVIOUS
  <2>2. g = [s \in SUBSET (1 .. 0) |->
                IF s = {} THEN NoFields
                ELSE SetValue(g[s \ {Max(s)}], Aggregations[Max(s)], aggregates)]
    BY <2>1, Zenon
  <2>3. ResultFold(g, aggregates, 0)
    BY <2>2, Zenon DEF ResultFold
  <2> HIDE DEF g
  <2> QED BY <2>3
<1>2. ASSUME NEW k \in Nat, k \in S PROVE k + 1 \in S
  <2>1. PICK g : ResultFold(g, aggregates, k)
    BY <1>2
  <2> DEFINE new(s) == SetValue(g[s \ {k + 1}], Aggregations[k + 1], aggregates)
             h == [s \in SUBSET (1 .. k + 1) |-> IF k + 1 \in s THEN new(s) ELSE g[s]]
             body(s) == IF s = {} THEN NoFields
                        ELSE SetValue(h[s \ {Max(s)}], Aggregations[Max(s)], aggregates)
  <2>2. ASSUME NEW s \in SUBSET (1 .. k + 1) PROVE h[s] = body(s)
    <3>1. CASE k + 1 \in s
      <4>1. Max(s) = k + 1 /\ s # {}
        BY <3>1, k + 1 \in Nat, MaxUpTo
      <4>2. h[s \ {k + 1}] = g[s \ {k + 1}]
        OBVIOUS
      <4>3. h[s] = new(s)
        BY <3>1
      <4> HIDE DEF h
      <4> QED BY <4>1, <4>2, <4>3
    <3>2. CASE k + 1 \notin s
      <4>1. s \in SUBSET (1 .. k)
        BY <3>2
      <4>2. h[s] = g[s] /\ h[s \ {Max(s)}] = g[s \ {Max(s)}]
        BY <3>2, <4>1, s \ {Max(s)} \in SUBSET (1 .. k)
      <4>3. g[s] = IF s = {} THEN NoFields
                   ELSE SetValue(g[s \ {Max(s)}], Aggregations[Max(s)], aggregates)
        BY <2>1, <4>1, Zenon DEF ResultFold
      <4> HIDE DEF h
      <4> QED BY <4>2, <4>3
    <3> QED BY <3>1, <3>2
  <2>3. h = [s \in SUBSET (1 .. k + 1) |-> body(s)]
    <3>1. h = [s \in SUBSET (1 .. k + 1) |-> h[s]]
      OBVIOUS
    <3> HIDE DEF h
    <3> QED BY <2>2, <3>1, Zenon
  <2>4. ResultFold(h, aggregates, k + 1)
    BY <2>3, Zenon DEF ResultFold
  <2>5. \E i : ResultFold(i, aggregates, k + 1)
    BY <2>4, Zenon
  <2> QED BY <2>5, k + 1 \in Nat
<1>3. Nat \subseteq S
  <2> HIDE DEF S
  <2> QED BY <1>1, <1>2, Induction
<1> QED BY <1>3

\* And so are the fields of a result set.
LEMMA ResultRun ==
    ASSUME NEW aggregates
    PROVE  \E f : /\ f[0] = NoFields
                  /\ \A k \in 1 .. Len(Aggregations) :
                        f[k] = SetValue(f[k - 1], Aggregations[k], aggregates)
                  /\ ResultFields(aggregates) = f[Len(Aggregations)]
<1> DEFINE n == Len(Aggregations)
           iter == CHOOSE g : ResultFold(g, aggregates, n)
           f == [k \in 0 .. n |-> iter[1 .. k]]
<1>1. n \in Nat /\ DOMAIN Aggregations = 1 .. n
  BY AggregationsAssumption
<1>2. ResultFold(iter, aggregates, n)
  BY <1>1, ResultFolds, Zenon
<1>3. ResultFields(aggregates) = iter[1 .. n]
  BY <1>1, Zenon DEF ResultFields, FoldLeft, MapThenFoldSet, SetValue, NoFields, ResultFold
<1> HIDE DEF iter, n
<1>4. f[0] = NoFields
  <2>1. f[0] = iter[{}] /\ {} \in SUBSET (1 .. n)
    BY <1>1, 1 .. 0 = {}
  <2> QED BY <1>2, <2>1, Zenon DEF ResultFold
<1>5. ASSUME NEW k \in 1 .. n
      PROVE  f[k] = SetValue(f[k - 1], Aggregations[k], aggregates)
  <2>1. k \in 0 .. n /\ k - 1 \in 0 .. n /\ k - 1 \in Nat
    BY <1>1
  <2>2. 1 .. k \in SUBSET (1 .. n) /\ 1 .. k # {}
    BY <1>1
  <2>3. Max(1 .. k) = k
    BY <1>1, k \in Nat, k \in 1 .. k, 1 .. k \in SUBSET (1 .. k), MaxUpTo
  <2>4. (1 .. k) \ {k} = 1 .. k - 1
    BY <2>1
  <2>5. iter[1 .. k] = SetValue(iter[(1 .. k) \ {Max(1 .. k)}], Aggregations[Max(1 .. k)], aggregates)
    BY <1>2, <2>2, Zenon DEF ResultFold
  <2> QED BY <2>1, <2>3, <2>4, <2>5
<1>6. f[n] = iter[1 .. n]
  BY <1>1
<1> HIDE DEF f
<1> QED BY <1>3, <1>4, <1>5, <1>6 DEF n

-----------------------------------------------------------------------------
NumberAt(events, field, i) ==
    IF i \in HasNumber(events, field) THEN events[i].numbers[field] ELSE 0

Sums(g, events, field, n) ==
    g = [k \in 0 .. n |-> IF k = 0 THEN 0 ELSE g[k - 1] + NumberAt(events, field, k)]

LEMMA SumsExist ==
    ASSUME NEW events, NEW field
    PROVE  \A n \in Nat : \E g : Sums(g, events, field, n)
<1> DEFINE S == {n \in Nat : \E g : Sums(g, events, field, n)}
           number(k) == NumberAt(events, field, k)
<1>1. 0 \in S
  <2> DEFINE g == [k \in 0 .. 0 |-> 0]
  <2>1. g = [k \in 0 .. 0 |-> IF k = 0 THEN 0 ELSE g[k - 1] + number(k)]
    <3>1. \A k \in 0 .. 0 : k = 0
      OBVIOUS
    <3> QED BY <3>1, Zenon
  <2>2. Sums(g, events, field, 0)
    BY <2>1, Zenon DEF Sums
  <2>3. \E h : Sums(h, events, field, 0)
    BY <2>2, Zenon
  <2> QED BY <2>3
<1>2. ASSUME NEW n \in Nat, n \in S PROVE n + 1 \in S
  <2>1. PICK g : Sums(g, events, field, n)
    BY <1>2
  <2> DEFINE h == [k \in 0 .. n + 1 |-> IF k = n + 1 THEN g[n] + number(n + 1) ELSE g[k]]
             body(k) == IF k = 0 THEN 0 ELSE h[k - 1] + number(k)
  <2>2. ASSUME NEW k \in 0 .. n + 1 PROVE h[k] = body(k)
    <3>1. CASE k = n + 1
      <4>1. h[k] = g[n] + number(k) /\ h[n] = g[n] /\ k - 1 = n /\ k # 0
        BY <3>1
      <4> HIDE DEF h, number
      <4> QED BY <4>1
    <3>2. CASE k = 0
      <4>1. h[0] = g[0]
        OBVIOUS
      <4>2. g[0] = 0
        BY <2>1, 0 \in 0 .. n, Zenon DEF Sums
      <4> HIDE DEF h, number
      <4> QED BY <3>2, <4>1, <4>2
    <3>3. CASE k # n + 1 /\ k # 0
      <4>1. k \in 0 .. n /\ h[k] = g[k] /\ h[k - 1] = g[k - 1]
        BY <3>3
      <4>2. g[k] = g[k - 1] + number(k)
        BY <2>1, <3>3, <4>1, Zenon DEF Sums
      <4> HIDE DEF h, number
      <4> QED BY <3>3, <4>1, <4>2
    <3> QED BY <3>1, <3>2, <3>3
  <2>3. h = [k \in 0 .. n + 1 |-> body(k)]
    <3>1. h = [k \in 0 .. n + 1 |-> h[k]]
      OBVIOUS
    <3> HIDE DEF h
    <3> QED BY <2>2, <3>1, Zenon
  <2>4. Sums(h, events, field, n + 1)
    BY <2>3, Zenon DEF Sums
  <2>5. \E i : Sums(i, events, field, n + 1)
    BY <2>4, Zenon
  <2> QED BY <2>5, n + 1 \in Nat
<1>3. Nat \subseteq S
  <2> HIDE DEF S
  <2> QED BY <1>1, <1>2, Induction
<1> QED BY <1>3

LEMMA SumIsLast ==
    ASSUME NEW E, NEW events \in Seq(E), NEW field
    PROVE  \E g : Sums(g, events, field, Len(events)) /\ SumOf(events, field) = g[Len(events)]
<1> DEFINE n == Len(events)
           sum == CHOOSE g : Sums(g, events, field, n)
<1>1. n \in Nat
  OBVIOUS
<1>2. Sums(sum, events, field, n)
  BY <1>1, SumsExist, Zenon
<1>3. SumOf(events, field) = sum[n]
  BY Zenon DEF SumOf, Sums, NumberAt
<1> HIDE DEF sum
<1> QED BY <1>2, <1>3

\* One more event.
Addend(ev, field) == IF field \in DOMAIN ev.numbers THEN ev.numbers[field] ELSE 0

LEMMA AppendNumbers ==
    ASSUME NEW E, NEW events \in Seq(E), NEW ev \in E, NEW field
    PROVE  /\ HasNumber(Append(events, ev), field) =
                 HasNumber(events, field)
                   \cup (IF field \in DOMAIN ev.numbers THEN {Len(events) + 1} ELSE {})
           /\ Len(events) + 1 \notin HasNumber(events, field)
           /\ NumbersOf(Append(events, ev), field) =
                 NumbersOf(events, field)
                   \cup (IF field \in DOMAIN ev.numbers THEN {ev.numbers[field]} ELSE {})
<1> DEFINE n == Len(events) + 1
           more == Append(events, ev)
<1>1. /\ DOMAIN events = 1 .. Len(events) /\ Len(events) \in Nat
      /\ DOMAIN more = 1 .. n
      /\ more[n] = ev
      /\ \A k \in 1 .. Len(events) : more[k] = events[k]
  OBVIOUS
<1> HIDE DEF more
<1>2. HasNumber(more, field) =
         HasNumber(events, field) \cup (IF field \in DOMAIN ev.numbers THEN {n} ELSE {})
  BY <1>1 DEF HasNumber
<1>3. n \notin HasNumber(events, field)
  BY <1>1 DEF HasNumber
<1>4. \A k \in HasNumber(events, field) : more[k] = events[k]
  BY <1>1 DEF HasNumber
<1> HIDE DEF n
<1>5. NumbersOf(more, field) =
         NumbersOf(events, field)
           \cup (IF field \in DOMAIN ev.numbers THEN {ev.numbers[field]} ELSE {})
  BY <1>1, <1>2, <1>4 DEF NumbersOf
<1> QED BY <1>2, <1>3, <1>5 DEF n, more

LEMMA AppendNumberAt ==
    ASSUME NEW E, NEW events \in Seq(E), NEW ev \in E, NEW field
    PROVE  /\ \A k \in 1 .. Len(events) :
                 NumberAt(Append(events, ev), field, k) = NumberAt(events, field, k)
           /\ NumberAt(Append(events, ev), field, Len(events) + 1) = Addend(ev, field)
<1> DEFINE n == Len(events) + 1
           more == Append(events, ev)
<1>1. /\ DOMAIN events = 1 .. Len(events) /\ Len(events) \in Nat
      /\ DOMAIN more = 1 .. n
      /\ more[n] = ev
      /\ \A k \in 1 .. Len(events) : more[k] = events[k]
  OBVIOUS
<1> HIDE DEF more
<1>2. \A k \in 1 .. Len(events) : NumberAt(more, field, k) = NumberAt(events, field, k)
  BY <1>1 DEF NumberAt, HasNumber
<1>3. NumberAt(more, field, n) = Addend(ev, field)
  BY <1>1 DEF NumberAt, Addend, HasNumber
<1> QED BY <1>2, <1>3 DEF n, more

LEMMA AppendSum ==
    ASSUME NEW E, NEW events \in Seq(E), NEW ev \in E, NEW field
    PROVE  SumOf(Append(events, ev), field) =
              SumOf(events, field) + Addend(ev, field)
<1> DEFINE n == Len(events)
           more == Append(events, ev)
<1>1. n \in Nat /\ more \in Seq(E) /\ Len(more) = n + 1
  OBVIOUS
<1>2. PICK g : Sums(g, events, field, n) /\ SumOf(events, field) = g[n]
  BY SumIsLast
<1>3. PICK h : Sums(h, more, field, n + 1) /\ SumOf(more, field) = h[n + 1]
  BY <1>1, SumIsLast
<1>4. /\ \A k \in 1 .. n : NumberAt(more, field, k) = NumberAt(events, field, k)
      /\ NumberAt(more, field, n + 1) = Addend(ev, field)
  BY AppendNumberAt
<1> HIDE DEF n, more
<1> DEFINE S == {k \in Nat : k <= n => h[k] = g[k]}
<1>5. 0 \in S
  <2>1. 0 \in 0 .. n /\ 0 \in 0 .. n + 1
    BY <1>1
  <2>2. h[0] = 0 /\ g[0] = 0
    BY <1>2, <1>3, <2>1, Zenon DEF Sums
  <2> QED BY <2>2
<1>6. ASSUME NEW k \in Nat, k \in S PROVE k + 1 \in S
  <2> SUFFICES ASSUME k + 1 <= n PROVE h[k + 1] = g[k + 1]
    OBVIOUS
  <2>1. /\ k + 1 \in 0 .. n /\ k + 1 \in 0 .. n + 1 /\ k + 1 # 0 /\ (k + 1) - 1 = k
        /\ h[k] = g[k] /\ k + 1 \in 1 .. n
    BY <1>1, <1>6
  <2>2. /\ h[k + 1] = h[(k + 1) - 1] + NumberAt(more, field, k + 1)
        /\ g[k + 1] = g[(k + 1) - 1] + NumberAt(events, field, k + 1)
    BY <1>2, <1>3, <2>1, Zenon DEF Sums
  <2> QED BY <1>4, <2>1, <2>2
<1>7. Nat \subseteq S
  <2> HIDE DEF S
  <2> QED BY <1>5, <1>6, Induction
<1>8. h[n] = g[n]
  BY <1>1, <1>7
<1>9. h[n + 1] = h[n] + NumberAt(more, field, n + 1)
  <2>1. n + 1 \in 0 .. n + 1 /\ n + 1 # 0 /\ (n + 1) - 1 = n
    BY <1>1
  <2>2. h[n + 1] = h[(n + 1) - 1] + NumberAt(more, field, n + 1)
    BY <1>3, <2>1, Zenon DEF Sums
  <2> QED BY <2>1, <2>2
<1> QED BY <1>2, <1>3, <1>4, <1>8, <1>9 DEF more

-----------------------------------------------------------------------------
(* The state of an aggregation                                             *)

Pointers == {{}} \cup {{x} : x \in Int}
States == [sum : Int, count : Nat, min : Pointers, max : Pointers]

Least(S) == {x \in S : \A y \in S : x <= y}
Greatest(S) == {x \in S : \A y \in S : x >= y}

IsLeast(m, S) == m = Least(S) /\ (S # {} => m # {})
IsGreatest(m, S) == m = Greatest(S) /\ (S # {} => m # {})

\* The state is that of the aggregation over the events.
AddsUp(events, state, agg) ==
    /\ agg.function \in {"sum", "avg"} => state.sum = SumOf(events, agg.field)
    /\ agg.function \in {"sum", "avg", "count"} =>
          state.count = Cardinality(HasNumber(events, agg.field))
    /\ agg.function = "min" => IsLeast(state.min, NumbersOf(events, agg.field))
    /\ agg.function = "max" => IsGreatest(state.max, NumbersOf(events, agg.field))

LEMMA AddsUpValue ==
    ASSUME NEW events, NEW state \in States, NEW agg, agg.function \in AggregateFunctions,
           AddsUp(events, state, agg)
    PROVE  ValueOf(state, agg.function) = Expected(events, agg)
<1>1. CASE agg.function = "sum"
  BY <1>1 DEF AddsUp, ValueOf, Expected
<1>2. CASE agg.function = "count"
  BY <1>2 DEF AddsUp, ValueOf, Expected
<1>3. CASE agg.function = "avg"
  <2>1. state.count > 0 <=> Cardinality(HasNumber(events, agg.field)) # 0
    BY <1>3 DEF AddsUp, States
  <2> QED BY <1>3, <2>1 DEF AddsUp, ValueOf, Expected
<1>4. CASE agg.function = "min"
  BY <1>4 DEF AddsUp, ValueOf, Expected, IsLeast, Least
<1>5. CASE agg.function = "max"
  BY <1>5 DEF AddsUp, ValueOf, Expected, IsGreatest, Greatest
<1> QED BY <1>1, <1>2, <1>3, <1>4, <1>5 DEF AggregateFunctions

LEMMA OneMoreExtreme ==
    ASSUME NEW S, NEW v, NEW m, S \subseteq Int, v \in Int
    PROVE  /\ IsLeast(m, S) => IsLeast({Min(m \cup {v})}, S \cup {v})
           /\ IsGreatest(m, S) => IsGreatest({Max(m \cup {v})}, S \cup {v})
<1>1. ASSUME IsLeast(m, S) PROVE IsLeast({Min(m \cup {v})}, S \cup {v})
  <2>1. PICK x \in m \cup {v} : \A y \in S \cup {v} : x <= y
    <3>1. CASE S = {}
      BY <3>1
    <3>2. CASE S # {}
      <4>1. PICK z \in m : z \in S /\ \A y \in S : z <= y
        BY <1>1, <3>2 DEF IsLeast, Least
      <4>2. CASE z <= v
        BY <4>1, <4>2
      <4>3. CASE ~(z <= v)
        <5>1. \A y \in S \cup {v} : v <= y
          BY <4>1, <4>3
        <5> QED BY <5>1
      <4> QED BY <4>2, <4>3
    <3> QED BY <3>1, <3>2
  <2>2. x \in S \cup {v} /\ m \cup {v} \subseteq S \cup {v}
    BY <1>1 DEF IsLeast, Least
  <2>3. Min(m \cup {v}) = x
    <3>1. \A z \in m \cup {v} : (\A y \in m \cup {v} : z <= y) => z = x
      BY <2>1, <2>2
    <3> QED BY <2>1, <2>2, <3>1 DEF Min
  <2>4. Least(S \cup {v}) = {x}
    <3>1. \A y \in S \cup {v} : (\A z \in S \cup {v} : y <= z) => y = x
      BY <2>1, <2>2
    <3> QED BY <2>1, <2>2, <3>1 DEF Least
  <2> QED BY <2>3, <2>4 DEF IsLeast
<1>2. ASSUME IsGreatest(m, S) PROVE IsGreatest({Max(m \cup {v})}, S \cup {v})
  <2>1. PICK x \in m \cup {v} : \A y \in S \cup {v} : x >= y
    <3>1. CASE S = {}
      BY <3>1
    <3>2. CASE S # {}
      <4>1. PICK z \in m : z \in S /\ \A y \in S : z >= y
        BY <1>2, <3>2 DEF IsGreatest, Greatest
      <4>2. CASE z >= v
        BY <4>1, <4>2
      <4>3. CASE ~(z >= v)
        <5>1. \A y \in S \cup {v} : v >= y
          BY <4>1, <4>3
        <5> QED BY <5>1
      <4> QED BY <4>2, <4>3
    <3> QED BY <3>1, <3>2
  <2>2. x \in S \cup {v} /\ m \cup {v} \subseteq S \cup {v}
    BY <1>2 DEF IsGreatest, Greatest
  <2>3. Max(m \cup {v}) = x
    <3>1. \A z \in m \cup {v} : (\A y \in m \cup {v} : z >= y) => z = x
      BY <2>1, <2>2
    <3> QED BY <2>1, <2>2, <3>1 DEF Max
  <2>4. Greatest(S \cup {v}) = {x}
    <3>1. \A y \in S \cup {v} : (\A z \in S \cup {v} : y >= z) => y = x
      BY <2>1, <2>2
    <3> QED BY <2>1, <2>2, <3>1 DEF Greatest
  <2> QED BY <2>3, <2>4 DEF IsGreatest
<1> QED BY <1>1, <1>2

Numeric(E) == \A e \in E : \A f \in DOMAIN e.numbers : e.numbers[f] \in Int

LEMMA UpdateFits ==
    ASSUME NEW state \in States, NEW function \in AggregateFunctions, NEW v \in Int
    PROVE  Update(state, function, v) \in States
<1>1. CASE function \in {"sum", "avg"}
  <2>1. Update(state, function, v) = [state EXCEPT !.sum = @ + v, !.count = @ + 1]
    BY <1>1 DEF Update
  <2> DEFINE one == [state EXCEPT !.sum = state.sum + v]
  <2>2. Update(state, function, v) = [one EXCEPT !.count = state.count + 1]
    BY <2>1, Zenon
  <2>3. one \in States /\ state.count + 1 \in Nat
    BY DEF States
  <2> HIDE DEF one
  <2> QED BY <2>2, <2>3 DEF States
<1>2. CASE function = "count"
  BY <1>2 DEF Update, States
<1>3. ASSUME NEW m \in Pointers
      PROVE  Min(m \cup {v}) \in Int /\ Max(m \cup {v}) \in Int
  <2>1. PICK x \in m \cup {v} : \A y \in m \cup {v} : x <= y
    <3>1. CASE m = {}
      BY <3>1
    <3>2. ASSUME NEW z \in Int, m = {z} PROVE \E x \in m \cup {v} : \A y \in m \cup {v} : x <= y
      BY <3>2, z <= v \/ v <= z
    <3> QED BY <3>1, <3>2 DEF Pointers
  <2>2. PICK u \in m \cup {v} : \A y \in m \cup {v} : u >= y
    <3>1. CASE m = {}
      BY <3>1
    <3>2. ASSUME NEW z \in Int, m = {z} PROVE \E u \in m \cup {v} : \A y \in m \cup {v} : u >= y
      BY <3>2, z >= v \/ v >= z
    <3> QED BY <3>1, <3>2 DEF Pointers
  <2>3. m \cup {v} \subseteq Int
    BY DEF Pointers
  <2>4. Min(m \cup {v}) \in m \cup {v}
    BY <2>1 DEF Min
  <2>5. Max(m \cup {v}) \in m \cup {v}
    BY <2>2 DEF Max
  <2> QED BY <2>3, <2>4, <2>5
<1>4. state.min \in Pointers /\ state.max \in Pointers
  BY DEF States
<1>5. CASE function = "min"
  <2>1. {Min(state.min \cup {v})} \in Pointers
    BY <1>3, <1>4 DEF Pointers
  <2>2. Update(state, function, v) = [state EXCEPT !.min = {Min(@ \cup {v})}]
    BY <1>5 DEF Update
  <2> QED BY <2>1, <2>2 DEF States
<1>6. CASE function = "max"
  <2>1. {Max(state.max \cup {v})} \in Pointers
    BY <1>3, <1>4 DEF Pointers
  <2>2. Update(state, function, v) = [state EXCEPT !.max = {Max(@ \cup {v})}]
    BY <1>6 DEF Update
  <2> QED BY <2>1, <2>2 DEF States
<1> QED BY <1>1, <1>2, <1>5, <1>6 DEF AggregateFunctions

LEMMA AddsUpAppend ==
    ASSUME NEW E, Numeric(E), NEW events \in Seq(E), NEW ev \in E,
           NEW agg, agg.function \in AggregateFunctions,
           NEW state \in States, AddsUp(events, state, agg)
    PROVE  IF agg.field \in DOMAIN ev.numbers
           THEN AddsUp(Append(events, ev), Update(state, agg.function, ev.numbers[agg.field]), agg)
           ELSE AddsUp(Append(events, ev), state, agg)
<1> DEFINE more == Append(events, ev)
           field == agg.field
           has == HasNumber(events, field)
           v == ev.numbers[field]
<1>1. /\ HasNumber(more, field) = has \cup (IF field \in DOMAIN ev.numbers THEN {Len(events) + 1} ELSE {})
      /\ Len(events) + 1 \notin has
      /\ NumbersOf(more, field) = NumbersOf(events, field) \cup (IF field \in DOMAIN ev.numbers THEN {v} ELSE {})
  BY AppendNumbers
<1>2. SumOf(more, field) = SumOf(events, field) + (IF field \in DOMAIN ev.numbers THEN v ELSE 0)
  BY AppendSum DEF Addend
<1>3. NumbersOf(events, field) \subseteq Int /\ (field \in DOMAIN ev.numbers => v \in Int)
  BY DEF NumbersOf, HasNumber, Numeric
<1>4. IsFiniteSet(has) /\ Cardinality(has) \in Nat
  <2>1. has \subseteq 1 .. Len(events) /\ 1 \in Int /\ Len(events) \in Int
    BY DEF HasNumber
  <2> QED BY <2>1, FS_Interval, FS_Subset, FS_CardinalityType
<1>5. state.sum \in Int /\ state.count \in Nat
  BY DEF States
<1> HIDE DEF more, field, has, v
<1>6. CASE field \notin DOMAIN ev.numbers
  <2>1. HasNumber(more, field) = HasNumber(events, field) /\ NumbersOf(more, field) = NumbersOf(events, field)
    BY <1>1, <1>6 DEF has
  <2>2. agg.function \in {"sum", "avg"} => SumOf(more, field) = SumOf(events, field)
    BY <1>2, <1>5, <1>6 DEF AddsUp, field
  <2> QED BY <1>6, <2>1, <2>2 DEF AddsUp, more, field
<1>7. CASE field \in DOMAIN ev.numbers
  <2> DEFINE new == Update(state, agg.function, v)
  <2>1. Cardinality(HasNumber(more, field)) = Cardinality(has) + 1
    BY <1>1, <1>4, <1>7, FS_AddElement
  <2>2. CASE agg.function \in {"sum", "avg"}
    <3>1. new.sum = state.sum + v /\ new.count = state.count + 1
      BY <2>2 DEF Update, States
    <3> HIDE DEF new
    <3>2. AddsUp(more, new, agg)
      BY <1>2, <1>7, <2>1, <2>2, <3>1 DEF AddsUp, field, has
    <3> QED BY <1>7, <3>2 DEF new, more, field, v
  <2>3. CASE agg.function = "count"
    <3>1. new.count = state.count + 1
      BY <2>3 DEF Update, States
    <3> HIDE DEF new
    <3>2. AddsUp(more, new, agg)
      BY <2>1, <2>3, <3>1 DEF AddsUp, field, has
    <3> QED BY <1>7, <3>2 DEF new, more, field, v
  <2>4. CASE agg.function = "min"
    <3>1. new.min = {Min(state.min \cup {v})}
      BY <2>4 DEF Update, States
    <3> HIDE DEF new
    <3>2. IsLeast(state.min, NumbersOf(events, field))
      BY <2>4 DEF AddsUp, field
    <3>3. IsLeast(new.min, NumbersOf(events, field) \cup {v})
      <4> DEFINE m == state.min
                 S == NumbersOf(events, field)
      <4>1. S \subseteq Int /\ v \in Int /\ IsLeast(m, S) /\ new.min = {Min(m \cup {v})}
        BY <1>3, <1>7, <3>1, <3>2
      <4> HIDE DEF m, S
      <4>2. IsLeast({Min(m \cup {v})}, S \cup {v})
        BY <4>1, OneMoreExtreme
      <4> QED BY <4>1, <4>2 DEF S
    <3>4. AddsUp(more, new, agg)
      BY <1>1, <1>7, <2>4, <3>3 DEF AddsUp, field
    <3> QED BY <1>7, <3>4 DEF new, more, field, v
  <2>5. CASE agg.function = "max"
    <3>1. new.max = {Max(state.max \cup {v})}
      BY <2>5 DEF Update, States
    <3> HIDE DEF new
    <3>2. IsGreatest(state.max, NumbersOf(events, field))
      BY <2>5 DEF AddsUp, field
    <3>3. IsGreatest(new.max, NumbersOf(events, field) \cup {v})
      <4> DEFINE m == state.max
                 S == NumbersOf(events, field)
      <4>1. S \subseteq Int /\ v \in Int /\ IsGreatest(m, S) /\ new.max = {Max(m \cup {v})}
        BY <1>3, <1>7, <3>1, <3>2
      <4> HIDE DEF m, S
      <4>2. IsGreatest({Max(m \cup {v})}, S \cup {v})
        BY <4>1, OneMoreExtreme
      <4> QED BY <4>1, <4>2 DEF S
    <3>4. AddsUp(more, new, agg)
      BY <1>1, <1>7, <2>5, <3>3 DEF AddsUp, field
    <3> QED BY <1>7, <3>4 DEF new, more, field, v
  <2> QED BY <2>2, <2>3, <2>4, <2>5 DEF AggregateFunctions
<1> QED BY <1>6, <1>7

DistinctNames == Cardinality(Names) = Len(Aggregations)

LEMMA NamesDiffer ==
    ASSUME DistinctNames
    PROVE  \A i, j \in DOMAIN Aggregations : Aggregations[i].as = Aggregations[j].as => i = j
<1> DEFINE n == Len(Aggregations)
           as == [i \in 1 .. n |-> Aggregations[i].as]
<1>1. n \in Nat /\ DOMAIN Aggregations = 1 .. n
  BY AggregationsAssumption
<1>2. IsFiniteSet(1 .. n) /\ Cardinality(1 .. n) = n
  BY <1>1, 1 \in Int, n \in Int, n < 1 => n = 0, FS_Interval
<1>3. as \in Surjection(1 .. n, Names)
  BY <1>1 DEF Surjection, Names
<1>4. as \in Injection(1 .. n, Names)
  <2>1. Cardinality(Names) = Cardinality(1 .. n)
    BY <1>2 DEF DistinctNames
  <2> HIDE DEF as, n
  <2> QED BY <1>2, <1>3, <2>1, FS_Surjection
<1>5. \A i, j \in 1 .. n : as[i] = as[j] => i = j
  BY <1>4 DEF Injection, IsInjective
<1> QED BY <1>1, <1>5

\* The states of a window that holds the events.
Fit(aggregates, events) ==
    /\ aggregates = [a \in Names |-> aggregates[a]]
    /\ DistinctNames => \A i \in DOMAIN Aggregations :
          /\ aggregates[Aggregations[i].as] \in States
          /\ AddsUp(events, aggregates[Aggregations[i].as], Aggregations[i])

LEMMA NewFits == Fit(NewWindow.aggregates, <<>>)
<1>1. NewWindow.aggregates = [a \in Names |-> NoValues]
  BY DEF NewWindow
<1>2. NoValues \in States
  BY DEF NoValues, States, Pointers
<1>3. ASSUME NEW agg PROVE AddsUp(<<>>, NoValues, agg)
  <2>1. HasNumber(<<>>, agg.field) = {} /\ NumbersOf(<<>>, agg.field) = {}
    BY DEF HasNumber, NumbersOf
  <2>2. Cardinality({}) = 0
    BY FS_EmptySet
  <2>3. SumOf(<<>>, agg.field) = 0
    <3>1. <<>> \in Seq(Int) /\ Len(<<>>) = 0 /\ 0 \in 0 .. 0
      OBVIOUS
    <3>2. PICK g : Sums(g, <<>>, agg.field, 0) /\ SumOf(<<>>, agg.field) = g[0]
      BY <3>1, SumIsLast
    <3> QED BY <3>1, <3>2, Zenon DEF Sums
  <2>4. IsLeast({}, {}) /\ IsGreatest({}, {})
    BY DEF IsLeast, IsGreatest, Least, Greatest
  <2> QED BY <2>1, <2>2, <2>3, <2>4 DEF AddsUp, NoValues
<1>4. \A i \in DOMAIN Aggregations : Aggregations[i].as \in Names
  BY DEF Names
<1> QED BY <1>1, <1>2, <1>3, <1>4 DEF Fit

LEMMA UpdateKeepsFit ==
    ASSUME NEW E, Numeric(E), NEW events \in Seq(E), NEW ev \in E,
           NEW aggregates, Fit(aggregates, events)
    PROVE  Fit(UpdateAggregations(aggregates, ev.numbers), Append(events, ev))
<1> DEFINE n == Len(Aggregations)
           more == Append(events, ev)
           name(i) == Aggregations[i].as
<1>1. n \in Nat /\ DOMAIN Aggregations = 1 .. n
  BY AggregationsAssumption
<1>2. PICK f : /\ f[0] = aggregates
               /\ \A k \in 1 .. n : f[k] = UpdateOne(f[k - 1], Aggregations[k], ev.numbers)
               /\ UpdateAggregations(aggregates, ev.numbers) = f[n]
  <2> DEFINE numbers == ev.numbers
  <2> HIDE DEF numbers
  <2>1. \E f : /\ f[0] = aggregates
               /\ \A k \in 1 .. n : f[k] = UpdateOne(f[k - 1], Aggregations[k], numbers)
               /\ UpdateAggregations(aggregates, numbers) = f[n]
    BY UpdateRun
  <2> QED BY <2>1 DEF numbers
<1> HIDE DEF n, more
<1> DEFINE Done(k, i) == /\ f[k][name(i)] \in States
                         /\ AddsUp(more, f[k][name(i)], Aggregations[i])
           P(k) == /\ f[k] = [a \in Names |-> f[k][a]]
                   /\ DistinctNames => \A i \in 1 .. n :
                         IF i <= k THEN Done(k, i) ELSE f[k][name(i)] = aggregates[name(i)]
           S == {k \in Nat : k <= n => P(k)}
<1>3. P(0)
  BY <1>1, <1>2 DEF Fit
<1>4. ASSUME NEW k \in Nat, k + 1 <= n, P(k) PROVE P(k + 1)
  <2> DEFINE agg == Aggregations[k + 1]
             upd(s) == Update(s, agg.function, ev.numbers[agg.field])
  <2>1. k + 1 \in 1 .. n /\ (k + 1) - 1 = k
    BY <1>1, <1>4
  <2>2. f[k + 1] = UpdateOne(f[k], agg, ev.numbers)
    BY <1>2, <2>1
  <2>3. agg.as \in Names
    BY <1>1, <2>1 DEF Names
  <2> HIDE DEF upd
  <2>4. /\ f[k + 1] = [a \in Names |-> f[k + 1][a]]
        /\ \A a \in Names : a # agg.as => f[k + 1][a] = f[k][a]
        /\ f[k + 1][agg.as] = IF agg.field \in DOMAIN ev.numbers THEN upd(f[k][agg.as])
                                                                 ELSE f[k][agg.as]
    <3>1. f[k] = [a \in Names |-> f[k][a]]
      BY <1>4
    <3>2. CASE agg.field \in DOMAIN ev.numbers
      <4>1. f[k + 1] = [f[k] EXCEPT ![agg.as] = upd(f[k][agg.as])]
        BY <2>2, <3>2 DEF UpdateOne, upd
      <4> HIDE DEF agg
      <4> QED BY <2>3, <3>1, <3>2, <4>1
    <3>3. CASE agg.field \notin DOMAIN ev.numbers
      BY <2>2, <3>1, <3>3 DEF UpdateOne
    <3> QED BY <3>2, <3>3
  <2>5. ASSUME DistinctNames, NEW i \in 1 .. n
        PROVE  IF i <= k + 1 THEN Done(k + 1, i) ELSE f[k + 1][name(i)] = aggregates[name(i)]
    <3>1. CASE i = k + 1
      <4>1. f[k][agg.as] = aggregates[agg.as]
        BY <1>4, <2>1, <2>5, <3>1
      <4>2. /\ aggregates[agg.as] \in States
            /\ AddsUp(events, aggregates[agg.as], agg)
            /\ agg.function \in AggregateFunctions
        BY <1>1, <2>1, <2>5, AggregationsAssumption DEF Fit
      <4>3. CASE agg.field \in DOMAIN ev.numbers
        <5>1. ev.numbers[agg.field] \in Int
          BY <4>3 DEF Numeric
        <5>2. upd(aggregates[agg.as]) \in States
          BY <4>2, <5>1, UpdateFits DEF upd
        <5>3. AddsUp(more, upd(aggregates[agg.as]), agg)
          BY <4>2, <4>3, AddsUpAppend DEF upd, more
        <5> QED BY <2>4, <3>1, <4>1, <4>3, <5>2, <5>3
      <4>4. CASE agg.field \notin DOMAIN ev.numbers
        <5>1. AddsUp(more, aggregates[agg.as], agg)
          BY <4>2, <4>4, AddsUpAppend DEF more
        <5> QED BY <2>4, <3>1, <4>1, <4>2, <4>4, <5>1
      <4> QED BY <4>3, <4>4
    <3>2. CASE i # k + 1
      <4>1. name(i) # agg.as /\ name(i) \in Names
        BY <1>1, <2>1, <2>5, <3>2, NamesDiffer DEF Names
      <4>2. f[k + 1][name(i)] = f[k][name(i)]
        BY <2>4, <4>1
      <4>3. i <= k + 1 <=> i <= k
        BY <1>1, <3>2
      <4>4. IF i <= k THEN Done(k, i) ELSE f[k][name(i)] = aggregates[name(i)]
        BY <1>4, <2>5
      <4> QED BY <4>2, <4>3, <4>4
    <3> QED BY <3>1, <3>2
  <2> HIDE DEF Done
  <2> QED BY <2>4, <2>5
<1> HIDE DEF P
<1>5. 0 \in S
  BY <1>3
<1>6. ASSUME NEW k \in Nat, k \in S PROVE k + 1 \in S
  BY <1>1, <1>4, <1>6
<1>7. Nat \subseteq S
  <2> HIDE DEF S
  <2> QED BY <1>5, <1>6, Induction
<1>8. P(n)
  BY <1>1, <1>7
<1> QED BY <1>1, <1>2, <1>8 DEF P, Fit, more

LEMMA ResultIsExpected ==
    ASSUME NEW events, NEW aggregates, Fit(aggregates, events), DistinctNames
    PROVE  \A i \in DOMAIN Aggregations :
              ResultFields(aggregates)[Aggregations[i].as] = Expected(events, Aggregations[i])
<1> DEFINE n == Len(Aggregations)
           name(i) == Aggregations[i].as
           value(i) == ValueOf(aggregates[name(i)], Aggregations[i].function)
<1>1. n \in Nat /\ DOMAIN Aggregations = 1 .. n
  BY AggregationsAssumption
<1>2. PICK f : /\ f[0] = NoFields
               /\ \A k \in 1 .. n : f[k] = SetValue(f[k - 1], Aggregations[k], aggregates)
               /\ ResultFields(aggregates) = f[n]
  BY ResultRun
<1> HIDE DEF n
<1> DEFINE P(k) == /\ f[k] = [a \in Names |-> f[k][a]]
                   /\ \A i \in 1 .. n : f[k][name(i)] = IF i <= k THEN value(i) ELSE {}
           S == {k \in Nat : k <= n => P(k)}
<1>name. \A i \in 1 .. n : name(i) \in Names
  BY <1>1 DEF Names
<1>3. P(0)
  BY <1>1, <1>2, <1>name DEF NoFields
<1>4. ASSUME NEW k \in Nat, k + 1 <= n, P(k) PROVE P(k + 1)
  <2> DEFINE agg == Aggregations[k + 1]
  <2>1. k + 1 \in 1 .. n /\ (k + 1) - 1 = k
    BY <1>1, <1>4
  <2>2. f[k + 1] = IF value(k + 1) = {} THEN f[k] ELSE [f[k] EXCEPT ![agg.as] = value(k + 1)]
    BY <1>2, <2>1 DEF SetValue
  <2>3. agg.as \in Names
    BY <1>name, <2>1
  <2>4. f[k][agg.as] = {}
    BY <1>1, <1>4, <2>1
  <2> HIDE DEF value
  <2>5. f[k] = [a \in Names |-> f[k][a]]
    BY <1>4
  <2>6. /\ f[k + 1] = [a \in Names |-> f[k + 1][a]]
        /\ \A a \in Names : a # agg.as => f[k + 1][a] = f[k][a]
        /\ f[k + 1][agg.as] = value(k + 1)
    <3> HIDE DEF agg
    <3>1. CASE value(k + 1) = {}
      BY <2>2, <2>4, <2>5, <3>1
    <3>2. CASE value(k + 1) # {}
      BY <2>2, <2>3, <2>5, <3>2
    <3> QED BY <3>1, <3>2
  <2>7. ASSUME NEW i \in 1 .. n
        PROVE  f[k + 1][name(i)] = IF i <= k + 1 THEN value(i) ELSE {}
    <3>1. CASE i = k + 1
      BY <1>1, <2>6, <3>1
    <3>2. CASE i # k + 1
      <4>1. name(i) # agg.as /\ name(i) \in Names
        BY <1>1, <1>name, <2>1, <3>2, NamesDiffer
      <4>2. i <= k + 1 <=> i <= k
        BY <1>1, <3>2
      <4>3. f[k][name(i)] = IF i <= k THEN value(i) ELSE {}
        BY <1>4
      <4> QED BY <2>6, <4>1, <4>2, <4>3
    <3> QED BY <3>1, <3>2
  <2> QED BY <2>6, <2>7
<1> HIDE DEF P
<1>5. 0 \in S
  BY <1>3
<1>6. ASSUME NEW k \in Nat, k \in S PROVE k + 1 \in S
  BY <1>1, <1>4, <1>6
<1>7. Nat \subseteq S
  <2> HIDE DEF S
  <2> QED BY <1>5, <1>6, Induction
<1>8. P(n)
  BY <1>1, <1>7
<1>9. ASSUME NEW i \in 1 .. n PROVE f[n][name(i)] = Expected(events, Aggregations[i])
  <2>1. f[n][name(i)] = value(i)
    BY <1>1, <1>8 DEF P
  <2>2. /\ aggregates[name(i)] \in States
        /\ AddsUp(events, aggregates[name(i)], Aggregations[i])
        /\ Aggregations[i].function \in AggregateFunctions
    BY <1>1, AggregationsAssumption DEF Fit
  <2> QED BY <2>1, <2>2, AddsUpValue
<1> QED BY <1>1, <1>2, <1>9

-----------------------------------------------------------------------------
(* Results are whole and add up                                            *)

\* A window that is open counts the events it has, all of its key, has fewer
\* than make a result, and its states are those of these events.
IsPartial(k, w) ==
    /\ Fit(w.aggregates, w.events)
    /\ w.eventCount = Len(w.events)
    /\ Len(w.events) < Count
    /\ \A i \in DOMAIN w.events : w.events[i].key = {k}

Partial(ws) == \A k \in DOMAIN ws : IsPartial(k, ws[k])

Whole(rs) ==
    \A r \in rs :
        /\ r.eventCount = Count
        /\ Len(r.events) = Count
        /\ \A i \in DOMAIN r.events : r.events[i].key = {r.key}
        /\ DistinctNames => \A i \in DOMAIN Aggregations :
              r.values[Aggregations[i].as] = Expected(r.events, Aggregations[i])

PInv == AInv /\ (\A m \in Members : Partial(windows[m])) /\ Whole(results)

LEMMA WholeAddsUp == Whole(results) => ResultsAddUp
BY DEF Whole, ResultsAddUp, ResultsAreWhole, ResultsHaveValues, DistinctNames

LEMMA ExecuteWhole ==
    ASSUME NEW ws, Shape(ws), Partial(ws), NEW ev \in CountedEvents, ev.key # {}
    PROVE  LET x == Execute(ws, ev) IN Partial(x.windows) /\ Whole(x.result)
<1> DEFINE key == CHOOSE k \in ev.key : TRUE
           old == Opened(ws, key)
           w == Counted(old, ev)
           x == Execute(ws, ev)
<1>1. ev.key = {key}
  BY InputAssumption DEF CountedEvents
<1>2. old.events \in Seq(CountedEvents) /\ IsPartial(key, old)
  <2>1. CASE key \in DOMAIN ws
    BY <2>1 DEF Opened, Shape, IsWindow, Partial
  <2>2. CASE key \notin DOMAIN ws
    <3>1. old = NewWindow
      BY <2>2 DEF Opened
    <3>2. NewWindow.events = <<>> /\ NewWindow.eventCount = 0
      BY DEF NewWindow
    <3> HIDE DEF old
    <3> QED BY <3>1, <3>2, NewFits, CountAssumption DEF IsPartial
  <2> QED BY <2>1, <2>2
<1>3. /\ w.eventCount = old.eventCount + 1 /\ w.events = Append(old.events, ev)
      /\ w.aggregates = UpdateAggregations(old.aggregates, ev.numbers)
  BY DEF Counted
<1>4. x = IF w.eventCount >= Count
          THEN [windows |-> Restrict(ws, DOMAIN ws \ {key}), result |-> {Result(key, w)}]
          ELSE [windows |-> With(ws, key, w), result |-> {}]
  BY DEF Execute
<1> HIDE DEF key, old, w, x
<1>5. Len(old.events) \in Nat /\ Len(w.events) = Len(old.events) + 1
  BY <1>2, <1>3
<1>6. w.eventCount = Len(w.events) /\ Len(w.events) <= Count /\ Len(w.events) \in Nat
  BY <1>2, <1>3, <1>5, CountAssumption DEF IsPartial
<1>7. \A i \in DOMAIN w.events : w.events[i].key = {key}
  <2>1. \A i \in DOMAIN w.events : w.events[i] = ev \/ (i \in DOMAIN old.events /\ w.events[i] = old.events[i])
    BY <1>2, <1>3
  <2> QED BY <1>1, <1>2, <2>1 DEF IsPartial
<1>fit. Fit(w.aggregates, w.events)
  <2>1. Numeric(CountedEvents)
    BY InputAssumption DEF Numeric, CountedEvents
  <2>2. Fit(old.aggregates, old.events)
    BY <1>2 DEF IsPartial
  <2> QED BY <1>2, <1>3, <2>1, <2>2, UpdateKeepsFit
<1>8. CASE w.eventCount >= Count
  <2>1. /\ DOMAIN x.windows = DOMAIN ws \ {key}
        /\ \A k \in DOMAIN x.windows : x.windows[k] = ws[k]
        /\ x.result = {Result(key, w)}
    BY <1>4, <1>8 DEF Restrict
  <2>2. Len(w.events) = Count
    BY <1>6, <1>8, CountAssumption
  <2>3. Whole(x.result)
    <3> DEFINE r == Result(key, w)
    <3>1. /\ r.key = key /\ r.eventCount = w.eventCount /\ r.events = w.events
          /\ r.values = ResultFields(w.aggregates)
      BY DEF Result
    <3> HIDE DEF r
    <3>2. DistinctNames => \A i \in DOMAIN Aggregations :
             r.values[Aggregations[i].as] = Expected(r.events, Aggregations[i])
      BY <1>fit, <3>1, ResultIsExpected
    <3>3. x.result = {r}
      BY <2>1 DEF r
    <3> QED BY <1>6, <1>7, <2>2, <3>1, <3>2, <3>3 DEF Whole
  <2> QED BY <2>1, <2>3 DEF Partial, x
<1>9. CASE ~(w.eventCount >= Count)
  <2>1. /\ DOMAIN x.windows = DOMAIN ws \cup {key}
        /\ x.windows[key] = w
        /\ \A k \in DOMAIN ws : k # key => x.windows[k] = ws[k]
        /\ x.result = {}
    BY <1>4, <1>9 DEF With
  <2>2. IsPartial(key, w)
    BY <1>6, <1>7, <1>9, <1>fit, CountAssumption DEF IsPartial
  <2> QED BY <2>1, <2>2 DEF Partial, Whole, x
<1> QED BY <1>8, <1>9

LEMMA WholeStep == PInv /\ [AggregationNext]_allVars => PInv'
<1> SUFFICES ASSUME PInv, [AggregationNext]_allVars PROVE PInv'
  OBVIOUS
<1> USE DEF PInv
<1>inv. AInv'
  BY SomewhereStep
<1>same. ASSUME UNCHANGED <<windows, results>> PROVE PInv'
  BY <1>same, <1>inv DEF Whole
<1>member. ASSUME NEW m \in Members, NEW ws, windows' = [windows EXCEPT ![m] = ws],
                  Partial(ws), Whole(results)'
           PROVE  PInv'
  <2>1. \A n \in Members : windows'[n] = IF n = m THEN ws ELSE windows[n]
    BY <1>member DEF AInv, WindowsShape
  <2> QED BY <1>inv, <1>member, <2>1
<1>1. ASSUME NEW m \in Members, NEW p \in Partitions,
             CountEvent(m, p) \/ Emit(m, p) \/ EmitFails(m, p)
      PROVE  PInv'
  <2> DEFINE x == Executed(m, p)
  <2>1. /\ Turn(m, p) /\ HasKey(m, p) /\ windows' = [windows EXCEPT ![m] = x.windows]
        /\ results' \subseteq results \cup x.result
    BY <1>1 DEF CountEvent, Emit, EmitFails, HandleSettled, HandleFailed
  <2>2. Partial(x.windows) /\ Whole(x.result)
    BY <2>1, RecordOfEvent, ExecuteWhole DEF AInv, WindowsShape, Executed, HasKey
  <2> HIDE DEF x
  <2>3. Whole(results)'
    BY <2>1, <2>2 DEF Whole
  <2> QED BY <2>1, <2>2, <2>3, <1>member
<1>2. ASSUME NEW m \in Members, Handle(m) PROVE PInv'
  <2>1. ASSUME NEW p \in Partitions, Reject(m, p) \/ RejectFails(m, p) PROVE PInv'
    BY <2>1, <1>same DEF Reject, RejectFails, aggregateVars
  <2> QED BY <1>1, <1>2, <2>1 DEF Handle
<1>3. ASSUME NEW m \in Members,
             OtherLoopStep(m) \/ GroupStep(m)
               \/ ((Start(m) \/ StopCancel(m)) /\ UNCHANGED aggregateVars)
      PROVE  PInv'
  BY <1>3, <1>same DEF OtherLoopStep, GroupStep, aggregateVars
<1>4. ASSUME NEW m \in Members, Ends(m) PROVE PInv'
  <2>1. Partial(NoWindows) /\ windows' = [windows EXCEPT ![m] = NoWindows] /\ Whole(results)'
    BY <1>4 DEF Ends, Partial, NoWindows
  <2> QED BY <2>1, <1>member
<1>5. ASSUME NEW m \in Members, Evict(m) PROVE PInv'
  <2> DEFINE ws == Evicted(windows[m])
  <2>1. windows' = [windows EXCEPT ![m] = ws] /\ results' = results
    BY <1>5 DEF Evict, AInv, WindowsShape
  <2>2. Partial(ws)
    BY DEF Evicted, Restrict, Partial
  <2> HIDE DEF ws
  <2>3. Whole(results)'
    BY <2>1 DEF Whole
  <2> QED BY <2>1, <2>2, <2>3, <1>member
<1>6. ASSUME Tick PROVE PInv'
  <2>1. windows' = [m \in Members |-> Aged(windows[m])] /\ results' = results
    BY <1>6 DEF Tick
  <2>2. ASSUME NEW m \in Members PROVE Partial(windows'[m])
    <3>1. windows'[m] = Aged(windows[m]) /\ Shape(windows[m]) /\ Partial(windows[m])
      BY <2>1 DEF AInv, WindowsShape
    <3>2. \A k \in DOMAIN windows[m] :
             /\ Aged(windows[m])[k].events = windows[m][k].events
             /\ Aged(windows[m])[k].eventCount = windows[m][k].eventCount
             /\ Aged(windows[m])[k].aggregates = windows[m][k].aggregates
             /\ DOMAIN Aged(windows[m]) = DOMAIN windows[m]
      BY <3>1, AgedEvents
    <3> QED BY <3>1, <3>2, AgedEvents DEF Partial, IsPartial
  <2>3. Whole(results)'
    BY <2>1 DEF Whole
  <2> QED BY <1>inv, <2>2, <2>3
<1>7. CASE UNCHANGED allVars
  <2>1. UNCHANGED <<windows, results>>
    BY <1>7 DEF allVars, aggregateVars
  <2> QED BY <2>1, <1>same
<1> QED BY <1>2, <1>3, <1>4, <1>5, <1>6, <1>7 DEF AggregationNext

\* A result that was delivered stands for exactly Count events, all of its key,
\* and says so, and when the aggregations have different names every value in it
\* is the sum, count, average, minimum or maximum over just these events,
\* whatever their number, the rebalances, crashes and evictions: the running
\* states of updateAggregationsIncremental never take in an event of another
\* window and never miss one.
THEOREM ResultsAlwaysAddUp == AggregationSpec => []ResultsAddUp
<1>1. AggregationInit /\ AInv => PInv
  <2> SUFFICES ASSUME AggregationInit, AInv PROVE PInv
    OBVIOUS
  <2>1. Partial(NoWindows)
    BY DEF Partial, NoWindows
  <2> QED BY <2>1 DEF AggregationInit, PInv, Whole
<1>2. PInv => ResultsAddUp
  BY WholeAddsUp DEF PInv
<1> QED BY <1>1, <1>2, WholeStep, Somewhere, PTL DEF AggregationSpec
=============================================================================
