---------------------------- MODULE OffsetLedger ----------------------------
(***************************************************************************)
(* What a consumer group that commits a record only after its handler has  *)
(* returned promises about the group's committed offsets, with no fetch    *)
(* loop, batch, rebalance or shutdown in sight.  `done' collects the       *)
(* records whose handler has reported an outcome; the committed offset of  *)
(* a partition may only be placed where everything below it is in `done'.  *)
(* It may be placed lower than it was: a consumer that has lost the        *)
(* partition may still commit the record it was working on.                *)
(***************************************************************************)
EXTENDS Integers

CONSTANTS Partitions,   \* topic partitions of the input topics
          NumRecords    \* records in each partition (bound)

VARIABLES committed,    \* committed[p]: the group's offset, the next to read
          done          \* records <<p, o>> whose handler reported an outcome

vars == <<committed, done>>

Records == Partitions \X (0 .. NumRecords - 1)

Init ==
    /\ committed = [p \in Partitions |-> 0]
    /\ done = {}

\* The handler reports an outcome for one record.
Report(r) ==
    /\ done' = done \cup {r}
    /\ UNCHANGED committed

\* The offset of p is placed at o.
Place(p, o) ==
    /\ \A b \in 0 .. o - 1 : <<p, b>> \in done
    /\ committed' = [committed EXCEPT ![p] = o]
    /\ UNCHANGED done

Next ==
    \/ \E r \in Records : Report(r)
    \/ \E p \in Partitions, o \in 0 .. NumRecords : Place(p, o)

Spec == Init /\ [][Next]_vars
=============================================================================
