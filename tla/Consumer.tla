------------------------------ MODULE Consumer ------------------------------
(***************************************************************************)
(* The Kafka consumer of the transform service                             *)
(* (internal/consumer/kafka.go) running as the members of one consumer     *)
(* group: Start's fetch loop, its per-record handler call and commit, its  *)
(* abort on a handler error, and Stop; around it the parts of franz-go and *)
(* of the broker the loop relies on (group membership, partition           *)
(* assignment, fetch positions, committed offsets) and process crashes.    *)
(*                                                                         *)
(* The handler is reduced here to what the loop sees of it, nil or an      *)
(* error; module RecordHandler has its inside.                             *)
(***************************************************************************)
EXTENDS Integers, FiniteSets

CONSTANTS Members,       \* processes that may run the service in the group
          Partitions,    \* partitions of the input topics
          NumRecords,    \* records in each partition (bound)
          FetchMax,      \* ConsumerConfig.FetchMaxRecords
          MaxFaults,     \* bound on crashes and stop requests
          MaxMoves,      \* bound on partitions moved while their owner lives
          None           \* no member

ASSUME RecordsAssumption == NumRecords \in Nat
ASSUME FetchAssumption == FetchMax \in Nat \ {0}
ASSUME BoundsAssumption == MaxFaults \in Nat /\ MaxMoves \in Nat
ASSUME NoneAssumption == None \notin Members \cup Partitions
ASSUME PartitionsAssumption == IsFiniteSet(Partitions)

VARIABLES
    committed,   \* committed[p]: the group's committed offset of p
    owner,       \* owner[p]: the member p is assigned to, or None
    position,    \* position[p]: the offset p's owner will poll next
    pc,          \* pc[m]: where m's fetch loop is
    next,        \* next[m][p], limit[m][p]: the records of p in m's current
    limit,       \*   batch not yet handed to the handler: next .. limit - 1
    cur,         \* cur[m]: the partition of the record handed over last
    abortErr,    \* abortErr[m]: a handler of this batch returned an error
    cancelled,   \* cancelled[m]: c.ctx is done
    faults,      \* crashes and stop requests so far
    moves,       \* partitions moved off or reset under a live owner so far
    settled,     \* history: records whose handler returned nil, and
    failed       \* history: an error, while c.ctx was live

loopVars == <<pc, next, limit, cur, abortErr, cancelled>>
groupVars == <<committed, owner, position>>
history == <<settled, failed>>
vars == <<committed, owner, position, pc, next, limit, cur, abortErr,
          cancelled, faults, moves, settled, failed>>

Offsets == 0 .. NumRecords - 1
Records == Partitions \X Offsets

(* down     no process, or Stop has closed the client: not in the group    *)
(* check    top of fetchLoop                                               *)
(* poll     in PollRecords                                                 *)
(* each     between two records of a batch                                 *)
(* commit   the handler has returned nil, the commit is due                *)
(* exited   the loop saw the cancelled context; c.done is closed           *)
(* aborted  the loop broke off on abortErr, which it has put on c.errCh;   *)
(*          c.done is closed and the client is still in the group          *)
PCs == {"down", "check", "poll", "each", "commit", "exited", "aborted"}

InGroup(m) == pc[m] # "down"

BatchOver(m) == \A p \in Partitions : next[m][p] >= limit[m][p]

\* EachTopic, EachPartition, EachRecord: p's records go to the handler in
\* order and in one run, the partitions in any order.
Turn(m, p) ==
    /\ pc[m] = "each"
    /\ next[m][p] < limit[m][p]
    /\ \A q \in Partitions \ {p} : cur[m] = q => next[m][q] >= limit[m][q]

NoBatch == [p \in Partitions |-> 0]

TypeOK ==
    /\ committed \in [Partitions -> 0 .. NumRecords]
    /\ owner \in [Partitions -> Members \cup {None}]
    /\ position \in [Partitions -> 0 .. NumRecords]
    /\ pc \in [Members -> PCs]
    /\ next \in [Members -> [Partitions -> 0 .. NumRecords]]
    /\ limit \in [Members -> [Partitions -> 0 .. NumRecords]]
    /\ cur \in [Members -> Partitions \cup {None}]
    /\ abortErr \in [Members -> BOOLEAN]
    /\ cancelled \in [Members -> BOOLEAN]
    /\ faults \in 0 .. MaxFaults
    /\ moves \in 0 .. MaxMoves
    /\ settled \subseteq Records
    /\ failed \subseteq Records

Init ==
    /\ committed = [p \in Partitions |-> 0]
    /\ owner = [p \in Partitions |-> None]
    /\ position = [p \in Partitions |-> 0]
    /\ pc = [m \in Members |-> "down"]
    /\ next = [m \in Members |-> NoBatch]
    /\ limit = [m \in Members |-> NoBatch]
    /\ cur = [m \in Members |-> None]
    /\ abortErr = [m \in Members |-> FALSE]
    /\ cancelled = [m \in Members |-> FALSE]
    /\ faults = 0
    /\ moves = 0
    /\ settled = {}
    /\ failed = {}

-----------------------------------------------------------------------------
(* The fetch loop                                                          *)

\* NewConsumer and Start: a fresh context, the client joins the group, the
\* loop goroutine begins.
Start(m) ==
    /\ pc[m] = "down"
    /\ pc' = [pc EXCEPT ![m] = "check"]
    /\ UNCHANGED <<groupVars, next, limit, cur, abortErr, cancelled, faults,
                   moves, history>>

\* The select at the top of fetchLoop.
Check(m) ==
    /\ pc[m] = "check"
    /\ pc' = [pc EXCEPT ![m] = IF cancelled[m] THEN "exited" ELSE "poll"]
    /\ UNCHANGED <<groupVars, next, limit, cur, abortErr, cancelled, faults,
                   moves, history>>

\* The records a poll takes: the next take[p] ones of each owned partition.
Taken(take) == {t \in Partitions \X (1 .. FetchMax) : t[2] <= take[t[1]]}

CanTake(m, take) ==
    /\ \A p \in Partitions :
          take[p] > 0 => owner[p] = m /\ position[p] + take[p] <= NumRecords
    /\ Cardinality(Taken(take)) \in 1 .. FetchMax

\* PollRecords returns what the client has buffered, which a context
\* cancelled meanwhile does not prevent.
Poll(m) ==
    /\ pc[m] = "poll"
    /\ \E take \in [Partitions -> 0 .. FetchMax] :
          /\ CanTake(m, take)
          /\ next' = [next EXCEPT ![m] =
                        [p \in Partitions |-> IF take[p] > 0 THEN position[p] ELSE 0]]
          /\ limit' = [limit EXCEPT ![m] =
                        [p \in Partitions |->
                           IF take[p] > 0 THEN position[p] + take[p] ELSE 0]]
          /\ position' = [p \in Partitions |-> position[p] + take[p]]
    /\ pc' = [pc EXCEPT ![m] = "each"]
    /\ UNCHANGED <<committed, owner, cur, abortErr, cancelled, faults, moves,
                   history>>

\* PollRecords returns nothing, or only partition errors, which are logged.
EmptyPoll(m) ==
    /\ pc[m] = "poll"
    /\ pc' = [pc EXCEPT ![m] = "check"]
    /\ UNCHANGED <<groupVars, next, limit, cur, abortErr, cancelled, faults,
                   moves, history>>

\* The record leaves the batch for the handler.
HandOver(m, p) ==
    /\ next' = [next EXCEPT ![m][p] = @ + 1]
    /\ cur' = [cur EXCEPT ![m] = p]

\* The handler returns nil.
HandleSettled(m, p) ==
    /\ Turn(m, p)
    /\ ~cancelled[m]
    /\ HandOver(m, p)
    /\ settled' = settled \cup {<<p, next[m][p]>>}
    /\ pc' = [pc EXCEPT ![m] = "commit"]
    /\ UNCHANGED <<groupVars, limit, abortErr, cancelled, faults, moves, failed>>

\* Fault in HandleFailed: the closure goes on to the commit.
HandleFailedCommits(m, p) ==
    /\ Turn(m, p)
    /\ ~cancelled[m]
    /\ HandOver(m, p)
    /\ failed' = failed \cup {<<p, next[m][p]>>}
    /\ abortErr' = [abortErr EXCEPT ![m] = TRUE]
    /\ pc' = [pc EXCEPT ![m] = "commit"]
    /\ UNCHANGED <<groupVars, limit, cancelled, faults, moves, settled>>

\* The handler returns an error: the record's closure returns before the
\* commit, and EachRecord goes on to the next record of the batch.
HandleFailed(m, p) ==
    /\ Turn(m, p)
    /\ ~cancelled[m]
    /\ HandOver(m, p)
    /\ failed' = failed \cup {<<p, next[m][p]>>}
    /\ abortErr' = [abortErr EXCEPT ![m] = TRUE]
    /\ UNCHANGED <<groupVars, pc, limit, cancelled, faults, moves, settled>>

\* The handler runs with a context that is done.  It sends nothing and may
\* return either way: without a DLQ topic it counts the record as dropped
\* and returns nil.
HandleCancelled(m, p) ==
    /\ Turn(m, p)
    /\ cancelled[m]
    /\ HandOver(m, p)
    /\ \/ pc' = [pc EXCEPT ![m] = "commit"] /\ UNCHANGED abortErr
       \/ abortErr' = [abortErr EXCEPT ![m] = TRUE] /\ UNCHANGED pc
    /\ UNCHANGED <<groupVars, limit, cancelled, faults, moves, history>>

\* Fault in CommitRecord: the commit does not use c.ctx.
CommitWhenCancelled(m) ==
    /\ pc[m] = "commit"
    /\ committed' = [committed EXCEPT ![cur[m]] = next[m][cur[m]]]
    /\ pc' = [pc EXCEPT ![m] = "each"]
    /\ UNCHANGED <<owner, position, next, limit, cur, abortErr, cancelled,
                   faults, moves, history>>

\* Fault in CommitRecord: the offset after the batch is committed.
CommitWholeBatch(m) ==
    /\ pc[m] = "commit"
    /\ ~cancelled[m]
    /\ committed' = [committed EXCEPT ![cur[m]] = limit[m][cur[m]]]
    /\ pc' = [pc EXCEPT ![m] = "each"]
    /\ UNCHANGED <<owner, position, next, limit, cur, abortErr, cancelled,
                   faults, moves, history>>

\* CommitRecords places the group's offset after the record.  The broker
\* takes it from any member of the group, also when the partition has moved
\* to another one since the poll; the client refuses a context that is done.
CommitRecord(m) ==
    /\ pc[m] = "commit"
    /\ ~cancelled[m]
    /\ committed' = [committed EXCEPT ![cur[m]] = next[m][cur[m]]]
    /\ pc' = [pc EXCEPT ![m] = "each"]
    /\ UNCHANGED <<owner, position, next, limit, cur, abortErr, cancelled,
                   faults, moves, history>>

\* CommitRecords fails: logged, and the loop goes on.
CommitFailed(m) ==
    /\ pc[m] = "commit"
    /\ pc' = [pc EXCEPT ![m] = "each"]
    /\ UNCHANGED <<groupVars, next, limit, cur, abortErr, cancelled, faults,
                   moves, history>>

\* The batch is over: break off with the error on c.errCh, or go on.
EndBatch(m) ==
    /\ pc[m] = "each"
    /\ BatchOver(m)
    /\ pc' = [pc EXCEPT ![m] = IF abortErr[m] THEN "aborted" ELSE "check"]
    /\ next' = [next EXCEPT ![m] = NoBatch]
    /\ limit' = [limit EXCEPT ![m] = NoBatch]
    /\ cur' = [cur EXCEPT ![m] = None]
    /\ abortErr' = [abortErr EXCEPT ![m] = FALSE]
    /\ UNCHANGED <<groupVars, cancelled, faults, moves, history>>

-----------------------------------------------------------------------------
(* Stop, crash                                                             *)

\* m's partitions are free once it has left the group.
Released(m) == [p \in Partitions |-> IF owner[p] = m THEN None ELSE owner[p]]

\* Stop, first half: c.cancel().
StopCancel(m) ==
    /\ InGroup(m)
    /\ ~cancelled[m]
    /\ faults < MaxFaults
    /\ cancelled' = [cancelled EXCEPT ![m] = TRUE]
    /\ faults' = faults + 1
    /\ UNCHANGED <<groupVars, pc, next, limit, cur, abortErr, moves, history>>

\* Fault in StopClose: the client is not closed.
StopKeepsPartitions(m) ==
    /\ cancelled[m]
    /\ pc[m] \in {"exited", "aborted"}
    /\ pc' = [pc EXCEPT ![m] = "down"]
    /\ cancelled' = [cancelled EXCEPT ![m] = FALSE]
    /\ UNCHANGED <<groupVars, next, limit, cur, abortErr, faults, moves, history>>

\* Stop, second half: c.done is closed, close the client.
StopClose(m) ==
    /\ cancelled[m]
    /\ pc[m] \in {"exited", "aborted"}
    /\ pc' = [pc EXCEPT ![m] = "down"]
    /\ cancelled' = [cancelled EXCEPT ![m] = FALSE]
    /\ owner' = Released(m)
    /\ UNCHANGED <<committed, position, next, limit, cur, abortErr, faults,
                   moves, history>>

\* The process dies and the broker notices.
Crash(m) ==
    /\ InGroup(m)
    /\ faults < MaxFaults
    /\ pc' = [pc EXCEPT ![m] = "down"]
    /\ next' = [next EXCEPT ![m] = NoBatch]
    /\ limit' = [limit EXCEPT ![m] = NoBatch]
    /\ cur' = [cur EXCEPT ![m] = None]
    /\ abortErr' = [abortErr EXCEPT ![m] = FALSE]
    /\ cancelled' = [cancelled EXCEPT ![m] = FALSE]
    /\ owner' = Released(m)
    /\ faults' = faults + 1
    /\ UNCHANGED <<committed, position, moves, history>>

-----------------------------------------------------------------------------
(* The group coordinator                                                   *)

\* Fault in GiveTo: the committed offset is not fetched.
GiveFromStart(m, p) ==
    /\ InGroup(m)
    /\ owner' = [owner EXCEPT ![p] = m]
    /\ position' = [position EXCEPT ![p] = 0]

\* A member that gets p fetches the committed offset and polls from there.
GiveTo(m, p) ==
    /\ InGroup(m)
    /\ owner' = [owner EXCEPT ![p] = m]
    /\ position' = [position EXCEPT ![p] = committed[p]]

\* A free partition is assigned.
Assign(m, p) ==
    /\ owner[p] = None
    /\ GiveTo(m, p)
    /\ UNCHANGED <<committed, loopVars, faults, moves, history>>

\* A rebalance takes p from a live member, whatever its loop is doing, and
\* gives it to a member, possibly the same one.
Move(m, p) ==
    /\ owner[p] # None
    /\ moves < MaxMoves
    /\ GiveTo(m, p)
    /\ moves' = moves + 1
    /\ UNCHANGED <<committed, loopVars, faults, history>>

-----------------------------------------------------------------------------
LoopStep(m) ==
    \/ Check(m)
    \/ Poll(m)
    \/ EmptyPoll(m)
    \/ \E p \in Partitions :
          HandleSettled(m, p) \/ HandleFailed(m, p) \/ HandleCancelled(m, p)
    \/ CommitRecord(m)
    \/ CommitFailed(m)
    \/ EndBatch(m)

Next ==
    \/ \E m \in Members :
          \/ Start(m)
          \/ LoopStep(m)
          \/ StopCancel(m)
          \/ StopClose(m)
          \/ Crash(m)
    \/ \E m \in Members, p \in Partitions : Assign(m, p) \/ Move(m, p)

Spec == Init /\ [][Next]_vars

(* Go runs a loop that is not blocked; a poll that keeps being repeated    *)
(* returns the records there are; the worker that asked for a stop waits   *)
(* for c.done and closes; the coordinator assigns free partitions.  No     *)
(* fairness on Start (who restarts a process is outside the repository),   *)
(* on the handler's verdict or on whether a commit succeeds.               *)
Fairness ==
    /\ \A m \in Members :
          /\ WF_vars(LoopStep(m))
          /\ SF_vars(Poll(m))
          /\ WF_vars(StopClose(m))
    /\ \A p \in Partitions : WF_vars(\E m \in Members : Assign(m, p))

FairSpec == Spec /\ Fairness

-----------------------------------------------------------------------------
Handled == settled \cup failed

\* Every record below a committed offset had its handler run to an outcome
\* in a live context: neither a rebalance, a crash, a late commit of a
\* member that lost the partition, nor the drain of a batch after Stop has
\* cancelled the context (when the handler may drop records and return nil)
\* lets the group skip a record nobody worked on.
CommitCovers ==
    \A p \in Partitions : \A o \in 0 .. committed[p] - 1 : <<p, o>> \in Handled

\* Commit-on-success: every record below a committed offset was handled
\* with a nil result.
NoLoss ==
    \A p \in Partitions : \A o \in 0 .. committed[p] - 1 : <<p, o>> \in settled

\* While no partition has been taken from a live member, the committed
\* offsets only go forward, over crashes and clean restarts too.
CommitForward ==
    [][moves = 0 => \A p \in Partitions : committed'[p] >= committed[p]]_vars

\* The fetch loop implements the abstract ledger of offsets: each step
\* reports one outcome, or places one offset above reported records only.
Ledger == INSTANCE OffsetLedger WITH done <- Handled
ImplementsLedger == Ledger!Spec

\* A partition held by a member whose loop has broken off.
Stalled(p) == owner[p] \in Members /\ pc[owner[p]] = "aborted"

AllHandled(p) == \A o \in Offsets : <<p, o>> \in Handled

\* In the end every record gets an outcome, unless its partition sits with a
\* member whose loop broke off on a handler error, or no member is left.
EventuallyHandled ==
    <>[](\/ \A p \in Partitions : AllHandled(p) \/ Stalled(p)
         \/ \A m \in Members : ~InGroup(m))
=============================================================================
