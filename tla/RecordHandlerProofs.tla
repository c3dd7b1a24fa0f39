------------------------ MODULE RecordHandlerProofs ------------------------
(***************************************************************************)
(* Proofs about RecordHandler, for any number of events in a result, and   *)
(* about the Pipeline it hands its events to, for any payloads, configured *)
(* pipelines, answers of services and verdicts of conditions.              *)
(*                                                                         *)
(* The second part builds on trees node by node: what SetField and         *)
(* RemoveField leave at each node.  The folds over them are taken as runs, *)
(* with the value after every item, so that an induction over the items is *)
(* one over numbers.                                                       *)
(***************************************************************************)
EXTENDS RecordHandler, Pipeline, FiniteSetTheorems, WellFoundedInduction, TLAPS

USE EventsAssumption

\* Until the pipeline has succeeded nothing has been sent or counted.
BeforeDelivery ==
    pc \in {"decode", "execute", "recordToDLQ"} =>
        /\ kind = "none" /\ result = <<>> /\ i = 0 /\ failedIndices = {}
        /\ outAcked = {} /\ dlqAcked = {}
        /\ processed = 0 /\ dropped = 0 /\ sentToDLQ = 0 /\ routed = 0

\* During delivery everything that has happened concerns the events before
\* event i, and failedIndices is exactly the set of those not delivered.
InDelivery ==
    pc \in {"deliver", "fallback"} =>
        /\ kind \in {"Event", "[]Event"}
        /\ result \in Results
        /\ i \in 1 .. Len(result) + 1
        /\ kind = "Event" => i = 1 /\ Len(result) = 1
        /\ outAcked \subseteq 1 .. i - 1
        /\ dlqAcked \subseteq 1 .. i - 1
        /\ failedIndices \subseteq 1 .. i - 1
        /\ \A j \in 1 .. i - 1 : j \in failedIndices <=> ~Delivered(j)
        /\ processed = 0 /\ dropped = 0
        /\ sentToDLQ <= i - 1
        /\ routed <= (IF pc = "fallback" THEN i ELSE i - 1)

\* The fallback is for an event of several that is not meant for the DLQ.
InFallback ==
    pc = "fallback" => kind = "[]Event" /\ i \in 1 .. Len(result) /\ ~ToDLQ(result[i])

IInv ==
    /\ TypeOK
    /\ BeforeDelivery
    /\ InDelivery
    /\ InFallback
    /\ NilMeansSettled
    /\ ErrorMeansUnsettled

\* A result has at most MaxEvents events.
LEMMA ResultLength ==
    ASSUME NEW r \in Results
    PROVE  /\ Len(r) \in 1 .. MaxEvents
           /\ r \in Seq(Event)
           /\ r # <<>>
           /\ \A k \in 1 .. Len(r) : r[k] \in Event
<1>1. PICK n \in 1 .. MaxEvents : r \in [1 .. n -> Event]
  BY DEF Results
<1>2. r \in Seq(Event) /\ Len(r) = n
  BY <1>1
<1> QED BY <1>1, <1>2

LEMMA InitInv == Init => IInv
BY DEF Init, IInv, TypeOK, DLQTopics, PCs, Kinds, BeforeDelivery, InDelivery,
       InFallback, NilMeansSettled, ErrorMeansUnsettled, Returned

\* The steps before delivery.
LEMMA EarlyStep ==
    ASSUME IInv, Decode \/ ExecuteDrop \/ ExecuteError \/ RecordToDLQ
    PROVE  IInv'
<1>1. CASE Decode
  BY <1>1 DEF IInv, TypeOK, PCs, BeforeDelivery, InDelivery, InFallback,
              NilMeansSettled, ErrorMeansUnsettled, Returned, Decode, GiveUp,
              Return, config, progress, acks
<1>2. CASE ExecuteDrop
  BY <1>2 DEF IInv, TypeOK, PCs, BeforeDelivery, InDelivery, InFallback,
              NilMeansSettled, ErrorMeansUnsettled, Returned, ExecuteDrop,
              Return, config, progress, acks
<1>3. CASE ExecuteError
  BY <1>3 DEF IInv, TypeOK, PCs, BeforeDelivery, InDelivery, InFallback,
              NilMeansSettled, ErrorMeansUnsettled, Returned, ExecuteError,
              GiveUp, Return, config, progress, acks
<1>4. CASE RecordToDLQ
  <2>1. /\ dlqAcked = {} /\ outAcked = {} /\ result = <<>> /\ sentToDLQ = 0
        /\ dropped = 0
    BY <1>4 DEF IInv, BeforeDelivery, RecordToDLQ
  <2>2. TypeOK'
    BY <1>4, <2>1 DEF IInv, TypeOK, PCs, RecordToDLQ, Return, config, progress
  <2>3. NilMeansSettled' /\ ErrorMeansUnsettled'
    BY <1>4, <2>1 DEF NilMeansSettled, ErrorMeansUnsettled, Returned,
                      RecordToDLQ, Return, progress
  <2> QED BY <1>4, <2>2, <2>3 DEF IInv, BeforeDelivery, InDelivery, InFallback,
                                  RecordToDLQ, Return
<1> QED BY <1>1, <1>2, <1>3, <1>4

LEMMA ExecuteOKStep ==
    ASSUME IInv, ExecuteOK
    PROVE  IInv'
<1>1. /\ failedIndices = {} /\ outAcked = {} /\ dlqAcked = {} /\ result = <<>>
      /\ processed = 0 /\ dropped = 0 /\ sentToDLQ = 0 /\ routed = 0
  BY DEF IInv, BeforeDelivery, ExecuteOK, TypeOK
<1>2. CASE pc' = "deliver"
  <2>1. /\ kind' \in {"Event", "[]Event"} /\ result' \in Results /\ i' = 1
        /\ kind' = "Event" => Len(result') = 1
        /\ UNCHANGED <<dlqTopic, failedIndices, ctxDone, outAcked, dlqAcked,
                       processed, dropped, sentToDLQ, routed, ret>>
    BY <1>2 DEF ExecuteOK, Return, config, acks, counters
  <2>2. Len(result') \in 1 .. MaxEvents
    BY <2>1, ResultLength
  <2>3. TypeOK'
    BY <1>1, <1>2, <2>1, <2>2 DEF IInv, TypeOK, PCs, Kinds
  <2>4. InDelivery'
    BY <1>1, <1>2, <2>1, <2>2 DEF InDelivery
  <2> QED BY <1>1, <1>2, <2>1, <2>3, <2>4
          DEF IInv, BeforeDelivery, InFallback, NilMeansSettled,
              ErrorMeansUnsettled, Returned
<1>3. CASE pc' # "deliver"
  BY <1>1, <1>3 DEF IInv, TypeOK, PCs, Kinds, BeforeDelivery, InDelivery,
                    InFallback, NilMeansSettled, ErrorMeansUnsettled, Returned,
                    ExecuteOK, Return, config, acks, counters
<1> QED BY <1>2, <1>3

-----------------------------------------------------------------------------
(* Delivery                                                                *)

\* What is known when event i is to be delivered.
LEMMA AtEvent ==
    ASSUME IInv, pc \in {"deliver", "fallback"}
    PROVE  /\ result \in Results /\ Len(result) \in 1 .. MaxEvents
           /\ result # <<>>
           /\ i \in 1 .. Len(result) + 1
           /\ i \notin outAcked /\ i \notin dlqAcked /\ 0 \notin dlqAcked
           /\ sentToDLQ \in Nat /\ routed \in Nat
<1>1. result \in Results /\ i \in 1 .. Len(result) + 1
  BY DEF IInv, InDelivery
<1>2. Len(result) \in 1 .. MaxEvents /\ result # <<>>
  BY <1>1, ResultLength
<1> QED BY <1>1, <1>2 DEF IInv, InDelivery, TypeOK

\* The handler goes on to event i + 1, after event i has been added to the
\* acknowledged or to the failed ones, as it was delivered or not.
LEMMA AdvanceStep ==
    ASSUME IInv, pc \in {"deliver", "fallback"}, NEW k \in 1 .. Len(result), i = k,
           kind = "[]Event", Advance,
           UNCHANGED <<dlqTopic, kind, result, ctxDone, processed, dropped>>,
           outAcked' \in {outAcked, outAcked \cup {i}},
           dlqAcked' \in {dlqAcked, dlqAcked \cup {i}},
           failedIndices' = (IF Delivered(k)' THEN failedIndices
                                              ELSE failedIndices \cup {k}),
           sentToDLQ' \in {sentToDLQ, sentToDLQ + 1},
           routed' <= i, routed' \in Nat
    PROVE  IInv'
<1> USE AtEvent
<1>1. i' = i + 1 /\ pc' = "deliver" /\ ret' = ret
  BY DEF Advance
<1>2. TypeOK'
  BY <1>1 DEF IInv, TypeOK, InDelivery, PCs
<1>3. \A j \in 1 .. k : (j \in failedIndices)' <=> ~Delivered(j)'
  <2> SUFFICES ASSUME NEW j \in 1 .. k PROVE (j \in failedIndices)' <=> ~Delivered(j)'
    OBVIOUS
  <2>1. CASE j = k
    BY <2>1 DEF IInv, InDelivery
  <2>2. CASE j # k
    <3>1. j \in 1 .. k - 1
      BY <2>2
    <3>2. j \in failedIndices <=> ~Delivered(j)
      BY <3>1 DEF IInv, InDelivery
    <3>3. Delivered(j)' <=> Delivered(j)
      BY <2>2 DEF Delivered, ToDLQ, HasRawDLQ
    <3> QED BY <2>2, <3>2, <3>3
  <2> QED BY <2>1, <2>2
<1>4. InDelivery'
  BY <1>1, <1>3 DEF IInv, InDelivery
<1> QED BY <1>1, <1>2, <1>4 DEF IInv, BeforeDelivery, InFallback,
                                NilMeansSettled, ErrorMeansUnsettled, Returned

\* A single event decides the handler's result by itself.
LEMMA SingleStep ==
    ASSUME IInv, pc = "deliver", kind = "Event", pc' = "returned",
           NEW k \in 1 .. Len(result), i = k,
           UNCHANGED <<dlqTopic, kind, result, i, failedIndices, ctxDone, dropped>>,
           outAcked' \in {outAcked, outAcked \cup {i}},
           dlqAcked' \in {dlqAcked, dlqAcked \cup {i}},
           ret' = (IF Delivered(k)' THEN "nil" ELSE "error"),
           processed' \in 0 .. 1,
           sentToDLQ' \in {sentToDLQ, sentToDLQ + 1},
           routed' \in 0 .. 1
    PROVE  IInv'
<1> USE AtEvent
<1>1. i = 1 /\ Len(result) = 1 /\ dropped = 0 /\ sentToDLQ = 0
  BY DEF IInv, InDelivery
<1>2. TypeOK'
  BY <1>1 DEF IInv, TypeOK, PCs
<1>3. NilMeansSettled' /\ ErrorMeansUnsettled'
  BY <1>1 DEF NilMeansSettled, ErrorMeansUnsettled, Returned
<1> QED BY <1>2, <1>3 DEF IInv, BeforeDelivery, InDelivery, InFallback

\* Event i is not delivered.
LEMMA UndeliveredStep ==
    ASSUME IInv, pc = "deliver", NEW k \in 1 .. Len(result), i = k, Undelivered,
           UNCHANGED <<dlqTopic, kind, result, ctxDone, outAcked, dlqAcked,
                       processed, dropped, sentToDLQ>>,
           routed' \in {routed, routed + 1}
    PROVE  IInv'
<1> USE AtEvent
<1>1. ~Delivered(k)'
  BY DEF Delivered
<1>2. kind \in {"Event", "[]Event"} /\ routed <= i - 1 /\ processed = 0
  BY DEF IInv, InDelivery
<1>3. CASE kind = "Event"
  <2>1. i = 1
    BY <1>3 DEF IInv, InDelivery
  <2> QED BY <1>1, <1>2, <1>3, <2>1, SingleStep DEF Undelivered, Return
<1>4. CASE kind = "[]Event"
  BY <1>1, <1>2, <1>4, AdvanceStep DEF Undelivered
<1> QED BY <1>2, <1>3, <1>4

LEMMA MarshalFailsStep ==
    ASSUME IInv, MarshalFails
    PROVE  IInv'
BY UndeliveredStep DEF MarshalFails, config, acks, counters

LEMMA MarkedToDLQStep ==
    ASSUME IInv, MarkedToDLQ
    PROVE  IInv'
<1>0. PICK k \in 1 .. Len(result) : i = k
  BY DEF MarkedToDLQ
<1>1. /\ pc = "deliver" /\ ToDLQ(result[k])
      /\ UNCHANGED <<dlqTopic, kind, result, ctxDone, outAcked, processed,
                     dropped, routed>>
  BY <1>0 DEF MarkedToDLQ, config
<1>2. kind \in {"Event", "[]Event"} /\ routed <= k - 1 /\ routed \in Nat /\ processed = 0
  BY <1>0, <1>1 DEF IInv, InDelivery, TypeOK
<1>3. CASE Undelivered /\ UNCHANGED <<dlqAcked, sentToDLQ>>
  BY <1>0, <1>1, <1>3, UndeliveredStep
<1>4. ASSUME dlqAcked' = dlqAcked \cup {i}, sentToDLQ' = sentToDLQ + 1,
             IF kind = "Event" THEN Return("nil") /\ UNCHANGED i ELSE Advance,
             UNCHANGED failedIndices
      PROVE  IInv'
  <2>1. Delivered(k)'
    BY <1>0, <1>1, <1>4 DEF Delivered, ToDLQ, HasRawDLQ
  <2>2. CASE kind = "Event"
    <3>1. k = 1
      BY <1>0, <1>1, <2>2 DEF IInv, InDelivery
    <3> QED BY <1>0, <1>1, <1>2, <1>4, <2>1, <2>2, <3>1, SingleStep DEF Return
  <2>3. CASE kind = "[]Event"
    BY <1>0, <1>1, <1>2, <1>4, <2>1, <2>3, AdvanceStep
  <2> QED BY <1>2, <2>2, <2>3
<1> QED BY <1>3, <1>4 DEF MarkedToDLQ

LEMMA SendToOutputStep ==
    ASSUME IInv, SendToOutput
    PROVE  IInv'
<1>0. PICK k \in 1 .. Len(result) : i = k
  BY DEF SendToOutput
<1>1. /\ pc = "deliver" /\ ~ToDLQ(result[k]) /\ routed' \in {routed, routed + 1}
      /\ UNCHANGED <<dlqTopic, kind, result, ctxDone, dlqAcked, dropped, sentToDLQ>>
  BY <1>0 DEF SendToOutput, CountRoute, config
<1>2. kind \in {"Event", "[]Event"} /\ routed <= k - 1 /\ routed \in Nat /\ processed = 0
  BY <1>0, <1>1 DEF IInv, InDelivery, TypeOK
<1>3. CASE Undelivered /\ UNCHANGED <<outAcked, processed>>
  BY <1>0, <1>1, <1>3, UndeliveredStep
<1>4. ASSUME outAcked' = outAcked \cup {i},
             IF kind = "Event"
             THEN processed' = processed + 1 /\ Return("nil") /\ UNCHANGED i
             ELSE Advance /\ UNCHANGED processed,
             UNCHANGED failedIndices
      PROVE  IInv'
  <2>1. Delivered(k)'
    BY <1>0, <1>1, <1>4 DEF Delivered, ToDLQ, HasRawDLQ
  <2>2. CASE kind = "Event"
    <3>1. k = 1
      BY <1>0, <1>1, <2>2 DEF IInv, InDelivery
    <3> QED BY <1>0, <1>1, <1>2, <1>4, <2>1, <2>2, <3>1, SingleStep DEF Return
  <2>3. CASE kind = "[]Event"
    BY <1>0, <1>1, <1>2, <1>4, <2>1, <2>3, AdvanceStep
  <2> QED BY <1>2, <2>2, <2>3
<1>5. ASSUME kind = "[]Event", pc' = "fallback",
             UNCHANGED <<ret, i, failedIndices, outAcked, processed>>
      PROVE  IInv'
  <2> USE <1>0, <1>1, <1>2, <1>5, AtEvent
  <2>1. TypeOK'
    BY DEF IInv, TypeOK, PCs
  <2>2. \A j \in 1 .. k - 1 : Delivered(j)' <=> Delivered(j)
    BY DEF Delivered, ToDLQ, HasRawDLQ
  <2>3. InDelivery'
    BY <2>2 DEF IInv, InDelivery
  <2>4. InFallback'
    BY DEF InFallback, ToDLQ, HasRawDLQ
  <2> QED BY <2>1, <2>3, <2>4
          DEF IInv, BeforeDelivery, NilMeansSettled, ErrorMeansUnsettled, Returned
<1> QED BY <1>3, <1>4, <1>5 DEF SendToOutput

LEMMA FallbackStep ==
    ASSUME IInv, FallbackToDLQ
    PROVE  IInv'
<1>0. PICK k \in 1 .. Len(result) : i = k
  BY DEF FallbackToDLQ, IInv, InFallback
<1>1. /\ pc = "fallback" /\ kind = "[]Event" /\ ~ToDLQ(result[k]) /\ Advance
      /\ UNCHANGED <<dlqTopic, kind, result, ctxDone, outAcked, processed, dropped,
                     sentToDLQ, routed>>
      /\ dlqAcked' \in {dlqAcked, dlqAcked \cup {i}}
      /\ failedIndices' = failedIndices \cup {k}
  BY <1>0 DEF FallbackToDLQ, IInv, InFallback, config, counters
<1>2. routed <= k /\ routed \in Nat
  BY <1>0, <1>1 DEF IInv, InDelivery, TypeOK
<1>3. ~Delivered(k)'
  BY <1>0, <1>1, AtEvent DEF Delivered, ToDLQ, HasRawDLQ
<1> QED BY <1>0, <1>1, <1>2, <1>3, AdvanceStep

\* Every event has been tried: failedIndices tells whether all are delivered.
LEMMA FinishStep ==
    ASSUME IInv, Finish
    PROVE  IInv'
<1>1. /\ result \in Results /\ Len(result) \in 1 .. MaxEvents /\ result # <<>>
      /\ i = Len(result) + 1 /\ 0 \notin dlqAcked
      /\ processed = 0 /\ dropped = 0
      /\ failedIndices \subseteq 1 .. Len(result)
      /\ \A j \in 1 .. Len(result) : j \in failedIndices <=> ~Delivered(j)
  BY AtEvent DEF Finish, IInv, InDelivery
<1>2. UNCHANGED <<dlqTopic, result, failedIndices, outAcked, dlqAcked, dropped>>
  BY DEF Finish, config, progress, acks
<1>3. \A j \in 1 .. Len(result) : Delivered(j)' <=> Delivered(j)
  BY <1>2 DEF Delivered, ToDLQ, HasRawDLQ
<1>4. pc' = "returned" /\ ret' = IF failedIndices # {} THEN "error" ELSE "nil"
  BY DEF Finish, Return
<1>5. TypeOK'
  BY <1>1 DEF IInv, TypeOK, PCs, Finish, Return, config, progress, acks
<1>6. NilMeansSettled' /\ ErrorMeansUnsettled'
  BY <1>1, <1>2, <1>3, <1>4 DEF NilMeansSettled, ErrorMeansUnsettled, Returned
<1> QED BY <1>4, <1>5, <1>6 DEF IInv, BeforeDelivery, InDelivery, InFallback

\* The end of the context touches nothing the invariant speaks of.
LEMMA QuietStep ==
    ASSUME IInv, ContextDone \/ UNCHANGED vars
    PROVE  IInv'
<1>1. /\ UNCHANGED <<dlqTopic, pc, kind, result, i, failedIndices, ret, outAcked,
                     dlqAcked, processed, dropped, sentToDLQ, routed>>
      /\ ctxDone' \in BOOLEAN
  BY DEF IInv, TypeOK, ContextDone, vars, config, progress, acks, counters
<1>2. \A j \in Nat : Delivered(j)' <=> Delivered(j)
  BY <1>1 DEF Delivered, ToDLQ, HasRawDLQ
<1>3. TypeOK'
  BY <1>1 DEF IInv, TypeOK
<1>4. InDelivery'
  <2>1. pc \in {"deliver", "fallback"} => i - 1 \in Nat
    BY AtEvent
  <2> QED BY <1>1, <1>2, <2>1 DEF IInv, InDelivery
<1>5. Len(result) \in Nat
  BY ResultLength DEF IInv, TypeOK
<1>6. NilMeansSettled' /\ ErrorMeansUnsettled'
  BY <1>1, <1>2, <1>5 DEF IInv, NilMeansSettled, ErrorMeansUnsettled, Returned
<1> QED BY <1>1, <1>3, <1>4, <1>6
        DEF IInv, BeforeDelivery, InFallback, ToDLQ, HasRawDLQ

\* The invariant holds throughout.
LEMMA Invariance == Spec => []IInv
<1>1. IInv /\ [Next]_vars => IInv'
  BY EarlyStep, ExecuteOKStep, MarshalFailsStep, MarkedToDLQStep, SendToOutputStep,
     FallbackStep, FinishStep, QuietStep DEF Next, Step
<1> QED BY <1>1, InitInv, PTL DEF Spec

\* The variables of the handler stay in their ranges.
THEOREM HandlerTypeCorrect == Spec => []TypeOK
BY Invariance, PTL DEF IInv

\* However many events the pipeline makes of a record, and whatever fails or
\* times out while they are sent: if the handler returns nil, so that the
\* record gets committed, the record was dropped, put into the DLQ, or has
\* every event acknowledged by its topic.
THEOREM NilAlwaysMeansSettled == Spec => []NilMeansSettled
BY Invariance, PTL DEF IInv

\* And if it returns an error, something of the record is undelivered.
THEOREM ErrorAlwaysMeansUnsettled == Spec => []ErrorMeansUnsettled
BY Invariance, PTL DEF IInv

\* What the counters are where the handler is about to return: nothing is
\* counted before delivery, and of a single event nothing before its outcome.
LEMMA CountersSoFar ==
    ASSUME IInv
    PROVE  /\ pc \in {"decode", "execute", "recordToDLQ"} =>
                kind = "none" /\ processed = 0 /\ dropped = 0 /\ sentToDLQ = 0
           /\ pc \in {"deliver", "fallback"} =>
                /\ kind \in {"Event", "[]Event"} /\ processed = 0 /\ dropped = 0
                /\ kind = "Event" => sentToDLQ = 0
BY DEF IInv, TypeOK, BeforeDelivery, InDelivery

\* Every step that returns leaves the counters as CountedOnce has them.
LEMMA CountedStep ==
    ASSUME IInv, CountedOnce, [Next]_vars
    PROVE  CountedOnce'
<1> USE CountersSoFar DEF CountedOnce, Returned, Return
<1>1. CASE Decode \/ ExecuteError
  BY <1>1 DEF Decode, ExecuteError, GiveUp, progress
<1>2. CASE ExecuteDrop
  BY <1>2 DEF ExecuteDrop, progress
<1>3. CASE ExecuteOK
  BY <1>3 DEF ExecuteOK, counters
<1>4. CASE RecordToDLQ
  BY <1>4 DEF RecordToDLQ, progress
<1>5. CASE MarshalFails
  BY <1>5 DEF MarshalFails, Undelivered, Advance, counters
<1>6. CASE MarkedToDLQ
  BY <1>6 DEF MarkedToDLQ, Undelivered, Advance
<1>7. CASE SendToOutput
  BY <1>7 DEF SendToOutput, Undelivered, Advance
<1>8. CASE FallbackToDLQ
  BY <1>8 DEF FallbackToDLQ, Advance
<1>9. CASE Finish
  BY <1>9 DEF Finish, progress
<1>10. CASE ContextDone \/ UNCHANGED vars
  BY <1>10 DEF ContextDone, vars, progress, counters
<1> QED
  BY <1>1, <1>2, <1>3, <1>4, <1>5, <1>6, <1>7, <1>8, <1>9, <1>10 DEF Next, Step

\* The message counters tell every record apart: one that returned nil is
\* counted as processed, as dropped or as sent to the DLQ, once, and one that
\* will be redelivered in none of the first two.
THEOREM RecordsAreCountedOnce == Spec => []CountedOnce
<1>1. Init => CountedOnce
  BY DEF Init, CountedOnce, Returned
<1>2. IInv /\ CountedOnce /\ [Next]_vars => CountedOnce'
  BY CountedStep
<1> QED BY <1>1, <1>2, Invariance, PTL DEF Spec

-----------------------------------------------------------------------------
(* Nodes and what is on the way to them                                    *)

\* IsPrefix, item by item.
LEMMA PrefixByItems ==
    ASSUME NEW K, NEW m \in Seq(K), NEW n \in Seq(K)
    PROVE  IsPrefix(m, n) <=> Len(m) <= Len(n) /\ \A k \in 1 .. Len(m) : m[k] = n[k]
<1>1. SubSeq(m, 1, Len(m)) = m
  OBVIOUS
<1>2. ASSUME Len(m) <= Len(n)
      PROVE  m = SubSeq(n, 1, Len(m)) <=> \A k \in 1 .. Len(m) : m[k] = n[k]
  <2> DEFINE s == SubSeq(n, 1, Len(m))
  <2>1. s \in Seq(K) /\ Len(s) = Len(m) /\ \A k \in 1 .. Len(m) : s[k] = n[k]
    BY <1>2
  <2> HIDE DEF s
  <2>2. m = s <=> \A k \in 1 .. Len(m) : m[k] = s[k]
    BY <2>1
  <2> QED BY <2>1, <2>2 DEF s
<1> QED BY <1>1, <1>2 DEF IsPrefix

\* The prefixes of a sequence are the sequences that IsPrefix says are.
LEMMA PrefixesOf ==
    ASSUME NEW K, NEW n \in Seq(K)
    PROVE  /\ Prefixes(n) \subseteq Seq(K)
           /\ \A m \in Seq(K) : m \in Prefixes(n) <=> IsPrefix(m, n)
<1>1. \A l \in 0 .. Len(n) : SubSeq(n, 1, l) \in Seq(K) /\ Len(SubSeq(n, 1, l)) = l
  OBVIOUS
<1>2. Prefixes(n) \subseteq Seq(K)
  BY <1>1 DEF Prefixes
<1>3. ASSUME NEW m \in Seq(K) PROVE m \in Prefixes(n) <=> IsPrefix(m, n)
  <2>1. SubSeq(m, 1, Len(m)) = m /\ Len(m) \in Nat /\ Len(n) \in Nat
    OBVIOUS
  <2>2. ASSUME IsPrefix(m, n) PROVE m \in Prefixes(n)
    <3>1. Len(m) \in 0 .. Len(n) /\ m = SubSeq(n, 1, Len(m))
      BY <2>1, <2>2 DEF IsPrefix
    <3> QED BY <3>1 DEF Prefixes
  <2>3. ASSUME NEW l \in 0 .. Len(n), m = SubSeq(n, 1, l) PROVE IsPrefix(m, n)
    BY <1>1, <2>1, <2>3 DEF IsPrefix
  <2> QED BY <2>2, <2>3 DEF Prefixes
<1> QED BY <1>2, <1>3

\* IsPrefix is a partial order, and the prefixes of a sequence are in one line.
LEMMA PrefixIsOrder ==
    ASSUME NEW K, NEW l \in Seq(K), NEW m \in Seq(K), NEW n \in Seq(K)
    PROVE  /\ IsPrefix(n, n)
           /\ IsPrefix(<<>>, n)
           /\ IsPrefix(l, m) /\ IsPrefix(m, n) => IsPrefix(l, n)
           /\ IsPrefix(m, n) /\ IsPrefix(n, m) => m = n
           /\ IsPrefix(l, n) /\ IsPrefix(m, n) => IsPrefix(l, m) \/ IsPrefix(m, l)
<1>1. IsPrefix(n, n) /\ IsPrefix(<<>>, n)
  <2> DEFINE e == <<>>
  <2>1. e \in Seq(K) /\ Len(e) = 0
    OBVIOUS
  <2> HIDE DEF e
  <2>2. IsPrefix(e, n)
    <3>1. Len(e) <= Len(n) /\ \A k \in 1 .. Len(e) : e[k] = n[k]
      BY <2>1
    <3> QED BY <2>1, <3>1, PrefixByItems
  <2>3. IsPrefix(n, n)
    BY PrefixByItems
  <2> QED BY <2>2, <2>3 DEF e
<1>2. ASSUME IsPrefix(l, m), IsPrefix(m, n) PROVE IsPrefix(l, n)
  BY <1>2, PrefixByItems
<1>3. ASSUME IsPrefix(m, n), IsPrefix(n, m) PROVE m = n
  <2>1. Len(m) = Len(n) /\ \A k \in 1 .. Len(m) : m[k] = n[k]
    BY <1>3, PrefixByItems
  <2> QED BY <2>1
<1>4. ASSUME IsPrefix(l, n), IsPrefix(m, n) PROVE IsPrefix(l, m) \/ IsPrefix(m, l)
  <2>1. CASE Len(l) <= Len(m)
    BY <1>4, <2>1, PrefixByItems
  <2>2. CASE Len(m) <= Len(l)
    BY <1>4, <2>2, PrefixByItems
  <2> QED BY <2>1, <2>2
<1> QED BY <1>1, <1>2, <1>3, <1>4

\* RestOf is what is left of a node after one that is on the way to it.
LEMMA RestOfNode ==
    ASSUME NEW K, NEW m \in Seq(K), NEW n \in Seq(K)
    PROVE  /\ m \o n \in Seq(K)
           /\ IsPrefix(m, m \o n)
           /\ RestOf(m, m \o n) = n
           /\ IsPrefix(m, n) => RestOf(m, n) \in Seq(K) /\ m \o RestOf(m, n) = n
           /\ m \o <<>> = m
<1>1. /\ m \o n \in Seq(K) /\ Len(m \o n) = Len(m) + Len(n)
      /\ \A k \in 1 .. Len(m) : (m \o n)[k] = m[k]
      /\ \A k \in 1 .. Len(n) : (m \o n)[Len(m) + k] = n[k]
  OBVIOUS
<1>2. IsPrefix(m, m \o n)
  <2> DEFINE c == m \o n
  <2>1. c \in Seq(K) /\ Len(m) <= Len(c) /\ \A k \in 1 .. Len(m) : m[k] = c[k]
    BY <1>1
  <2> HIDE DEF c
  <2>2. IsPrefix(m, c)
    BY <2>1, PrefixByItems
  <2> QED BY <2>2 DEF c
<1>3. RestOf(m, m \o n) = n
  BY <1>1 DEF RestOf
<1>4. ASSUME IsPrefix(m, n) PROVE RestOf(m, n) \in Seq(K) /\ m \o RestOf(m, n) = n
  <2>1. Len(m) <= Len(n) /\ \A k \in 1 .. Len(m) : m[k] = n[k]
    BY <1>4, PrefixByItems
  <2>2. RestOf(m, n) \in Seq(K)
    BY <2>1 DEF RestOf
  <2>3. Len(RestOf(m, n)) = Len(n) - Len(m)
        /\ \A k \in 1 .. Len(n) - Len(m) : RestOf(m, n)[k] = n[Len(m) + k]
    BY <2>1 DEF RestOf
  <2>4. Len(m \o RestOf(m, n)) = Len(n) /\ m \o RestOf(m, n) \in Seq(K)
    BY <2>1, <2>2, <2>3
  <2>5. \A k \in 1 .. Len(n) : (m \o RestOf(m, n))[k] = n[k]
    BY <2>1, <2>2, <2>3
  <2> DEFINE c == m \o RestOf(m, n)
  <2>6. c = n
    <3> HIDE DEF c
    <3>1. c \in Seq(K) /\ Len(c) = Len(n) /\ \A k \in 1 .. Len(n) : c[k] = n[k]
      BY <2>4, <2>5 DEF c
    <3> QED BY <3>1
  <2> QED BY <2>2, <2>6
<1>5. m \o <<>> = m
  OBVIOUS
<1> QED BY <1>1, <1>2, <1>3, <1>4, <1>5

\* What is on the way to a node below m is on the way to m or is below m.
LEMMA PrefixOfConcat ==
    ASSUME NEW K, NEW l \in Seq(K), NEW m \in Seq(K), NEW n \in Seq(K), IsPrefix(l, m \o n)
    PROVE  \/ IsPrefix(l, m) /\ l # m
           \/ IsPrefix(m, l) /\ RestOf(m, l) \in Seq(K) /\ l = m \o RestOf(m, l)
              /\ IsPrefix(RestOf(m, l), n)
<1>1. m \o n \in Seq(K) /\ IsPrefix(m, m \o n) /\ IsPrefix(m, m)
  BY RestOfNode, PrefixIsOrder
<1>2. IsPrefix(l, m) \/ IsPrefix(m, l)
  BY <1>1, PrefixIsOrder
<1>3. ASSUME IsPrefix(m, l) PROVE IsPrefix(RestOf(m, l), n)
  <2> DEFINE r == RestOf(m, l)
             c == m \o n
  <2>1. r \in Seq(K) /\ l = m \o r
    BY <1>3, RestOfNode
  <2> HIDE DEF r
  <2>2. /\ Len(l) = Len(m) + Len(r) /\ \A k \in 1 .. Len(r) : l[Len(m) + k] = r[k]
        /\ Len(c) = Len(m) + Len(n) /\ \A k \in 1 .. Len(n) : c[Len(m) + k] = n[k]
    BY <2>1
  <2> HIDE DEF c
  <2>3. Len(l) <= Len(c) /\ \A k \in 1 .. Len(l) : l[k] = c[k]
    <3>1. c \in Seq(K) /\ IsPrefix(l, c)
      BY <1>1 DEF c
    <3> QED BY <3>1, PrefixByItems
  <2>len. Len(r) \in Nat /\ Len(m) \in Nat /\ Len(n) \in Nat
    BY <2>1
  <2>4. Len(r) <= Len(n) /\ \A k \in 1 .. Len(r) : r[k] = n[k]
    <3>1. Len(r) <= Len(n)
      BY <2>2, <2>3, <2>len
    <3>2. ASSUME NEW k \in 1 .. Len(r) PROVE r[k] = n[k]
      <4>1. Len(m) + k \in 1 .. Len(l) /\ k \in 1 .. Len(n)
        BY <2>2, <2>len, <3>1
      <4> QED BY <2>2, <2>3, <4>1
    <3> QED BY <3>1, <3>2
  <2> QED BY <2>1, <2>4, PrefixByItems DEF r
<1> QED BY <1>1, <1>2, <1>3, RestOfNode

-----------------------------------------------------------------------------
(* Trees                                                                   *)

\* The nodes of all trees.
Nodes == Seq(Paths)

\* m is on the way to n.
Above(m, n) == IsPrefix(m, n) /\ m # n

\* A function with finitely many nodes.
IsFinite(t) == t \in [DOMAIN t -> Range(t)] /\ IsFiniteSet(DOMAIN t)

\* IsTree, in terms of what is on the way to a node.
LEMMA TreeByNodes ==
    ASSUME NEW t
    PROVE  IsTree(t) <=> /\ IsFinite(t)
                         /\ DOMAIN t \subseteq Nodes
                         /\ <<>> \in DOMAIN t
                         /\ \A n \in DOMAIN t : \A m \in Nodes :
                               Above(m, n) => m \in DOMAIN t /\ t[m] = Map
<1>1. ASSUME NEW n \in Nodes
      PROVE  Prefixes(n) \ {n} = {m \in Nodes : Above(m, n)}
  BY <1>1, PrefixesOf DEF Nodes, Above
<1> QED BY <1>1 DEF IsTree, Nodes, IsFinite

\* What a finite set is mapped onto is finite, and as large if nothing falls
\* together.
LEMMA ImageIsFinite ==
    ASSUME NEW S, IsFiniteSet(S), NEW T, NEW f,
           \A x \in S : f[x] \in T, \A y \in T : \E x \in S : f[x] = y
    PROVE  /\ IsFiniteSet(T)
           /\ (\A x, y \in S : f[x] = f[y] => x = y) => Cardinality(T) = Cardinality(S)
<1> DEFINE g == [x \in S |-> f[x]]
<1>1. g \in Surjection(S, T)
  BY DEF Surjection
<1>2. (\A x, y \in S : f[x] = f[y] => x = y) => g \in Injection(S, T)
  BY DEF Injection, IsInjective
<1> HIDE DEF g
<1> QED BY <1>1, <1>2, FS_Surjection

\* A function on a finite set is one with finitely many nodes.
LEMMA FunctionIsFinite ==
    ASSUME NEW t, NEW D, IsFiniteSet(D), t = [n \in D |-> t[n]]
    PROVE  IsFinite(t)
<1>1. DOMAIN t = D
  OBVIOUS
<1>2. \A n \in D : t[n] \in Range(t)
  BY <1>1 DEF Range
<1> QED BY <1>1, <1>2 DEF IsFinite

\* A path leads to a node.
LEMMA NodeOfPath ==
    ASSUME NEW path \in Paths
    PROVE  NodeOf(path) \in Nodes /\ (path # <<>> => NodeOf(path) # <<>>)
<1>1. path \in Seq(Words) /\ DOMAIN path = 1 .. Len(path) /\ Len(path) \in Nat
  BY DEF Paths
<1>2. \A k \in 1 .. Len(path) : <<path[k]>> \in Seq(Words)
  BY <1>1
<1>3. NodeOf(path) \in Nodes /\ DOMAIN NodeOf(path) = 1 .. Len(path)
  <2>1. NodeOf(path) = [k \in 1 .. Len(path) |-> <<path[k]>>]
    BY <1>1 DEF NodeOf
  <2>2. \A k \in 1 .. Len(path) : <<path[k]>> \in Paths
    BY <1>2 DEF Paths
  <2> QED BY <1>1, <2>1, <2>2 DEF Nodes
<1>4. path # <<>> => Len(path) # 0
  BY <1>1
<1>5. path # <<>> => 1 \in DOMAIN NodeOf(path)
  BY <1>1, <1>3, <1>4
<1> QED BY <1>3, <1>5

\* A value by itself is a tree.
LEMMA LeafIsTree == \A v : IsTree(Leaf(v)) /\ DOMAIN Leaf(v) = {<<>>} /\ Leaf(v)[<<>>] = v
<1>1. <<>> \in Nodes
  BY DEF Nodes
<1>2. \A m \in Nodes : IsPrefix(m, <<>>) => m = <<>>
  BY <1>1, PrefixIsOrder DEF Nodes
<1>3. ASSUME NEW v PROVE DOMAIN Leaf(v) = {<<>>} /\ Leaf(v)[<<>>] = v
  BY DEF Leaf
<1>4. ASSUME NEW v PROVE IsTree(Leaf(v))
  <2>1. IsFiniteSet({<<>>}) /\ Leaf(v) = [n \in {<<>>} |-> Leaf(v)[n]]
    BY FS_Singleton DEF Leaf
  <2>2. IsFinite(Leaf(v))
    BY <2>1, FunctionIsFinite
  <2> QED BY <1>1, <1>2, <1>3, <2>2, TreeByNodes DEF Above
<1> QED BY <1>3, <1>4

\* s is t with v at n and maps on the way to n.
HasAt(s, t, n, v) ==
    /\ DOMAIN s = {m \in DOMAIN t : ~IsPrefix(n, m)}
                    \cup {m \in Nodes : Above(m, n)}
                    \cup {n \o r : r \in DOMAIN v}
    /\ \A m \in Nodes : Above(m, n) => s[m] = Map
    /\ \A m \in DOMAIN t : ~IsPrefix(n, m) /\ ~IsPrefix(m, n) => s[m] = t[m]
    /\ \A r \in DOMAIN v : s[n \o r] = v[r]

\* That is what SetField makes of a tree.
LEMMA SetFieldNodes ==
    ASSUME NEW t, IsTree(t), NEW v, IsTree(v), NEW path \in Paths, path # <<>>
    PROVE  HasAt(SetField(t, path, v), t, NodeOf(path), v)
<1> DEFINE s == SetField(t, path, v)
           n == NodeOf(path)
           above == Prefixes(n) \ {n}
           kept == DOMAIN t \ Below(t, n)
           new == {n \o r : r \in DOMAIN v}
<1>1. n \in Nodes /\ DOMAIN t \subseteq Nodes /\ DOMAIN v \subseteq Nodes
  BY NodeOfPath, TreeByNodes
<1>2. above = {m \in Nodes : Above(m, n)}
  BY <1>1, PrefixesOf DEF Nodes, Above
<1>3. kept = {m \in DOMAIN t : ~IsPrefix(n, m)}
  BY DEF Below
<1>4. \A r \in DOMAIN v : n \o r \in Nodes /\ IsPrefix(n, n \o r) /\ RestOf(n, n \o r) = r
  BY <1>1, RestOfNode DEF Nodes
<1>5. s = [m \in kept \cup above \cup new |->
             CASE m \in above -> Map
               [] m \in kept \ above -> t[m]
               [] OTHER -> v[RestOf(n, m)]]
  BY DEF SetField
<1>6. \A m \in Nodes : Above(m, n) => ~IsPrefix(n, m)
  BY <1>1, PrefixIsOrder DEF Nodes, Above
<1> HIDE DEF s, n, above, kept
<1>7. DOMAIN s = kept \cup above \cup new
  BY <1>5
<1>8. \A m \in above : s[m] = Map
  BY <1>5
<1>9. \A m \in kept \ above : s[m] = t[m]
  BY <1>5
<1>10. \A r \in DOMAIN v : s[n \o r] = v[r]
  <2> SUFFICES ASSUME NEW r \in DOMAIN v PROVE s[n \o r] = v[r]
    OBVIOUS
  <2> DEFINE m == n \o r
  <2>1. m \notin above /\ m \notin kept /\ m \in new /\ RestOf(n, m) = r
    BY <1>2, <1>3, <1>4, <1>6
  <2> HIDE DEF m, new
  <2>2. s[m] = v[RestOf(n, m)]
    BY <1>5, <2>1
  <2> QED BY <2>1, <2>2 DEF m
<1>11. \A m \in DOMAIN t : ~IsPrefix(n, m) /\ ~IsPrefix(m, n) => m \in kept \ above
  BY <1>2, <1>3 DEF Above
<1> QED BY <1>2, <1>3, <1>7, <1>8, <1>9, <1>10, <1>11 DEF s, n, HasAt

\* SetField adds finitely many nodes.
LEMMA SetFieldIsFinite ==
    ASSUME NEW t, IsTree(t), NEW v, IsTree(v), NEW path \in Paths, path # <<>>
    PROVE  IsFinite(SetField(t, path, v))
<1> DEFINE s == SetField(t, path, v)
           n == NodeOf(path)
           kept == DOMAIN t \ Below(t, n)
           above == Prefixes(n) \ {n}
           new == {n \o r : r \in DOMAIN v}
           D == kept \cup above \cup new
<1>1. IsFiniteSet(DOMAIN t) /\ IsFiniteSet(DOMAIN v)
  BY TreeByNodes DEF IsFinite
<1>2. IsFiniteSet(kept)
  BY <1>1, FS_Subset
<1>3. IsFiniteSet(above)
  <2> DEFINE P == Prefixes(n)
             I == 0 .. Len(n)
             f == [l \in I |-> SubSeq(n, 1, l)]
  <2>0. Len(n) \in Int
    BY NodeOfPath DEF Nodes
  <2>1. IsFiniteSet(I)
    BY <2>0, FS_Interval
  <2>2. (\A l \in I : f[l] \in P) /\ (\A y \in P : \E l \in I : f[l] = y)
    BY DEF Prefixes
  <2> HIDE DEF f, I, P
  <2>3. IsFiniteSet(P)
    BY <2>1, <2>2, ImageIsFinite
  <2> QED BY <2>3, FS_Subset DEF P
<1>4. IsFiniteSet(new)
  <2> DEFINE f == [r \in DOMAIN v |-> n \o r]
  <2>1. (\A r \in DOMAIN v : f[r] \in new) /\ (\A y \in new : \E r \in DOMAIN v : f[r] = y)
    OBVIOUS
  <2> HIDE DEF f, new
  <2> QED BY <1>1, <2>1, ImageIsFinite
<1> HIDE DEF kept, above, new
<1>5. IsFiniteSet(D)
  BY <1>2, <1>3, <1>4, FS_Union
<1>6. s = [m \in D |-> CASE m \in above -> Map
                        [] m \in kept \ above -> t[m]
                        [] OTHER -> v[RestOf(n, m)]]
  BY DEF SetField, kept, above, new
<1>7. s = [m \in D |-> s[m]]
  BY <1>6
<1> HIDE DEF s, D
<1>8. IsFinite(s)
  BY <1>5, <1>7, FunctionIsFinite
<1> QED BY <1>8 DEF s

\* SetField of a tree leaves a tree: whatever is on the way to the new value is
\* a map.
LEMMA SetFieldIsTree ==
    ASSUME NEW t, IsTree(t), NEW v, IsTree(v), NEW path \in Paths
    PROVE  IsTree(SetField(t, path, v))
<1>1. CASE path = <<>>
  BY <1>1 DEF SetField
<1>2. CASE path # <<>>
  <2> DEFINE s == SetField(t, path, v)
             n == NodeOf(path)
  <2>1. /\ DOMAIN s = {m \in DOMAIN t : ~IsPrefix(n, m)}
                        \cup {m \in Nodes : Above(m, n)}
                        \cup {n \o r : r \in DOMAIN v}
        /\ \A m \in Nodes : Above(m, n) => s[m] = Map
        /\ \A m \in DOMAIN t : ~IsPrefix(n, m) /\ ~IsPrefix(m, n) => s[m] = t[m]
        /\ \A r \in DOMAIN v : s[n \o r] = v[r]
    <3>1. HasAt(s, t, n, v)
      BY <1>2, SetFieldNodes
    <3> QED BY <3>1 DEF HasAt
  <2>2. /\ n \in Nodes /\ n # <<>> /\ DOMAIN t \subseteq Nodes /\ DOMAIN v \subseteq Nodes
        /\ <<>> \in DOMAIN t /\ <<>> \in Nodes
        /\ \A l \in DOMAIN t : \A m \in Nodes : Above(m, l) => m \in DOMAIN t /\ t[m] = Map
        /\ \A l \in DOMAIN v : \A m \in Nodes : Above(m, l) => m \in DOMAIN v /\ v[m] = Map
    BY <1>2, NodeOfPath, TreeByNodes
  <2> HIDE DEF s, n
  <2>3. DOMAIN s \subseteq Nodes
    <3>1. \A r \in DOMAIN v : n \o r \in Nodes
      BY <2>2, RestOfNode DEF Nodes
    <3> QED BY <2>1, <2>2, <3>1
  <2>4. <<>> \in DOMAIN s
    BY <2>1, <2>2, PrefixIsOrder DEF Nodes, Above
  <2>5. ASSUME NEW l \in DOMAIN s, NEW m \in Nodes, Above(m, l)
        PROVE  m \in DOMAIN s /\ s[m] = Map
    <3>1. CASE Above(m, n)
      BY <2>1, <3>1
    <3>2. CASE ~Above(m, n) /\ l \in DOMAIN t /\ ~IsPrefix(n, l)
      <4>1. m \in DOMAIN t /\ t[m] = Map
        BY <2>2, <2>5, <3>2
      <4>2. ~IsPrefix(n, m)
        BY <2>2, <2>5, <3>2, PrefixIsOrder DEF Nodes, Above
      <4>3. ~IsPrefix(m, n)
        BY <2>2, <3>2, <4>2, PrefixIsOrder DEF Above, Nodes
      <4> QED BY <2>1, <4>1, <4>2, <4>3
    <3>3. CASE Above(l, n)
      BY <2>2, <2>3, <2>5, <3>1, <3>3, PrefixIsOrder DEF Above, Nodes
    <3>4. ASSUME ~Above(m, n), NEW r \in DOMAIN v, l = n \o r PROVE m \in DOMAIN s /\ s[m] = Map
      <4>1. r \in Nodes
        BY <2>2
      <4>2. RestOf(n, m) \in Nodes /\ m = n \o RestOf(n, m) /\ IsPrefix(RestOf(n, m), r)
        BY <2>2, <2>5, <3>4, <4>1, PrefixOfConcat DEF Above, Nodes
      <4>3. Above(RestOf(n, m), r)
        BY <2>5, <3>4, <4>2 DEF Above
      <4>4. RestOf(n, m) \in DOMAIN v /\ v[RestOf(n, m)] = Map
        BY <2>2, <4>2, <4>3
      <4> QED BY <2>1, <4>2, <4>4
    <3> QED BY <2>1, <3>1, <3>2, <3>3, <3>4
  <2>fin. IsFinite(s)
    BY <1>2, SetFieldIsFinite DEF s
  <2>6. IsTree(s)
    BY <2>3, <2>4, <2>5, <2>fin, TreeByNodes
  <2> QED BY <2>6 DEF s
<1> QED BY <1>1, <1>2

\* What RemoveField leaves of a tree.
LEMMA RemoveFieldNodes ==
    ASSUME NEW t, IsTree(t), NEW path \in Paths, HasField(t, path)
    PROVE  LET s == RemoveField(t, path)
               n == NodeOf(path)
           IN  /\ DOMAIN s = {m \in DOMAIN t : ~IsPrefix(n, m)}
               /\ \A m \in DOMAIN s : s[m] = t[m]
<1>1. RemoveField(t, path) = Restrict(t, DOMAIN t \ Below(t, NodeOf(path)))
  BY DEF RemoveField
<1> QED BY <1>1 DEF Restrict, Below

\* RemoveField leaves a tree.
LEMMA RemoveFieldIsTree ==
    ASSUME NEW t, IsTree(t), NEW path \in Paths
    PROVE  IsTree(RemoveField(t, path))
<1>1. CASE ~HasField(t, path)
  BY <1>1 DEF RemoveField
<1>2. CASE HasField(t, path)
  <2> DEFINE s == RemoveField(t, path)
             n == NodeOf(path)
  <2>1. DOMAIN s = {m \in DOMAIN t : ~IsPrefix(n, m)} /\ \A m \in DOMAIN s : s[m] = t[m]
    BY <1>2, RemoveFieldNodes
  <2>2. /\ n \in Nodes /\ n # <<>> /\ DOMAIN t \subseteq Nodes
        /\ <<>> \in DOMAIN t /\ <<>> \in Nodes
        /\ \A l \in DOMAIN t : \A m \in Nodes : Above(m, l) => m \in DOMAIN t /\ t[m] = Map
    BY <1>2, NodeOfPath, TreeByNodes DEF HasField
  <2> HIDE DEF s, n
  <2>3. <<>> \in DOMAIN s
    BY <2>1, <2>2, PrefixIsOrder DEF Nodes
  <2>4. ASSUME NEW l \in DOMAIN s, NEW m \in Nodes, Above(m, l)
        PROVE  m \in DOMAIN s /\ s[m] = Map
    <3>1. m \in DOMAIN t /\ t[m] = Map /\ l \in Nodes /\ ~IsPrefix(n, l)
      BY <2>1, <2>2, <2>4
    <3>2. ~IsPrefix(n, m)
      BY <2>2, <2>4, <3>1, PrefixIsOrder DEF Nodes, Above
    <3> QED BY <2>1, <3>1, <3>2
  <2>fin. IsFinite(s)
    <3> DEFINE D == DOMAIN t \ Below(t, n)
    <3>1. IsFiniteSet(D)
      BY TreeByNodes, FS_Subset DEF IsFinite
    <3>2. s = [m \in D |-> s[m]]
      BY <1>2 DEF RemoveField, Restrict, s, n
    <3> HIDE DEF D
    <3> QED BY <3>1, <3>2, FunctionIsFinite
  <2>5. IsTree(s)
    BY <2>1, <2>2, <2>3, <2>4, <2>fin, TreeByNodes
  <2> QED BY <2>5 DEF s
<1> QED BY <1>1, <1>2

\* What is below a node is a tree.
LEMMA SubtreeIsTree ==
    ASSUME NEW t, IsTree(t), NEW n \in DOMAIN t
    PROVE  LET s == [r \in {RestOf(n, m) : m \in Below(t, n)} |-> t[n \o r]]
           IN  IsTree(s) /\ DOMAIN s = {r \in Nodes : n \o r \in DOMAIN t}
<1> DEFINE s == [r \in {RestOf(n, m) : m \in Below(t, n)} |-> t[n \o r]]
<1>1. /\ n \in Nodes /\ DOMAIN t \subseteq Nodes /\ <<>> \in Nodes
      /\ \A l \in DOMAIN t : \A m \in Nodes : Above(m, l) => m \in DOMAIN t /\ t[m] = Map
  BY TreeByNodes
<1>2. DOMAIN s = {r \in Nodes : n \o r \in DOMAIN t}
  <2>1. ASSUME NEW m \in DOMAIN t, IsPrefix(n, m)
        PROVE  RestOf(n, m) \in Nodes /\ n \o RestOf(n, m) \in DOMAIN t
    <3>1. RestOf(n, m) \in Nodes /\ n \o RestOf(n, m) = m
      BY <1>1, <2>1, RestOfNode DEF Nodes
    <3> QED BY <3>1, Zenon
  <2>2. ASSUME NEW r \in Nodes, n \o r \in DOMAIN t
        PROVE  IsPrefix(n, n \o r) /\ r = RestOf(n, n \o r)
    BY <1>1, RestOfNode DEF Nodes
  <2> QED BY <2>1, <2>2 DEF Below
<1>3. \A r \in DOMAIN s : s[r] = t[n \o r]
  OBVIOUS
<1> HIDE DEF s
<1>4. <<>> \in DOMAIN s
  <2>1. n \o <<>> = n
    BY <1>1 DEF Nodes
  <2> QED BY <1>1, <1>2, <2>1
<1>5. ASSUME NEW l \in DOMAIN s, NEW m \in Nodes, Above(m, l)
      PROVE  m \in DOMAIN s /\ s[m] = Map
  <2>1. l \in Nodes /\ n \o l \in DOMAIN t
    BY <1>2
  <2>2. n \o m \in Nodes /\ n \o l \in Nodes
    BY <1>1, <2>1 DEF Nodes
  <2>3. IsPrefix(n \o m, n \o l)
    <3> DEFINE a == n \o m
               b == n \o l
    <3>1. Len(m) <= Len(l) /\ \A k \in 1 .. Len(m) : m[k] = l[k]
      BY <1>5, <2>1, PrefixByItems DEF Above, Nodes
    <3>2. Len(a) <= Len(b) /\ \A k \in 1 .. Len(a) : a[k] = b[k]
      BY <1>1, <2>1, <3>1 DEF Nodes
    <3> HIDE DEF a, b
    <3>3. IsPrefix(a, b)
      BY <2>2, <3>2, PrefixByItems DEF a, b, Nodes
    <3> QED BY <3>3 DEF a, b
  <2>4. n \o m # n \o l
    <3>1. RestOf(n, n \o m) = m /\ RestOf(n, n \o l) = l
      BY <1>1, <2>1, RestOfNode DEF Nodes
    <3> QED BY <1>5, <3>1 DEF Above
  <2>5. n \o m \in DOMAIN t /\ t[n \o m] = Map
    BY <1>1, <2>1, <2>2, <2>3, <2>4 DEF Above
  <2> QED BY <1>2, <1>3, <2>5
<1>6. IsFinite(s)
  <2> DEFINE B == Below(t, n)
             D == {RestOf(n, m) : m \in B}
             f == [m \in B |-> RestOf(n, m)]
  <2>1. IsFiniteSet(B)
    BY TreeByNodes, FS_Subset DEF IsFinite, Below
  <2>2. (\A m \in B : f[m] \in D) /\ (\A y \in D : \E m \in B : f[m] = y)
    OBVIOUS
  <2>3. s = [r \in D |-> s[r]]
    BY DEF s
  <2> HIDE DEF f, B, D
  <2>4. IsFiniteSet(D)
    BY <2>1, <2>2, ImageIsFinite
  <2> QED BY <2>3, <2>4, FunctionIsFinite
<1>7. IsTree(s)
  BY <1>2, <1>4, <1>5, <1>6, TreeByNodes
<1> QED BY <1>2, <1>7 DEF s

\* The value of a field is a tree.
LEMMA GetFieldIsTree ==
    ASSUME NEW t, IsTree(t), NEW path, HasField(t, path)
    PROVE  IsTree(GetField(t, path))
BY SubtreeIsTree DEF GetField, HasField

\* Moving a field leaves a tree.
LEMMA MoveFieldIsTree ==
    ASSUME NEW t, IsTree(t), NEW from \in Paths, NEW to \in Paths
    PROVE  IsTree(MoveField(t, from, to))
BY GetFieldIsTree, SetFieldIsTree, RemoveFieldIsTree DEF MoveField

\* SetField of a payload leaves a payload: the top remains a map.
LEMMA SetFieldIsPayload ==
    ASSUME NEW t, IsPayload(t), NEW v, IsTree(v), NEW path \in Paths
    PROVE  IsPayload(SetField(t, path, v))
<1>1. IsTree(t) /\ t[<<>>] = Map
  BY DEF IsPayload
<1>2. IsTree(SetField(t, path, v))
  BY <1>1, SetFieldIsTree
<1>3. SetField(t, path, v)[<<>>] = Map
  <2>1. CASE path = <<>>
    BY <1>1, <2>1 DEF SetField
  <2>2. CASE path # <<>>
    <3>1. HasAt(SetField(t, path, v), t, NodeOf(path), v)
      BY <1>1, <2>2, SetFieldNodes
    <3>2. <<>> \in Nodes /\ Above(<<>>, NodeOf(path))
      BY <1>1, <2>2, NodeOfPath, PrefixIsOrder, TreeByNodes DEF Above, Nodes
    <3> QED BY <3>1, <3>2 DEF HasAt
  <2> QED BY <2>1, <2>2
<1> QED BY <1>2, <1>3 DEF IsPayload

\* And so does RemoveField.
LEMMA RemoveFieldIsPayload ==
    ASSUME NEW t, IsPayload(t), NEW path \in Paths
    PROVE  IsPayload(RemoveField(t, path))
<1>1. IsTree(t) /\ t[<<>>] = Map
  BY DEF IsPayload
<1>2. IsTree(RemoveField(t, path))
  BY <1>1, RemoveFieldIsTree
<1>3. RemoveField(t, path)[<<>>] = Map
  <2>1. CASE ~HasField(t, path)
    BY <1>1, <2>1 DEF RemoveField
  <2>2. CASE HasField(t, path)
    <3>1. <<>> \in DOMAIN RemoveField(t, path)
      BY <1>2, TreeByNodes
    <3> QED BY <1>1, <2>2, <3>1, RemoveFieldNodes
  <2> QED BY <2>1, <2>2
<1> QED BY <1>2, <1>3 DEF IsPayload

\* And so does moving a field.
LEMMA MoveFieldIsPayload ==
    ASSUME NEW t, IsPayload(t), NEW from \in Paths, NEW to \in Paths
    PROVE  IsPayload(MoveField(t, from, to))
BY GetFieldIsTree, SetFieldIsPayload, RemoveFieldIsPayload DEF MoveField, IsPayload

-----------------------------------------------------------------------------
(* The folds of field.rename, field.remove and field.unflatten             *)

\* Induction, for the numbers in a set.
LEMMA Induction ==
    ASSUME NEW S, 0 \in S, \A n \in Nat : n \in S => n + 1 \in S
    PROVE  Nat \subseteq S
<1> DEFINE T == Nat \ S
<1> SUFFICES ASSUME T # {} PROVE FALSE
  OBVIOUS
<1>1. PICK x \in T : \A y \in T : ~(<<y, x>> \in OpToRel(<, Nat))
  BY WFMin, NatLessThanWellFounded, Zenon
<1>2. \A y \in T : ~(y < x)
  BY <1>1 DEF OpToRel
<1>3. x # 0 /\ x - 1 \in Nat /\ x - 1 \notin T
  BY <1>2
<1> QED BY <1>3

\* The largest number of a set.
LEMMA MaxUpTo ==
    ASSUME NEW k \in Nat, NEW s \in SUBSET (1 .. k), k \in s
    PROVE  Max(s) = k
<1>1. \A y \in s : k >= y
  OBVIOUS
<1>2. \A x \in s : (\A y \in s : x >= y) => x = k
  OBVIOUS
<1> QED BY <1>1, <1>2 DEF Max

\* One step of each of the folds; t is the payload field.unflatten starts from.
FoldStep(how, t, x, y) ==
    CASE how = "rename" -> MoveField(x, y[1], y[2])
      [] how = "remove" -> RemoveField(x, y)
      [] OTHER -> IF x.ok THEN SetNested(x.tree, y, Under(t, y)) ELSE x

\* g is what MapThenFoldSet computes, set of indices by set of indices.
IsFold(g, how, t, base, seq, n) ==
    g = [s \in SUBSET (1 .. n) |->
           IF s = {} THEN base ELSE FoldStep(how, t, g[s \ {Max(s)}], seq[Max(s)])]

\* What MapThenFoldSet is defined by there is, for any number of items.
LEMMA FoldsExist ==
    ASSUME NEW how, NEW t, NEW base, NEW seq
    PROVE  \A n \in Nat : \E g : IsFold(g, how, t, base, seq, n)
<1> DEFINE step(x, k) == FoldStep(how, t, x, seq[k])
           S == {n \in Nat : \E g : IsFold(g, how, t, base, seq, n)}
<1> HIDE DEF step
<1>step. \A x, k : FoldStep(how, t, x, seq[k]) = step(x, k)
  BY DEF step
<1>def. ASSUME NEW g, NEW n,
               g = [s \in SUBSET (1 .. n) |->
                      IF s = {} THEN base ELSE step(g[s \ {Max(s)}], Max(s))]
        PROVE  IsFold(g, how, t, base, seq, n)
  BY <1>def, Zenon DEF IsFold, step
<1>1. 0 \in S
  <2> DEFINE g == [s \in SUBSET (1 .. 0) |-> base]
  <2>1. \A s \in SUBSET (1 .. 0) : s = {}
    OBVIOUS
  <2>2. g = [s \in SUBSET (1 .. 0) |->
                IF s = {} THEN base ELSE step(g[s \ {Max(s)}], Max(s))]
    BY <2>1, Zenon
  <2> HIDE DEF g
  <2>3. \E h : IsFold(h, how, t, base, seq, 0)
    BY <2>2, <1>def, Zenon
  <2> QED BY <2>3
<1>2. ASSUME NEW n \in Nat, n \in S PROVE n + 1 \in S
  <2>1. PICK g : IsFold(g, how, t, base, seq, n)
    BY <1>2
  <2> DEFINE h == [s \in SUBSET (1 .. n + 1) |->
                     IF n + 1 \in s THEN step(g[s \ {n + 1}], n + 1) ELSE g[s]]
             body(s) == IF s = {} THEN base ELSE step(h[s \ {Max(s)}], Max(s))
  <2>2. ASSUME NEW s \in SUBSET (1 .. n + 1) PROVE h[s] = body(s)
    <3>1. CASE n + 1 \in s
      <4>1. Max(s) = n + 1 /\ s # {}
        BY <3>1, n + 1 \in Nat, MaxUpTo
      <4>2. h[s \ {n + 1}] = g[s \ {n + 1}]
        OBVIOUS
      <4>3. h[s] = step(g[s \ {n + 1}], n + 1)
        BY <3>1
      <4> HIDE DEF h
      <4> QED BY <4>1, <4>2, <4>3
    <3>2. CASE n + 1 \notin s
      <4>1. s \in SUBSET (1 .. n)
        BY <3>2
      <4>2. h[s] = g[s] /\ h[s \ {Max(s)}] = g[s \ {Max(s)}]
        BY <3>2, <4>1, s \ {Max(s)} \in SUBSET (1 .. n)
      <4>3. g[s] = IF s = {} THEN base ELSE step(g[s \ {Max(s)}], Max(s))
        BY <2>1, <4>1, Zenon DEF IsFold, step
      <4> HIDE DEF h
      <4> QED BY <4>2, <4>3
    <3> QED BY <3>1, <3>2
  <2>3. h = [s \in SUBSET (1 .. n + 1) |-> body(s)]
    <3>1. h = [s \in SUBSET (1 .. n + 1) |-> h[s]]
      OBVIOUS
    <3> HIDE DEF h
    <3> QED BY <2>2, <3>1, Zenon
  <2> HIDE DEF h
  <2>4. \E i1 : IsFold(i1, how, t, base, seq, n + 1)
    BY <2>3, <1>def, Zenon
  <2> QED BY <2>4, n + 1 \in Nat
<1>3. Nat \subseteq S
  <2> HIDE DEF S
  <2> QED BY <1>1, <1>2, Induction
<1> QED BY <1>3

\* The values of a fold after each of the items.
IsRun(f, how, t, base, seq, n) ==
    f[0] = base /\ \A k \in 1 .. n : f[k] = FoldStep(how, t, f[k - 1], seq[k])

\* The values after each of the items, from the values of all sets of items.
LEMMA FoldRun ==
    ASSUME NEW how, NEW t, NEW base, NEW seq, NEW n \in Nat, NEW g,
           IsFold(g, how, t, base, seq, n)
    PROVE  \E f : IsRun(f, how, t, base, seq, n) /\ f[n] = g[1 .. n]
<1> DEFINE f == [k \in 0 .. n |-> g[1 .. k]]
<1>1. f[0] = base
  <2>1. f[0] = g[{}] /\ {} \in SUBSET (1 .. n)
    BY 1 .. 0 = {}
  <2> QED BY <2>1, Zenon DEF IsFold
<1>2. ASSUME NEW k \in 1 .. n
      PROVE  f[k] = FoldStep(how, t, f[k - 1], seq[k])
  <2>1. k \in 0 .. n /\ k - 1 \in 0 .. n
    OBVIOUS
  <2>2. 1 .. k \in SUBSET (1 .. n) /\ 1 .. k # {}
    OBVIOUS
  <2>3. Max(1 .. k) = k
    BY k \in Nat, k \in 1 .. k, 1 .. k \in SUBSET (1 .. k), MaxUpTo
  <2>4. (1 .. k) \ {k} = 1 .. k - 1
    BY <2>1
  <2>5. g[1 .. k] = FoldStep(how, t, g[(1 .. k) \ {Max(1 .. k)}], seq[Max(1 .. k)])
    BY <2>2, Zenon DEF IsFold
  <2>6. f[k] = g[1 .. k] /\ f[k - 1] = g[1 .. k - 1]
    BY <2>1
  <2> HIDE DEF f
  <2> QED BY <2>3, <2>4, <2>5, <2>6, Zenon
<1>3. f[n] = g[1 .. n]
  OBVIOUS
<1> HIDE DEF f
<1>4. IsRun(f, how, t, base, seq, n)
  BY <1>1, <1>2 DEF IsRun
<1> QED BY <1>3, <1>4

\* The fold of field.rename is a run.
LEMMA RenameRun ==
    ASSUME NEW E, NEW seq \in Seq(E), NEW base
    PROVE  \E f : /\ IsRun(f, "rename", base, base, seq, Len(seq))
                  /\ f[Len(seq)] = FoldLeft(LAMBDA x, m : MoveField(x, m[1], m[2]), base, seq)
<1> DEFINE n == Len(seq)
           Is(g) == g = [s \in SUBSET (1 .. n) |->
                          IF s = {} THEN base
                          ELSE MoveField(g[s \ {Max(s)}], seq[Max(s)][1], seq[Max(s)][2])]
           iter == CHOOSE g : Is(g)
           all == FoldLeft(LAMBDA x, m : MoveField(x, m[1], m[2]), base, seq)
<1>1. n \in Nat /\ DOMAIN seq = 1 .. n
  OBVIOUS
<1>2. \A x, y : FoldStep("rename", base, x, y) = MoveField(x, y[1], y[2])
  BY DEF FoldStep
<1>3. \A g : IsFold(g, "rename", base, base, seq, n) <=> Is(g)
  <2>1. ASSUME NEW g PROVE IsFold(g, "rename", base, base, seq, n) <=> Is(g)
    <3> DEFINE Body(s) == IF s = {} THEN base
                          ELSE FoldStep("rename", base, g[s \ {Max(s)}], seq[Max(s)])
               Same(s) == IF s = {} THEN base
                          ELSE MoveField(g[s \ {Max(s)}], seq[Max(s)][1], seq[Max(s)][2])
    <3>1. \A s : Body(s) = Same(s)
      BY <1>2, Zenon
    <3>2. IsFold(g, "rename", base, base, seq, n) <=> g = [s \in SUBSET (1 .. n) |-> Body(s)]
      BY DEF IsFold
    <3>3. Is(g) <=> g = [s \in SUBSET (1 .. n) |-> Same(s)]
      OBVIOUS
    <3> HIDE DEF Body, Same, Is
    <3>4. [s \in SUBSET (1 .. n) |-> Body(s)] = [s \in SUBSET (1 .. n) |-> Same(s)]
      BY <3>1
    <3> QED BY <3>2, <3>3, <3>4, Zenon
  <2> QED BY <2>1, Zenon
<1>4. \E g : Is(g)
  BY <1>1, <1>3, FoldsExist, Zenon
<1>5. Is(iter)
  BY <1>4, Zenon
<1>6. all = iter[1 .. n]
  BY <1>1, Zenon DEF FoldLeft, MapThenFoldSet
<1> HIDE DEF n, iter, Is, all
<1>is. IsFold(iter, "rename", base, base, seq, n)
  BY <1>3, <1>5, Zenon
<1>7. \E f : IsRun(f, "rename", base, base, seq, n) /\ f[n] = iter[1 .. n]
  BY <1>1, <1>is, FoldRun
<1> QED BY <1>6, <1>7, Zenon DEF n, all

\* The fold of field.remove is a run.
LEMMA RemoveRun ==
    ASSUME NEW E, NEW seq \in Seq(E), NEW base
    PROVE  \E f : /\ IsRun(f, "remove", base, base, seq, Len(seq))
                  /\ f[Len(seq)] = FoldLeft(RemoveField, base, seq)
<1> DEFINE n == Len(seq)
           Is(g) == g = [s \in SUBSET (1 .. n) |->
                          IF s = {} THEN base
                          ELSE RemoveField(g[s \ {Max(s)}], seq[Max(s)])]
           iter == CHOOSE g : Is(g)
           all == FoldLeft(RemoveField, base, seq)
<1>1. n \in Nat /\ DOMAIN seq = 1 .. n
  OBVIOUS
<1>2. \A x, y : FoldStep("remove", base, x, y) = RemoveField(x, y)
  BY DEF FoldStep
<1>3. \A g : IsFold(g, "remove", base, base, seq, n) <=> Is(g)
  <2>1. ASSUME NEW g PROVE IsFold(g, "remove", base, base, seq, n) <=> Is(g)
    <3> DEFINE Body(s) == IF s = {} THEN base
                          ELSE FoldStep("remove", base, g[s \ {Max(s)}], seq[Max(s)])
               Same(s) == IF s = {} THEN base
                          ELSE RemoveField(g[s \ {Max(s)}], seq[Max(s)])
    <3>1. \A s : Body(s) = Same(s)
      BY <1>2, Zenon
    <3>2. IsFold(g, "remove", base, base, seq, n) <=> g = [s \in SUBSET (1 .. n) |-> Body(s)]
      BY DEF IsFold
    <3>3. Is(g) <=> g = [s \in SUBSET (1 .. n) |-> Same(s)]
      OBVIOUS
    <3> HIDE DEF Body, Same, Is
    <3>4. [s \in SUBSET (1 .. n) |-> Body(s)] = [s \in SUBSET (1 .. n) |-> Same(s)]
      BY <3>1
    <3> QED BY <3>2, <3>3, <3>4, Zenon
  <2> QED BY <2>1, Zenon
<1>4. \E g : Is(g)
  BY <1>1, <1>3, FoldsExist, Zenon
<1>5. Is(iter)
  BY <1>4, Zenon
<1>6. all = iter[1 .. n]
  BY <1>1, Zenon DEF FoldLeft, MapThenFoldSet
<1> HIDE DEF n, iter, Is, all
<1>is. IsFold(iter, "remove", base, base, seq, n)
  BY <1>3, <1>5, Zenon
<1>7. \E f : IsRun(f, "remove", base, base, seq, n) /\ f[n] = iter[1 .. n]
  BY <1>1, <1>is, FoldRun
<1> QED BY <1>6, <1>7, Zenon DEF n, all
\* Where field.unflatten starts from.
Nothing == [ok |-> TRUE, tree |-> Leaf(Map)]

\* The fold of field.unflatten is a run.
LEMMA UnflattenRun ==
    ASSUME NEW E, NEW seq \in Seq(E), NEW t
    PROVE  \E f : /\ IsRun(f, "unflatten", t, Nothing, seq, Len(seq))
                  /\ f[Len(seq)] = UnflattenKeys(t, seq)
<1> DEFINE n == Len(seq)
           Is(g) == g = [s \in SUBSET (1 .. n) |->
                          IF s = {} THEN Nothing
                          ELSE IF g[s \ {Max(s)}].ok
                               THEN SetNested(g[s \ {Max(s)}].tree, seq[Max(s)],
                                              Under(t, seq[Max(s)]))
                               ELSE g[s \ {Max(s)}]]
           iter == CHOOSE g : Is(g)
           all == UnflattenKeys(t, seq)
<1>1. n \in Nat /\ DOMAIN seq = 1 .. n
  OBVIOUS
<1>2. \A x, y : FoldStep("unflatten", t, x, y) = IF x.ok THEN SetNested(x.tree, y, Under(t, y)) ELSE x
  BY DEF FoldStep
<1>3. \A g : IsFold(g, "unflatten", t, Nothing, seq, n) <=> Is(g)
  <2>1. ASSUME NEW g PROVE IsFold(g, "unflatten", t, Nothing, seq, n) <=> Is(g)
    <3> DEFINE Body(s) == IF s = {} THEN Nothing
                          ELSE FoldStep("unflatten", t, g[s \ {Max(s)}], seq[Max(s)])
               Same(s) == IF s = {} THEN Nothing
                          ELSE IF g[s \ {Max(s)}].ok
                               THEN SetNested(g[s \ {Max(s)}].tree, seq[Max(s)],
                                              Under(t, seq[Max(s)]))
                               ELSE g[s \ {Max(s)}]
    <3>1. \A s : Body(s) = Same(s)
      BY <1>2, Zenon
    <3>2. IsFold(g, "unflatten", t, Nothing, seq, n) <=> g = [s \in SUBSET (1 .. n) |-> Body(s)]
      BY DEF IsFold
    <3>3. Is(g) <=> g = [s \in SUBSET (1 .. n) |-> Same(s)]
      OBVIOUS
    <3> HIDE DEF Body, Same, Is
    <3>4. [s \in SUBSET (1 .. n) |-> Body(s)] = [s \in SUBSET (1 .. n) |-> Same(s)]
      BY <3>1
    <3> QED BY <3>2, <3>3, <3>4, Zenon
  <2> QED BY <2>1, Zenon
<1>4. \E g : Is(g)
  BY <1>1, <1>3, FoldsExist, Zenon
<1>5. Is(iter)
  BY <1>4, Zenon
<1>6. all = iter[1 .. n]
  BY <1>1, Zenon DEF UnflattenKeys, Nothing, FoldLeft, MapThenFoldSet
<1> HIDE DEF n, iter, Is, all
<1>is. IsFold(iter, "unflatten", t, Nothing, seq, n)
  BY <1>3, <1>5, Zenon
<1>7. \E f : IsRun(f, "unflatten", t, Nothing, seq, n) /\ f[n] = iter[1 .. n]
  BY <1>1, <1>is, FoldRun
<1> QED BY <1>6, <1>7, Zenon DEF n, all

\* The fold of field.rename leaves a payload.
LEMMA RenameIsPayload ==
    ASSUME NEW base, IsPayload(base), NEW mappings \in Seq(Paths \X Paths)
    PROVE  IsPayload(FoldLeft(LAMBDA x, m : MoveField(x, m[1], m[2]), base, mappings))
<1> DEFINE n == Len(mappings)
<1>1. PICK f : /\ IsRun(f, "rename", base, base, mappings, n)
               /\ f[n] = FoldLeft(LAMBDA x, m : MoveField(x, m[1], m[2]), base, mappings)
  BY RenameRun
<1> DEFINE S == {k \in Nat : k <= n => IsPayload(f[k])}
<1>2. 0 \in S
  BY <1>1 DEF IsRun
<1>3. ASSUME NEW k \in Nat, k \in S PROVE k + 1 \in S
  <2> SUFFICES ASSUME k + 1 <= n PROVE IsPayload(f[k + 1])
    BY k + 1 \in Nat
  <2> DEFINE y == mappings[k + 1]
  <2>1. IsPayload(f[k]) /\ k + 1 \in 1 .. n /\ (k + 1) - 1 = k
    BY <1>3
  <2>2. y[1] \in Paths /\ y[2] \in Paths
    BY <2>1
  <2>3. f[k + 1] = MoveField(f[k], y[1], y[2])
    <3>1. f[k + 1] = FoldStep("rename", base, f[k], y)
      BY <1>1, <2>1 DEF IsRun
    <3> QED BY <3>1 DEF FoldStep
  <2> HIDE DEF y
  <2> QED BY <2>1, <2>2, <2>3, MoveFieldIsPayload
<1>4. Nat \subseteq S
  <2> HIDE DEF S
  <2> QED BY <1>2, <1>3, Induction
<1>5. IsPayload(f[n])
  BY <1>4
<1> QED BY <1>1, <1>5, Zenon

\* The fold of field.remove leaves a payload.
LEMMA RemoveAllIsPayload ==
    ASSUME NEW base, IsPayload(base), NEW fields \in Seq(Paths)
    PROVE  IsPayload(FoldLeft(RemoveField, base, fields))
<1> DEFINE n == Len(fields)
<1>1. PICK f : /\ IsRun(f, "remove", base, base, fields, n)
               /\ f[n] = FoldLeft(RemoveField, base, fields)
  BY RemoveRun
<1> DEFINE S == {k \in Nat : k <= n => IsPayload(f[k])}
<1>2. 0 \in S
  BY <1>1 DEF IsRun
<1>3. ASSUME NEW k \in Nat, k \in S PROVE k + 1 \in S
  <2> SUFFICES ASSUME k + 1 <= n PROVE IsPayload(f[k + 1])
    BY k + 1 \in Nat
  <2> DEFINE y == fields[k + 1]
  <2>1. IsPayload(f[k]) /\ k + 1 \in 1 .. n /\ (k + 1) - 1 = k /\ y \in Paths
    BY <1>3
  <2>2. f[k + 1] = RemoveField(f[k], y)
    <3>1. f[k + 1] = FoldStep("remove", base, f[k], y)
      BY <1>1, <2>1 DEF IsRun
    <3> QED BY <3>1 DEF FoldStep
  <2> HIDE DEF y
  <2> QED BY <2>1, <2>2, RemoveFieldIsPayload
<1>4. Nat \subseteq S
  <2> HIDE DEF S
  <2> QED BY <1>2, <1>3, Induction
<1>5. IsPayload(f[n])
  BY <1>4
<1> QED BY <1>1, <1>5, Zenon

\* The keys of a payload.
TopKeys(t) == {n[1] : n \in DOMAIN t \ {<<>>}}

\* There is a node for every key.
LEMMA TopKeysLead ==
    ASSUME NEW t, IsTree(t), NEW k \in TopKeys(t)
    PROVE  k \in Paths /\ <<k>> \in DOMAIN t
<1>1. PICK n \in DOMAIN t \ {<<>>} : k = n[1]
  BY DEF TopKeys
<1>2. n \in Seq(Paths) /\ n # <<>>
  BY TreeByNodes DEF Nodes
<1>3. k \in Paths /\ Len(n) >= 1 /\ <<k>> \in Seq(Paths)
  BY <1>1, <1>2
<1>4. IsPrefix(<<k>>, n)
  <2> DEFINE m == <<k>>
  <2>1. m \in Seq(Paths) /\ Len(m) <= Len(n) /\ \A j \in 1 .. Len(m) : m[j] = n[j]
    BY <1>1, <1>2, <1>3
  <2> HIDE DEF m
  <2>2. IsPrefix(m, n)
    BY <1>2, <2>1, PrefixByItems
  <2> QED BY <2>2 DEF m
<1>5. <<k>> \in DOMAIN t
  <2>1. CASE <<k>> = n
    BY <2>1
  <2>2. CASE <<k>> # n
    BY <1>2, <1>3, <1>4, <2>2, TreeByNodes DEF Above, Nodes
  <2> QED BY <2>1, <2>2
<1> QED BY <1>3, <1>5

\* What is under a key is a tree.
LEMMA UnderIsTree ==
    ASSUME NEW t, IsTree(t), NEW k \in TopKeys(t)
    PROVE  IsTree(Under(t, k))
<1>1. <<k>> \in DOMAIN t
  BY TopKeysLead
<1> DEFINE m == <<k>>
<1>2. Under(t, k) = [r \in {RestOf(m, l) : l \in Below(t, m)} |-> t[m \o r]]
  BY DEF Under
<1> HIDE DEF m
<1>3. IsTree([r \in {RestOf(m, l) : l \in Below(t, m)} |-> t[m \o r]])
  BY <1>1, SubtreeIsTree DEF m
<1> QED BY <1>2, <1>3

\* The fold of field.unflatten leaves a payload.
LEMMA UnflattenIsPayload ==
    ASSUME NEW t, IsTree(t), NEW keys \in Seq(TopKeys(t))
    PROVE  /\ IsPayload(UnflattenKeys(t, keys).tree)
           /\ UnflattenKeys(t, keys).ok \in BOOLEAN
<1> DEFINE n == Len(keys)
<1>1. PICK f : IsRun(f, "unflatten", t, Nothing, keys, n) /\ f[n] = UnflattenKeys(t, keys)
  BY UnflattenRun
<1> DEFINE S == {k \in Nat : k <= n => IsPayload(f[k].tree) /\ f[k].ok \in BOOLEAN}
<1>2. 0 \in S
  <2>1. f[0].tree = Leaf(Map) /\ f[0].ok = TRUE
    BY <1>1 DEF IsRun, Nothing
  <2> QED BY <2>1, LeafIsTree DEF IsPayload
<1>3. ASSUME NEW k \in Nat, k \in S PROVE k + 1 \in S
  <2> SUFFICES ASSUME k + 1 <= n PROVE IsPayload(f[k + 1].tree) /\ f[k + 1].ok \in BOOLEAN
    BY k + 1 \in Nat
  <2> DEFINE y == keys[k + 1]
             x == f[k]
             x1 == x.tree
  <2>1. IsPayload(x.tree) /\ x.ok \in BOOLEAN /\ k + 1 \in 1 .. n /\ (k + 1) - 1 = k /\ y \in TopKeys(t)
    BY <1>3
  <2>2. f[k + 1] = IF x.ok THEN SetNested(x1, y, Under(t, y)) ELSE x
    <3>1. f[k + 1] = FoldStep("unflatten", t, x, y)
      BY <1>1, <2>1 DEF IsRun
    <3> QED BY <3>1 DEF FoldStep
  <2>3. IsTree(Under(t, y)) /\ y \in Paths
    BY <2>1, TopKeysLead, UnderIsTree
  <2> DEFINE u == Under(t, y)
             s == SetField(x1, y, u)
  <2> HIDE DEF y, x, u
  <2>4. IsPayload(s)
    <3> HIDE DEF x1
    <3> QED BY <2>1, <2>3, SetFieldIsPayload DEF u, x1
  <2> HIDE DEF s, x1
  <2>5. SetNested(x1, y, u).tree = s /\ SetNested(x1, y, u).ok \in BOOLEAN
    BY DEF SetNested, s
  <2> QED BY <2>1, <2>2, <2>4, <2>5 DEF u, x1
<1>4. Nat \subseteq S
  <2> HIDE DEF S
  <2> QED BY <1>2, <1>3, Induction
<1>5. IsPayload(f[n].tree) /\ f[n].ok \in BOOLEAN
  BY <1>4
<1> QED BY <1>1, <1>5, Zenon

\* g is what FlattenSeq computes, from left to right.
IsJoin(g, n, len) ==
    g = [k \in 1 .. len |-> IF k = 1 THEN n[k] ELSE g[k - 1] \o n[k]]

\* What FlattenSeq is defined by there is, for any length.
LEMMA JoinsExist ==
    ASSUME NEW n
    PROVE  \A len \in Nat : \E g : IsJoin(g, n, len)
<1> DEFINE S == {len \in Nat : \E g : IsJoin(g, n, len)}
<1>1. 0 \in S
  <2> DEFINE g == [k \in 1 .. 0 |-> n]
  <2>1. IsJoin(g, n, 0)
    BY \A k \in 1 .. 0 : FALSE, Zenon DEF IsJoin
  <2> HIDE DEF g
  <2> QED BY <2>1
<1>2. ASSUME NEW len \in Nat, len \in S PROVE len + 1 \in S
  <2>1. PICK g : IsJoin(g, n, len)
    BY <1>2
  <2> DEFINE h == [k \in 1 .. len + 1 |->
                     IF k <= len THEN g[k]
                     ELSE IF k = 1 THEN n[k] ELSE g[k - 1] \o n[k]]
             Body(k) == IF k = 1 THEN n[k] ELSE h[k - 1] \o n[k]
  <2>2. ASSUME NEW k \in 1 .. len + 1 PROVE h[k] = Body(k)
    <3>1. k # 1 => k - 1 \in 1 .. len /\ h[k - 1] = g[k - 1]
      OBVIOUS
    <3>2. CASE k <= len
      <4>1. k \in 1 .. len /\ h[k] = g[k]
        BY <3>2
      <4>2. g[k] = IF k = 1 THEN n[k] ELSE g[k - 1] \o n[k]
        BY <2>1, <4>1, Zenon DEF IsJoin
      <4> HIDE DEF h
      <4> QED BY <3>1, <4>1, <4>2
    <3>3. CASE ~(k <= len)
      <4>1. h[k] = IF k = 1 THEN n[k] ELSE g[k - 1] \o n[k]
        BY <3>3
      <4> HIDE DEF h
      <4> QED BY <3>1, <4>1
    <3> QED BY <3>2, <3>3
  <2>3. h = [k \in 1 .. len + 1 |-> Body(k)]
    <3>1. h = [k \in 1 .. len + 1 |-> h[k]]
      OBVIOUS
    <3> HIDE DEF h
    <3> QED BY <2>2, <3>1, Zenon
  <2>4. IsJoin(h, n, len + 1)
    <3> HIDE DEF h
    <3> QED BY <2>3, Zenon DEF IsJoin
  <2> HIDE DEF h
  <2> QED BY <2>4, len + 1 \in Nat
<1>3. Nat \subseteq S
  <2> HIDE DEF S
  <2> QED BY <1>1, <1>2, Induction
<1> QED BY <1>3

\* A dotted name is the join of the keys.
LEMMA DottedJoin ==
    ASSUME NEW n \in Nodes
    PROVE  /\ n = <<>> => Dotted(n) = <<>>
           /\ n # <<>> => \E g : IsJoin(g, n, Len(n)) /\ Dotted(n) = g[Len(n)]
<1>1. n \in Seq(Paths) /\ Len(n) \in Nat
  BY DEF Nodes
<1>2. n = <<>> => Dotted(n) = <<>>
  BY <1>1 DEF Dotted, FlattenSeq
<1>3. ASSUME n # <<>> PROVE \E g : IsJoin(g, n, Len(n)) /\ Dotted(n) = g[Len(n)]
  <2> DEFINE len == Len(n)
             g == CHOOSE h : h = [k \in 1 .. len |-> IF k = 1 THEN n[k] ELSE h[k - 1] \o n[k]]
  <2>0. len # 0 /\ len \in Nat
    BY <1>1, <1>3
  <2>1. \E h : IsJoin(h, n, len)
    BY <2>0, JoinsExist
  <2>2. IsJoin(g, n, len)
    BY <2>1, Zenon DEF IsJoin
  <2>3. Dotted(n) = g[len]
    BY <2>0, Zenon DEF Dotted, FlattenSeq
  <2> HIDE DEF g
  <2> QED BY <2>2, <2>3
<1> QED BY <1>2, <1>3

\* A dotted name is a path.
LEMMA DottedIsPath ==
    ASSUME NEW n \in Nodes
    PROVE  Dotted(n) \in Paths
<1>1. n \in Seq(Paths) /\ Len(n) \in Nat
  BY DEF Nodes
<1>2. CASE n = <<>>
  <2>1. Dotted(n) = <<>> /\ <<>> \in Seq(Words)
    BY <1>2, DottedJoin
  <2> QED BY <2>1, Zenon DEF Paths
<1>3. CASE n # <<>>
  <2>1. PICK g : IsJoin(g, n, Len(n)) /\ Dotted(n) = g[Len(n)]
    BY <1>3, DottedJoin
  <2> DEFINE S == {k \in Nat : k \in 1 .. Len(n) => g[k] \in Paths}
  <2>2. 0 \in S
    OBVIOUS
  <2>3. ASSUME NEW k \in Nat, k \in S PROVE k + 1 \in S
    <3> SUFFICES ASSUME k + 1 \in 1 .. Len(n) PROVE g[k + 1] \in Paths
      BY k + 1 \in Nat
    <3>1. g[k + 1] = IF k + 1 = 1 THEN n[k + 1] ELSE g[(k + 1) - 1] \o n[k + 1]
      BY <2>1, Zenon DEF IsJoin
    <3>2. n[k + 1] \in Paths
      BY <1>1
    <3>3. CASE k = 0
      BY <3>1, <3>2, <3>3
    <3>4. CASE k # 0
      <4>1. k \in 1 .. Len(n) /\ k + 1 # 1 /\ (k + 1) - 1 = k
        BY <1>1, <3>4
      <4>2. g[k + 1] = g[k] \o n[k + 1]
        BY <3>1, <4>1, Zenon
      <4>3. g[k] \in Paths
        BY <2>3, <4>1
      <4> QED BY <3>2, <4>2, <4>3 DEF Paths
    <3> QED BY <3>3, <3>4
  <2>4. Nat \subseteq S
    <3> HIDE DEF S
    <3> QED BY <2>2, <2>3, Induction
  <2>5. Len(n) \in 1 .. Len(n)
    BY <1>1, <1>3
  <2> QED BY <2>1, <2>4, <2>5
<1> QED BY <1>2, <1>3

\* A payload with all its values at the top.
LEMMA FlatIsPayload ==
    ASSUME NEW names, names \subseteq Paths, IsFiniteSet(names),
           NEW s, s = [m \in {<<>>} \cup {<<k>> : k \in names} |-> s[m]], s[<<>>] = Map
    PROVE  IsPayload(s)
<1> DEFINE T == {<<k>> : k \in names}
           f == [k \in names |-> <<k>>]
<1>0. DOMAIN s = {<<>>} \cup T
  OBVIOUS
<1>fin. IsFinite(s)
  <2>1. (\A k \in names : f[k] \in T) /\ (\A y \in T : \E k \in names : f[k] = y)
    OBVIOUS
  <2> HIDE DEF f, T
  <2>2. IsFiniteSet(T)
    BY <2>1, ImageIsFinite
  <2>3. IsFiniteSet({<<>>} \cup T)
    BY <2>2, FS_Singleton, FS_Union
  <2> DEFINE D == {<<>>} \cup T
  <2>4. s = [m \in D |-> s[m]]
    BY DEF T
  <2> HIDE DEF D
  <2> QED BY <2>3, <2>4, FunctionIsFinite DEF D
<1>1. DOMAIN s \subseteq Nodes /\ <<>> \in DOMAIN s
  <2>1. \A k \in names : <<k>> \in Seq(Paths)
    OBVIOUS
  <2>2. <<>> \in Seq(Paths)
    OBVIOUS
  <2> QED BY <1>0, <2>1, <2>2, Zenon DEF Nodes
<1>2. ASSUME NEW l \in DOMAIN s, NEW m \in Nodes, Above(m, l)
      PROVE  m \in DOMAIN s /\ s[m] = Map
  <2>1. l \in Nodes /\ Len(l) <= 1
    <3>1. CASE l = <<>>
      BY <1>1, <3>1
    <3>2. ASSUME NEW k \in names, l = <<k>> PROVE l \in Nodes /\ Len(l) <= 1
      BY <1>1, <3>2
    <3> QED BY <1>0, <3>1, <3>2
  <2>2. Len(m) <= Len(l) /\ \A k \in 1 .. Len(m) : m[k] = l[k]
    BY <1>2, <2>1, PrefixByItems DEF Above, Nodes
  <2>3. Len(m) # Len(l)
    BY <1>2, <2>1, <2>2 DEF Above, Nodes
  <2>4. m = <<>>
    BY <2>1, <2>2, <2>3 DEF Nodes
  <2> QED BY <2>4, <1>1
<1>3. IsTree(s)
  BY <1>1, <1>2, <1>fin, TreeByNodes
<1> QED BY <1>3 DEF IsPayload

-----------------------------------------------------------------------------
(* The transforms                                                          *)

\* What a transform may return for an event if it is no split: nothing, or an
\* event that has kept the headers.
IsResult(r, ev) ==
    \/ r \in {Drop, Error}
    \/ \E e : r = OneEvent(e) /\ IsEvent(e) /\ ev.headers \subseteq e.headers

\* A copy with another payload may be returned.
LEMMA CopiedIsResult ==
    ASSUME NEW ev, IsEvent(ev), NEW t, IsPayload(t)
    PROVE  IsResult(OneEvent(Copied(ev, t)), ev)
<1> DEFINE e == Copied(ev, t)
<1>1. ev.headers \in SUBSET Headers
  BY DEF IsEvent
<1>2. e.payload = t /\ e.headers = ev.headers /\ e \in [payload : {t}, headers : SUBSET Headers]
  BY <1>1 DEF Copied
<1> HIDE DEF e
<1>3. IsEvent(e)
  BY <1>2 DEF IsEvent
<1>4. ev.headers \subseteq e.headers
  BY <1>2
<1> QED BY <1>3, <1>4 DEF IsResult, e

\* So may the event with one header more.
LEMMA MarkedIsResult ==
    ASSUME NEW ev, IsEvent(ev), NEW header \in Headers
    PROVE  /\ IsEvent(Marked(ev, header)) /\ ev.headers \subseteq Marked(ev, header).headers
           /\ Marked(ev, header).payload = ev.payload
           /\ IsResult(OneEvent(Marked(ev, header)), ev)
<1> DEFINE e == Marked(ev, header)
<1>1. ev \in [payload : {ev.payload}, headers : SUBSET Headers] /\ IsPayload(ev.payload)
  BY DEF IsEvent
<1>2. /\ e.payload = ev.payload /\ e.headers = ev.headers \cup {header}
      /\ e \in [payload : {ev.payload}, headers : SUBSET Headers]
  BY <1>1 DEF Marked
<1> HIDE DEF e
<1>3. IsEvent(e)
  BY <1>1, <1>2 DEF IsEvent
<1>4. ev.headers \subseteq e.headers
  BY <1>2
<1> QED BY <1>2, <1>3, <1>4 DEF IsResult, e

\* So may the event itself, and nothing.
LEMMA SameIsResult ==
    ASSUME NEW ev, IsEvent(ev)
    PROVE  IsResult(OneEvent(ev), ev) /\ IsResult(Drop, ev) /\ IsResult(Error, ev)
BY DEF IsResult

\* The payload of an event.
LEMMA EventPayload ==
    ASSUME NEW ev, IsEvent(ev)
    PROVE  IsPayload(ev.payload) /\ IsTree(ev.payload)
BY DEF IsEvent, IsPayload

\* What IsConfigured says of the parameters of each transform.
LEMMA ConfiguredFields ==
    ASSUME NEW tr, IsConfigured(tr)
    PROVE  /\ tr.type = "field.rename" => tr.mappings \in Seq(Paths \X Paths)
           /\ tr.type = "field.extract" => tr.source \in Paths /\ tr.target \in Paths
           /\ tr.type = "field.remove" => tr.fields \in Seq(Paths)
           /\ tr.type \in Splits => {tr.field, tr.key} \subseteq Paths \ {<<>>}
           /\ tr.type \in Validations => tr.onError \in {"drop", "dlq", "fail"}
           /\ tr.type \in {"field.add", "data.convert", "data.case", "data.format"} =>
                 tr.field \in Paths
           /\ tr.type \in {"enrich.redis", "enrich.http", "enrich.postgres",
                           "data.split", "data.join"} \cup Rewrites =>
                 tr.target \in Paths
BY DEF IsConfigured, Splits, Validations, Rewrites

\* What field.rename, field.extract, field.add and field.remove return.
LEMMA FieldResults ==
    ASSUME NEW tr, IsConfigured(tr), NEW ev, IsEvent(ev)
    PROVE  /\ tr.type = "field.rename" => \A r \in Rename(tr, ev) : IsResult(r, ev)
           /\ tr.type = "field.extract" => \A r \in Extract(tr, ev) : IsResult(r, ev)
           /\ tr.type = "field.add" => \A r \in Add(tr, ev) : IsResult(r, ev)
           /\ tr.type = "field.remove" => \A r \in RemoveAll(tr, ev) : IsResult(r, ev)
<1> DEFINE t == ev.payload
<1>t. IsPayload(t)
  BY EventPayload
<1> HIDE DEF t
<1>1. ASSUME tr.type = "field.rename", NEW r \in Rename(tr, ev) PROVE IsResult(r, ev)
  <2> DEFINE all == FoldLeft(LAMBDA x, m : MoveField(x, m[1], m[2]), t, tr.mappings)
             seq == tr.mappings
  <2>1. seq \in Seq(Paths \X Paths)
    BY <1>1, ConfiguredFields
  <2> HIDE DEF seq
  <2>2. IsPayload(FoldLeft(LAMBDA x, m : MoveField(x, m[1], m[2]), t, seq))
    BY <1>t, <2>1, RenameIsPayload
  <2>3. IsPayload(all)
    BY <2>2, Zenon DEF seq
  <2>4. r = Error \/ r = OneEvent(Copied(ev, all))
    BY <1>1, Zenon DEF Rename, t
  <2> HIDE DEF all
  <2> QED BY <2>3, <2>4, CopiedIsResult, SameIsResult
<1>2. ASSUME tr.type = "field.extract", NEW r \in Extract(tr, ev) PROVE IsResult(r, ev)
  <2> DEFINE moved == MoveField(t, tr.source, tr.target)
  <2>1. IsPayload(moved)
    BY <1>2, <1>t, ConfiguredFields, MoveFieldIsPayload
  <2>2. r \in {OneEvent(ev), Error, OneEvent(Copied(ev, moved))}
    BY <1>2 DEF Extract, t
  <2> HIDE DEF moved
  <2> QED BY <2>1, <2>2, CopiedIsResult, SameIsResult
<1>3. ASSUME tr.type = "field.add", NEW r \in Add(tr, ev) PROVE IsResult(r, ev)
  <2> DEFINE new == SetField(t, tr.field, Leaf(tr.value))
  <2>1. IsPayload(new)
    BY <1>3, <1>t, ConfiguredFields, LeafIsTree, SetFieldIsPayload
  <2>2. r = OneEvent(Copied(ev, new))
    BY <1>3 DEF Add, t
  <2> HIDE DEF new
  <2> QED BY <2>1, <2>2, CopiedIsResult
<1>4. ASSUME tr.type = "field.remove", NEW r \in RemoveAll(tr, ev) PROVE IsResult(r, ev)
  <2> DEFINE all == FoldLeft(RemoveField, t, tr.fields)
  <2>1. IsPayload(all)
    BY <1>4, <1>t, ConfiguredFields, RemoveAllIsPayload
  <2>2. r = OneEvent(Copied(ev, all))
    BY <1>4 DEF RemoveAll, t
  <2> HIDE DEF all
  <2> QED BY <2>1, <2>2, CopiedIsResult
<1> QED BY <1>1, <1>2, <1>3, <1>4

\* What field.flatten returns, whichever of two values with one name it keeps.
LEMMA FlattenResults ==
    ASSUME NEW tr, NEW ev, IsEvent(ev), NEW r \in Flatten(tr, ev)
    PROVE  IsResult(r, ev)
<1> DEFINE t == ev.payload
           names == {Dotted(n) : n \in Leaves(t)}
           Tree(w) == [m \in {<<>>} \cup {<<k>> : k \in names} |->
                         IF m = <<>> THEN Map ELSE t[w[m[1]]]]
<1>1. PICK w : r = OneEvent(Copied(ev, Tree(w)))
  BY Zenon DEF Flatten
<1>2. names \subseteq Paths
  BY EventPayload, TreeByNodes, DottedIsPath DEF Leaves
<1>fin. IsFiniteSet(names)
  <2> DEFINE L == Leaves(t)
             f == [n \in L |-> Dotted(n)]
  <2>1. IsFiniteSet(L)
    BY EventPayload, TreeByNodes, FS_Subset DEF IsFinite, Leaves
  <2>2. (\A n \in L : f[n] \in names) /\ (\A y \in names : \E n \in L : f[n] = y)
    OBVIOUS
  <2> HIDE DEF f, L, names
  <2> QED BY <2>1, <2>2, ImageIsFinite
<1>3. Tree(w) = [m \in {<<>>} \cup {<<k>> : k \in names} |-> Tree(w)[m]]
  OBVIOUS
<1>4. Tree(w)[<<>>] = Map
  OBVIOUS
<1> HIDE DEF names, Tree
<1>5. IsPayload(Tree(w))
  BY <1>2, <1>3, <1>4, <1>fin, FlatIsPayload
<1> QED BY <1>1, <1>5, CopiedIsResult

\* sort.Strings only puts keys in order.
LEMMA SortedIsSeq ==
    ASSUME NEW K, NEW s \in Sorted(K)
    PROVE  s \in Seq(K) /\ Range(s) = K
<1>1. PICK m \in 0 .. Cardinality(K) : s \in [1 .. m -> K]
  BY DEF Sorted, SeqOf
<1>2. m \in Nat
  OBVIOUS
<1> QED BY <1>1, <1>2 DEF Sorted

\* What field.unflatten returns.
LEMMA UnflattenResults ==
    ASSUME NEW tr, NEW ev, IsEvent(ev), NEW r \in Unflatten(tr, ev)
    PROVE  IsResult(r, ev)
<1> DEFINE t == ev.payload
<1>t. IsPayload(t) /\ IsTree(t)
  BY EventPayload
<1>1. PICK keys \in Sorted(TopKeys(t)) :
        r = IF UnflattenKeys(t, keys).ok
            THEN OneEvent(Copied(ev, UnflattenKeys(t, keys).tree)) ELSE Error
  BY Zenon DEF Unflatten, TopKeys
<1> HIDE DEF t
<1>2. keys \in Seq(TopKeys(t))
  BY SortedIsSeq
<1> DEFINE end == UnflattenKeys(t, keys)
           new == end.tree
<1>3. IsPayload(new) /\ end.ok \in BOOLEAN
  BY <1>t, <1>2, UnflattenIsPayload
<1>4. r \in {OneEvent(Copied(ev, new)), Error}
  BY <1>1
<1> HIDE DEF new
<1> QED BY <1>3, <1>4, CopiedIsResult, SameIsResult

\* The marks are headers.
LEMMA HeaderNames == "_dlq_reason" \in Headers /\ "_route_target" \in Headers
                     /\ "_split_index" \in Headers
BY DEF Headers

\* What filter.condition and filter.route return, whatever the verdict.
LEMMA FilterResults ==
    ASSUME NEW tr, IsConfigured(tr), NEW ev, IsEvent(ev)
    PROVE  /\ \A r \in Filter(tr, ev) : IsResult(r, ev)
           /\ \A r \in Route(tr, ev) : IsResult(r, ev)
<1>1. ASSUME NEW r \in Filter(tr, ev) PROVE IsResult(r, ev)
  <2>1. r \in {OneEvent(ev), Drop, Error}
    BY <1>1 DEF Filter
  <2> QED BY <2>1, SameIsResult
<1>2. ASSUME NEW r \in Route(tr, ev) PROVE IsResult(r, ev)
  <2>1. r \in {OneEvent(Marked(ev, "_route_target")), Error}
    BY <1>2, Zenon DEF Route
  <2> QED BY <2>1, MarkedIsResult, SameIsResult, HeaderNames
<1> QED BY <1>1, <1>2

\* What the validating transforms return.
LEMMA ValidationResults ==
    ASSUME NEW tr, IsConfigured(tr), tr.type \in Validations, NEW ev, IsEvent(ev)
    PROVE  /\ \A r \in Required(tr, ev) : IsResult(r, ev)
           /\ \A r \in Rules(tr, ev) : IsResult(r, ev)
           /\ \A r \in Schema(tr, ev) : IsResult(r, ev)
<1>1. IsResult(Invalid(tr, ev), ev)
  <2>1. tr.onError \in {"drop", "dlq", "fail"}
    BY ConfiguredFields
  <2>2. Invalid(tr, ev) \in {Drop, OneEvent(Marked(ev, "_dlq_reason")), Error}
    BY <2>1 DEF Invalid
  <2> QED BY <2>2, MarkedIsResult, SameIsResult, HeaderNames
<1>2. \A r \in Required(tr, ev) : r \in {OneEvent(ev), Invalid(tr, ev)}
  BY DEF Required
<1>3. \A r \in Rules(tr, ev) : r \in {Error, Invalid(tr, ev), OneEvent(ev)}
  BY DEF Rules
<1>4. \A r \in Schema(tr, ev) : r \in {Error, Invalid(tr, ev), OneEvent(ev)}
  BY DEF Schema
<1> QED BY <1>1, <1>2, <1>3, <1>4, SameIsResult

\* What the enrichments return, whatever the answer.
LEMMA EnrichResults ==
    ASSUME NEW tr, IsConfigured(tr), NEW ev, IsEvent(ev),
           tr.type \in {"enrich.redis", "enrich.http", "enrich.postgres"}
    PROVE  /\ \A r \in EnrichRedis(tr, ev) : IsResult(r, ev)
           /\ \A r \in EnrichHttp(tr, ev) : IsResult(r, ev)
           /\ \A r \in EnrichPostgres(tr, ev) : IsResult(r, ev)
<1>1. ASSUME NEW A \in SUBSET Answers, NEW r \in Enriched(tr, ev, A) PROVE IsResult(r, ev)
  <2>1. PICK a \in A : r = OneEvent(Copied(ev, SetField(ev.payload, tr.target, a)))
    BY <1>1 DEF Enriched
  <2>2. IsTree(a) /\ tr.target \in Paths
    BY PayloadsAssumption, ConfiguredFields
  <2> DEFINE new == SetField(ev.payload, tr.target, a)
  <2>3. IsPayload(new)
    BY <2>2, EventPayload, SetFieldIsPayload
  <2> HIDE DEF new
  <2> QED BY <2>1, <2>3, CopiedIsResult DEF new
<1>2. \A r \in EnrichRedis(tr, ev) :
         r \in {Drop, OneEvent(ev)} \cup Enriched(tr, ev, Answers \ {Leaf(Null)})
  BY DEF EnrichRedis
<1>3. \A r \in EnrichHttp(tr, ev) \cup EnrichPostgres(tr, ev) :
         r \in {Drop, Error} \cup Enriched(tr, ev, Answers)
  BY DEF EnrichHttp, EnrichPostgres
<1> DEFINE B == Answers \ {Leaf(Null)}
<1>4. B \in SUBSET Answers
  OBVIOUS
<1>5. \A r \in EnrichRedis(tr, ev) : IsResult(r, ev)
  <2> HIDE DEF B
  <2>1. \A r \in Enriched(tr, ev, B) : IsResult(r, ev)
    BY <1>1, <1>4
  <2> QED BY <1>2, <2>1, SameIsResult DEF B
<1>6. \A r \in Enriched(tr, ev, Answers) : IsResult(r, ev)
  BY <1>1
<1> QED BY <1>3, <1>5, <1>6, SameIsResult

\* What replacing a value returns.
LEMMA ReplacedResults ==
    ASSUME NEW ev, IsEvent(ev), NEW target \in Paths, NEW value,
           NEW r \in Replaced(ev, target, value)
    PROVE  IsResult(r, ev)
<1> DEFINE new == SetField(ev.payload, target, Leaf(value))
<1>1. IsPayload(new)
  BY EventPayload, SetFieldIsPayload, LeafIsTree
<1>2. r = OneEvent(Copied(ev, new))
  BY DEF Replaced
<1> HIDE DEF new
<1> QED BY <1>1, <1>2, CopiedIsResult

\* A transform of data.*: it replaces a value, or it does not.
Replaces(rs, ev, target) ==
    \A r \in rs : r \in {OneEvent(ev), Error} \/ \E value : r \in Replaced(ev, target, value)

\* What a transform of data.* returns.
LEMMA ReplacesResults ==
    ASSUME NEW rs, NEW ev, IsEvent(ev), NEW target \in Paths, Replaces(rs, ev, target)
    PROVE  \A r \in rs : IsResult(r, ev)
BY ReplacedResults, SameIsResult DEF Replaces

\* What each of them returns.
LEMMA DataResults ==
    ASSUME NEW tr, IsConfigured(tr), NEW ev, IsEvent(ev)
    PROVE  /\ tr.type = "data.convert" => \A r \in Convert(tr, ev) : IsResult(r, ev)
           /\ tr.type = "data.case" => \A r \in Case(tr, ev) : IsResult(r, ev)
           /\ tr.type = "data.split" => \A r \in SplitString(tr, ev) : IsResult(r, ev)
           /\ tr.type = "data.join" => \A r \in Join(tr, ev) : IsResult(r, ev)
           /\ tr.type = "data.mask" => \A r \in Mask(tr, ev) : IsResult(r, ev)
           /\ tr.type = "data.hash" => \A r \in Hash(tr, ev) : IsResult(r, ev)
           /\ tr.type = "data.regex" => \A r \in Regex(tr, ev) : IsResult(r, ev)
           /\ tr.type = "data.encode" => \A r \in Encode(tr, ev) : IsResult(r, ev)
           /\ tr.type = "data.format" => \A r \in Format(tr, ev) : IsResult(r, ev)
<1>1. Replaces(Convert(tr, ev), ev, tr.field)
  <2>1. ASSUME NEW r \in Convert(tr, ev)
        PROVE  r \in {OneEvent(ev), Error} \/ \E value : r \in Replaced(ev, tr.field, value)
    BY <2>1, Zenon DEF Convert
  <2> QED BY <2>1 DEF Replaces
<1>2. Replaces(Case(tr, ev), ev, tr.field)
  BY DEF Replaces, Case
<1>3. Replaces(SplitString(tr, ev), ev, tr.target)
  BY DEF Replaces, SplitString
<1>4. Replaces(Join(tr, ev), ev, tr.target)
  BY DEF Replaces, Join
<1>5. \A how : Replaces(Rewrite(tr, ev, how), ev, tr.target)
  BY DEF Replaces, Rewrite
<1>6. Replaces(Format(tr, ev), ev, tr.field)
  BY DEF Replaces, Format
<1> DEFINE field == tr.field
           target == tr.target
<1>7. /\ tr.type \in {"data.convert", "data.case", "data.format"} => field \in Paths
      /\ tr.type \in {"data.split", "data.join"} \cup Rewrites => target \in Paths
  BY ConfiguredFields
<1> HIDE DEF field, target
<1>8. tr.type = "data.convert" => \A r \in Convert(tr, ev) : IsResult(r, ev)
  BY <1>1, <1>7, ReplacesResults DEF field
<1>9. tr.type = "data.case" => \A r \in Case(tr, ev) : IsResult(r, ev)
  BY <1>2, <1>7, ReplacesResults DEF field
<1>10. tr.type = "data.split" => \A r \in SplitString(tr, ev) : IsResult(r, ev)
  BY <1>3, <1>7, ReplacesResults DEF target
<1>11. tr.type = "data.join" => \A r \in Join(tr, ev) : IsResult(r, ev)
  BY <1>4, <1>7, ReplacesResults DEF target
<1>12. tr.type \in Rewrites => \A how : \A r \in Rewrite(tr, ev, how) : IsResult(r, ev)
  BY <1>5, <1>7, ReplacesResults DEF target
<1>13. tr.type = "data.format" => \A r \in Format(tr, ev) : IsResult(r, ev)
  BY <1>6, <1>7, ReplacesResults DEF field
<1> QED BY <1>8, <1>9, <1>10, <1>11, <1>12, <1>13 DEF Mask, Hash, Regex, Encode, Rewrites

\* RemoveField, whether the field is there or not.
LEMMA WithoutField ==
    ASSUME NEW t, IsTree(t), NEW path \in Paths \ {<<>>}
    PROVE  /\ DOMAIN RemoveField(t, path) = {m \in DOMAIN t : ~IsPrefix(NodeOf(path), m)}
           /\ \A m \in DOMAIN RemoveField(t, path) : RemoveField(t, path)[m] = t[m]
<1>1. CASE HasField(t, path)
  BY <1>1, RemoveFieldNodes
<1>2. CASE ~HasField(t, path)
  <2>1. NodeOf(path) \in Nodes /\ NodeOf(path) \notin DOMAIN t /\ DOMAIN t \subseteq Nodes
    BY <1>2, NodeOfPath, TreeByNodes DEF HasField
  <2>2. \A m \in DOMAIN t : ~IsPrefix(NodeOf(path), m)
    BY <2>1, TreeByNodes DEF Above
  <2>3. RemoveField(t, path) = t
    BY <1>2 DEF RemoveField
  <2> QED BY <2>2, <2>3
<1> QED BY <1>1, <1>2

\* SetField of a value that is no map.
HasLeafAt(s, t, n, v) ==
    /\ DOMAIN s = {m \in DOMAIN t : ~IsPrefix(n, m)} \cup {m \in Nodes : Above(m, n)} \cup {n}
    /\ \A m \in Nodes : Above(m, n) => s[m] = Map
    /\ \A m \in DOMAIN t : ~IsPrefix(n, m) /\ ~IsPrefix(m, n) => s[m] = t[m]
    /\ s[n] = v

\* SetField of a value that is no map, node by node.
LEMMA SetLeaf ==
    ASSUME NEW t, IsTree(t), NEW v, NEW path \in Paths \ {<<>>}
    PROVE  HasLeafAt(SetField(t, path, Leaf(v)), t, NodeOf(path), v)
<1> DEFINE s == SetField(t, path, Leaf(v))
           n == NodeOf(path)
           l == Leaf(v)
<1>1. HasAt(s, t, n, l)
  BY LeafIsTree, SetFieldNodes
<1>2. DOMAIN l = {<<>>} /\ l[<<>>] = v
  BY LeafIsTree
<1>3. n \o <<>> = n
  BY NodeOfPath, RestOfNode DEF Nodes
<1> HIDE DEF s, n, l
<1>4. {n \o r : r \in DOMAIN l} = {n}
  <2>1. ASSUME NEW r \in DOMAIN l PROVE n \o r = n
    BY <1>2, <1>3
  <2>2. <<>> \in DOMAIN l
    BY <1>2
  <2> QED BY <2>1, <2>2, Zenon
<1>5. s[n] = v
  <2>1. <<>> \in DOMAIN l
    BY <1>2
  <2>2. s[n \o <<>>] = l[<<>>]
    BY <1>1, <2>1, Zenon DEF HasAt
  <2> QED BY <1>2, <1>3, <2>2, Zenon
<1>6. HasLeafAt(s, t, n, v)
  BY <1>1, <1>4, <1>5, Zenon DEF HasAt, HasLeafAt
<1> QED BY <1>6 DEF s, n

\* filter.split removes the field and then sets the item.
LEMMA PieceOfFilterSplit ==
    ASSUME NEW tr, NEW before, IsTree(before), NEW item,
           tr.field \in Paths \ {<<>>}, tr.key \in Paths \ {<<>>}
    PROVE  LET t == SetField(RemoveField(before, tr.field), tr.key, Leaf(String(item)))
           IN  IsPiece(tr, before, item, t) /\ NodeOf(tr.key) \in DOMAIN t
<1> DEFINE rest == RemoveField(before, tr.field)
           t == SetField(rest, tr.key, Leaf(String(item)))
           field == NodeOf(tr.field)
           key == NodeOf(tr.key)
<1>1. IsTree(rest) /\ DOMAIN rest = {m \in DOMAIN before : ~IsPrefix(field, m)}
      /\ \A m \in DOMAIN rest : rest[m] = before[m]
  BY RemoveFieldIsTree, WithoutField
<1>2. HasLeafAt(t, rest, key, String(item))
  <2> HIDE DEF rest
  <2> QED BY <1>1, SetLeaf
<1>3. key \in Nodes /\ DOMAIN before \subseteq Nodes
  BY NodeOfPath, TreeByNodes
<1>key. IsPrefix(key, key)
  BY <1>3, PrefixIsOrder DEF Nodes
<1> HIDE DEF t, rest, field, key
<1>4. key \in DOMAIN t
  BY <1>2 DEF HasLeafAt
<1>5. ASSUME NEW n \in DOMAIN t
      PROVE  \/ n = key /\ t[n] = String(item)
             \/ n # key /\ IsPrefix(n, key) /\ t[n] = Map
             \/ n \in DOMAIN before /\ t[n] = before[n] /\ ~IsPrefix(field, n)
  <2>1. CASE n = key
    BY <1>2, <2>1 DEF HasLeafAt
  <2>2. CASE n \in Nodes /\ Above(n, key)
    BY <1>2, <2>2 DEF HasLeafAt, Above
  <2>3. CASE n \in DOMAIN rest /\ ~IsPrefix(key, n)
    <3>1. n \in DOMAIN before /\ ~IsPrefix(field, n) /\ rest[n] = before[n] /\ n \in Nodes
      BY <1>1, <1>3, <2>3
    <3>2. CASE IsPrefix(n, key)
      BY <1>key, <2>2, <2>3, <3>1, <3>2 DEF Above
    <3>3. CASE ~IsPrefix(n, key)
      BY <1>2, <2>3, <3>1, <3>3 DEF HasLeafAt
    <3> QED BY <3>2, <3>3
  <2> QED BY <1>2, <2>1, <2>2, <2>3 DEF HasLeafAt
<1>6. ASSUME NEW n \in DOMAIN before
      PROVE  IsPrefix(field, n) \/ IsPrefix(key, n) \/ n \in DOMAIN t
  BY <1>1, <1>2 DEF HasLeafAt
<1>7. IsPiece(tr, before, item, t)
  BY <1>5, <1>6 DEF IsPiece, field, key
<1> QED BY <1>4, <1>7 DEF t, rest, key

\* split.array and split.regex set the item and then remove the field.
LEMMA PieceOfSplit ==
    ASSUME NEW tr, NEW before, IsTree(before), NEW item,
           tr.field \in Paths \ {<<>>}, tr.key \in Paths \ {<<>>}
    PROVE  LET t == RemoveField(SetField(before, tr.key, Leaf(String(item))), tr.field)
           IN  /\ IsPiece(tr, before, item, t)
               /\ NodeOf(tr.key) \in DOMAIN t \/ IsPrefix(NodeOf(tr.field), NodeOf(tr.key))
<1> DEFINE s == SetField(before, tr.key, Leaf(String(item)))
           t == RemoveField(s, tr.field)
           field == NodeOf(tr.field)
           key == NodeOf(tr.key)
<1>1. HasLeafAt(s, before, key, String(item)) /\ IsTree(s)
  BY SetLeaf, SetFieldIsTree, LeafIsTree
<1>2. DOMAIN t = {m \in DOMAIN s : ~IsPrefix(field, m)} /\ \A m \in DOMAIN t : t[m] = s[m]
  <2> HIDE DEF s
  <2> QED BY <1>1, WithoutField
<1>3. key \in Nodes /\ DOMAIN before \subseteq Nodes
  BY NodeOfPath, TreeByNodes
<1>key. IsPrefix(key, key)
  BY <1>3, PrefixIsOrder DEF Nodes
<1> HIDE DEF t, s, field, key
<1>4. key \in DOMAIN t \/ IsPrefix(field, key)
  BY <1>1, <1>2 DEF HasLeafAt
<1>5. ASSUME NEW n \in DOMAIN t
      PROVE  \/ n = key /\ t[n] = String(item)
             \/ n # key /\ IsPrefix(n, key) /\ t[n] = Map
             \/ n \in DOMAIN before /\ t[n] = before[n] /\ ~IsPrefix(field, n)
  <2>1. CASE n = key
    BY <1>1, <1>2, <2>1 DEF HasLeafAt
  <2>2. CASE n \in Nodes /\ Above(n, key)
    BY <1>1, <1>2, <2>2 DEF HasLeafAt, Above
  <2>3. CASE n \in DOMAIN before /\ ~IsPrefix(key, n)
    <3>1. n \in Nodes /\ ~IsPrefix(field, n) /\ t[n] = s[n]
      BY <1>2, <1>3, <2>3
    <3>2. CASE IsPrefix(n, key)
      BY <1>key, <2>2, <2>3, <3>1, <3>2 DEF Above
    <3>3. CASE ~IsPrefix(n, key)
      BY <1>1, <2>3, <3>1, <3>3 DEF HasLeafAt
    <3> QED BY <3>2, <3>3
  <2> QED BY <1>1, <1>2, <2>1, <2>2, <2>3 DEF HasLeafAt
<1>6. ASSUME NEW n \in DOMAIN before
      PROVE  IsPrefix(field, n) \/ IsPrefix(key, n) \/ n \in DOMAIN t
  BY <1>1, <1>2 DEF HasLeafAt
<1>7. IsPiece(tr, before, item, t)
  BY <1>5, <1>6 DEF IsPiece, field, key
<1> QED BY <1>4, <1>7 DEF t, s, key, field

\* The items an event is split into.
ItemsOf(tr, t) == IF tr.type = "split.regex" THEN Matches ELSE t[NodeOf(tr.field)].items

\* e is the event a split makes of ev for an item.
IsItsEvent(tr, ev, item, e) ==
    /\ IsEvent(e) /\ ev.headers \subseteq e.headers
    /\ IsPiece(tr, ev.payload, item, e.payload)
    /\ \/ NodeOf(tr.key) \in DOMAIN e.payload
       \/ tr.type # "filter.split" /\ IsPrefix(NodeOf(tr.field), NodeOf(tr.key))

\* There is one for each item.
AreItsEvents(tr, ev, evs) ==
    /\ DOMAIN evs = DOMAIN ItemsOf(tr, ev.payload)
    /\ \A k \in DOMAIN evs : IsItsEvent(tr, ev, ItemsOf(tr, ev.payload)[k], evs[k])

\* What a split may return for an event.
IsSplitResult(r, tr, ev) ==
    \/ r \in {Drop, Error, ManyEvents(<<>>)}
    \/ \E evs : r = ManyEvents(evs) /\ AreItsEvents(tr, ev, evs)

\* One event for each item.
LEMMA PiecesAreResult ==
    ASSUME NEW tr, NEW ev, NEW value, value.items = ItemsOf(tr, ev.payload), NEW made,
           \A v \in Range(value.items) : IsItsEvent(tr, ev, v, made[v])
    PROVE  IsSplitResult(Pieces(value, made), tr, ev)
<1> DEFINE items == ItemsOf(tr, ev.payload)
           evs == [k \in DOMAIN items |-> made[items[k]]]
<1>1. Pieces(value, made) = ManyEvents(evs)
  BY Zenon DEF Pieces
<1>2. ASSUME NEW k \in DOMAIN items PROVE IsItsEvent(tr, ev, items[k], evs[k])
  <2>1. items[k] \in Range(items)
    BY DEF Range
  <2>2. evs[k] = made[items[k]]
    OBVIOUS
  <2> HIDE DEF items, evs
  <2>3. IsItsEvent(tr, ev, items[k], made[items[k]])
    BY <2>1, Zenon DEF items
  <2> QED BY <2>2, <2>3
<1>3. DOMAIN evs = DOMAIN items
  OBVIOUS
<1> HIDE DEF evs
<1>4. AreItsEvents(tr, ev, evs)
  BY <1>2, <1>3 DEF AreItsEvents
<1> QED BY <1>1, <1>4 DEF IsSplitResult

\* The paths of a split.
LEMMA SplitPaths ==
    ASSUME NEW tr, IsConfigured(tr), tr.type \in Splits
    PROVE  tr.field \in Paths \ {<<>>} /\ tr.key \in Paths \ {<<>>}
BY ConfiguredFields

\* The event filter.split makes for an item.
LEMMA MadeByFilterSplit ==
    ASSUME NEW tr, IsConfigured(tr), tr.type = "filter.split", NEW ev, IsEvent(ev), NEW item
    PROVE  IsItsEvent(tr, ev, item,
             Marked(Copied(ev, SetField(RemoveField(ev.payload, tr.field), tr.key,
                                        Leaf(String(item)))), "_split_index"))
<1> DEFINE t == SetField(RemoveField(ev.payload, tr.field), tr.key, Leaf(String(item)))
           c == Copied(ev, t)
           e == Marked(c, "_split_index")
<1>0. tr.field \in Paths \ {<<>>} /\ tr.key \in Paths \ {<<>>}
  BY SplitPaths DEF Splits
<1>1. IsPayload(t)
  BY <1>0, EventPayload, RemoveFieldIsPayload, SetFieldIsPayload, LeafIsTree
<1>2. IsPiece(tr, ev.payload, item, t) /\ NodeOf(tr.key) \in DOMAIN t
  BY <1>0, EventPayload, PieceOfFilterSplit
<1> HIDE DEF t
<1>3. IsEvent(c) /\ c.payload = t /\ c.headers = ev.headers
  <2>1. ev.headers \in SUBSET Headers
    BY DEF IsEvent
  <2> QED BY <1>1, <2>1 DEF Copied, IsEvent
<1> HIDE DEF c
<1>4. IsEvent(e) /\ c.headers \subseteq e.headers /\ e.payload = c.payload
  BY <1>3, HeaderNames, MarkedIsResult
<1> HIDE DEF e
<1>5. IsItsEvent(tr, ev, item, e)
  BY <1>2, <1>3, <1>4 DEF IsItsEvent
<1> QED BY <1>5 DEF e, c, t

\* The event split.array and split.regex make for an item.
LEMMA MadeBySplit ==
    ASSUME NEW tr, IsConfigured(tr), tr.type \in {"split.array", "split.regex"},
           NEW ev, IsEvent(ev), NEW item
    PROVE  IsItsEvent(tr, ev, item,
             Copied(ev, RemoveField(SetField(ev.payload, tr.key, Leaf(String(item))),
                                    tr.field)))
<1> DEFINE t == RemoveField(SetField(ev.payload, tr.key, Leaf(String(item))), tr.field)
           e == Copied(ev, t)
<1>0. tr.field \in Paths \ {<<>>} /\ tr.key \in Paths \ {<<>>}
  BY SplitPaths DEF Splits
<1>1. IsPayload(t)
  BY <1>0, EventPayload, RemoveFieldIsPayload, SetFieldIsPayload, LeafIsTree
<1>2. /\ IsPiece(tr, ev.payload, item, t)
      /\ NodeOf(tr.key) \in DOMAIN t \/ IsPrefix(NodeOf(tr.field), NodeOf(tr.key))
  BY <1>0, EventPayload, PieceOfSplit
<1> HIDE DEF t
<1>3. IsEvent(e) /\ e.payload = t /\ e.headers = ev.headers
  <2>1. ev.headers \in SUBSET Headers
    BY DEF IsEvent
  <2> QED BY <1>1, <2>1 DEF Copied, IsEvent
<1> HIDE DEF e
<1>5. IsItsEvent(tr, ev, item, e)
  BY <1>2, <1>3 DEF IsItsEvent
<1> QED BY <1>5 DEF e, t

\* What the splits return.
LEMMA SplitResults ==
    ASSUME NEW tr, IsConfigured(tr), NEW ev, IsEvent(ev)
    PROVE  /\ tr.type = "filter.split" => \A r \in FilterSplit(tr, ev) : IsSplitResult(r, tr, ev)
           /\ tr.type = "split.array" => \A r \in SplitArray(tr, ev) : IsSplitResult(r, tr, ev)
           /\ tr.type = "split.regex" => \A r \in SplitRegex(tr, ev) : IsSplitResult(r, tr, ev)
<1> DEFINE value == ev.payload[NodeOf(tr.field)]
<1>0. \A r \in {Drop, Error, ManyEvents(<<>>)} : IsSplitResult(r, tr, ev)
  BY DEF IsSplitResult
<1>1. ASSUME tr.type = "filter.split", NEW r \in FilterSplit(tr, ev)
      PROVE  IsSplitResult(r, tr, ev)
  <2> DEFINE rest == RemoveField(ev.payload, tr.field)
             made == [v \in Range(value.items) |->
                       Marked(Copied(ev, SetField(rest, tr.key, Leaf(String(v)))), "_split_index")]
  <2>1. r \in {Drop, Error} \/ r = Pieces(value, made)
    BY <1>1, Zenon DEF FilterSplit
  <2>2. \A v \in Range(value.items) : IsItsEvent(tr, ev, v, made[v])
    BY <1>1, MadeByFilterSplit
  <2>3. value.items = ItemsOf(tr, ev.payload)
    BY <1>1 DEF ItemsOf
  <2> HIDE DEF made, value
  <2> QED BY <1>0, <2>1, <2>2, <2>3, PiecesAreResult
<1>2. ASSUME tr.type = "split.array", NEW r \in SplitArray(tr, ev)
      PROVE  IsSplitResult(r, tr, ev)
  <2> DEFINE made == [v \in Range(value.items) |->
                       Copied(ev, RemoveField(SetField(ev.payload, tr.key, Leaf(String(v))),
                                              tr.field))]
  <2>1. r \in {Error, ManyEvents(<<>>)} \/ r = Pieces(value, made)
    BY <1>2, Zenon DEF SplitArray
  <2>2. \A v \in Range(value.items) : IsItsEvent(tr, ev, v, made[v])
    BY <1>2, MadeBySplit
  <2>3. value.items = ItemsOf(tr, ev.payload)
    BY <1>2 DEF ItemsOf
  <2> HIDE DEF made, value
  <2> QED BY <1>0, <2>1, <2>2, <2>3, PiecesAreResult
<1>3. ASSUME tr.type = "split.regex", NEW r \in SplitRegex(tr, ev)
      PROVE  IsSplitResult(r, tr, ev)
  <2> DEFINE made == [v \in Range(Matches) |->
                       Copied(ev, RemoveField(SetField(ev.payload, tr.key, Leaf(String(v))),
                                              tr.field))]
             found == Array(Matches)
  <2>1. r \in {Error, ManyEvents(<<>>)} \/ r = Pieces(found, made)
    BY <1>3, Zenon DEF SplitRegex
  <2>2. \A v \in Range(Matches) : IsItsEvent(tr, ev, v, made[v])
    BY <1>3, MadeBySplit
  <2>3. found.items = ItemsOf(tr, ev.payload) /\ found.items = Matches
    BY <1>3 DEF ItemsOf, Array
  <2> HIDE DEF made, found
  <2> QED BY <1>0, <2>1, <2>2, <2>3, PiecesAreResult
<1> QED BY <1>1, <1>2, <1>3

\* What any of the transforms returns.
LEMMA ResultsAreRight ==
    ASSUME NEW tr, IsConfigured(tr), NEW ev, IsEvent(ev), NEW r \in ResultsOf(tr, ev)
    PROVE  IsResult(r, ev) \/ IsSplitResult(r, tr, ev)
<1>1. CASE tr.type \in {"field.rename", "field.extract", "field.add", "field.remove"}
  BY <1>1, FieldResults DEF ResultsOf
<1>2. CASE tr.type = "field.flatten"
  BY <1>2, FlattenResults DEF ResultsOf
<1>3. CASE tr.type = "field.unflatten"
  BY <1>3, UnflattenResults DEF ResultsOf
<1>4. CASE tr.type \in {"filter.condition", "filter.route"}
  BY <1>4, FilterResults DEF ResultsOf
<1>5. CASE tr.type \in Splits
  BY <1>5, SplitResults DEF ResultsOf, Splits
<1>6. CASE tr.type \in Validations
  BY <1>6, ValidationResults DEF ResultsOf, Validations
<1>7. CASE tr.type \in {"enrich.redis", "enrich.http", "enrich.postgres"}
  BY <1>7, EnrichResults DEF ResultsOf
<1>8. CASE tr.type \in {"data.convert", "data.case", "data.split", "data.join", "data.format"}
  BY <1>8, DataResults DEF ResultsOf
<1>9. CASE tr.type \in Rewrites
  BY <1>9, DataResults DEF ResultsOf, Rewrites
<1> QED BY <1>1, <1>2, <1>3, <1>4, <1>5, <1>6, <1>7, <1>8, <1>9 DEF IsConfigured

\* The trace with one event more.
LEMMA Appended ==
    ASSUME NEW s, s \in Seq(Range(s)), NEW e
    PROVE  /\ Append(s, e) \in Seq(Range(Append(s, e)))
           /\ Len(Append(s, e)) = Len(s) + 1
           /\ Last(Append(s, e)) = e
           /\ DOMAIN Append(s, e) = DOMAIN s \cup {Len(s) + 1}
           /\ \A k \in DOMAIN s : Append(s, e)[k] = s[k]
           /\ Append(s, e)[Len(s) + 1] = e
<1> DEFINE a == Append(s, e)
           E == Range(s) \cup {e}
<1>1. s \in Seq(E) /\ e \in E
  <2> HIDE DEF E
  <2>1. Range(s) \subseteq E /\ e \in E
    BY DEF E
  <2> QED BY <2>1
<1> HIDE DEF E
<1>2. /\ a \in Seq(E) /\ Len(a) = Len(s) + 1 /\ a[Len(s) + 1] = e /\ Len(s) \in Nat
      /\ \A k \in 1 .. Len(s) : a[k] = s[k]
      /\ DOMAIN s = 1 .. Len(s) /\ DOMAIN a = 1 .. Len(s) + 1
  BY <1>1
<1> HIDE DEF a
<1>3. a \in Seq(Range(a))
  <2>1. \A k \in 1 .. Len(a) : a[k] \in Range(a)
    BY <1>2 DEF Range
  <2> QED BY <1>2, <2>1
<1>4. DOMAIN a = DOMAIN s \cup {Len(s) + 1}
  BY <1>2
<1>5. Last(a) = e
  BY <1>2 DEF Last
<1> QED BY <1>2, <1>3, <1>4, <1>5 DEF a

-----------------------------------------------------------------------------
(* Dotted names                                                            *)

\* The join of the first keys does not depend on those that follow.
LEMMA JoinsAgree ==
    ASSUME NEW m, NEW n, NEW a \in Nat, NEW b \in Nat, NEW g, NEW h,
           IsJoin(g, m, a), IsJoin(h, n, b), a <= b, \A k \in 1 .. a : m[k] = n[k]
    PROVE  \A k \in 1 .. a : g[k] = h[k]
<1> DEFINE S == {k \in Nat : k \in 1 .. a => g[k] = h[k]}
<1>1. 0 \in S
  OBVIOUS
<1>2. ASSUME NEW k \in Nat, k \in S PROVE k + 1 \in S
  <2> SUFFICES ASSUME k + 1 \in 1 .. a PROVE g[k + 1] = h[k + 1]
    BY k + 1 \in Nat
  <2>1. k + 1 \in 1 .. b /\ m[k + 1] = n[k + 1] /\ (k + 1) - 1 = k
    OBVIOUS
  <2>2. g[k + 1] = IF k + 1 = 1 THEN m[k + 1] ELSE g[(k + 1) - 1] \o m[k + 1]
    BY Zenon DEF IsJoin
  <2>3. h[k + 1] = IF k + 1 = 1 THEN n[k + 1] ELSE h[(k + 1) - 1] \o n[k + 1]
    BY <2>1, Zenon DEF IsJoin
  <2>4. k + 1 # 1 => g[k] = h[k]
    BY <1>2
  <2> QED BY <2>1, <2>2, <2>3, <2>4, Zenon
<1>3. Nat \subseteq S
  <2> HIDE DEF S
  <2> QED BY <1>1, <1>2, Induction
<1> QED BY <1>3

\* One key more at the end of a dotted name.
LEMMA DottedAppend ==
    ASSUME NEW n \in Nodes, NEW k \in Paths
    PROVE  Dotted(Append(n, k)) = Dotted(n) \o k
<1> DEFINE m == Append(n, k)
<1>1. /\ m \in Nodes /\ m # <<>> /\ Len(m) = Len(n) + 1 /\ m[Len(n) + 1] = k
      /\ \A j \in 1 .. Len(n) : n[j] = m[j]
      /\ Len(n) \in Nat
  BY DEF Nodes
<1> HIDE DEF m
<1>2. PICK h : IsJoin(h, m, Len(m)) /\ Dotted(m) = h[Len(m)]
  BY <1>1, DottedJoin
<1>3. h[Len(m)] = IF Len(m) = 1 THEN m[Len(m)] ELSE h[Len(m) - 1] \o m[Len(m)]
  <2>1. Len(m) \in 1 .. Len(m)
    BY <1>1
  <2> QED BY <1>2, <2>1, Zenon DEF IsJoin
<1>4. CASE n = <<>>
  <2>1. Len(m) = 1 /\ Dotted(n) = <<>>
    BY <1>1, <1>4, DottedJoin
  <2>2. Dotted(m) = k
    BY <1>1, <1>2, <1>3, <2>1
  <2>3. <<>> \o k = k
    BY DEF Paths
  <2> QED BY <2>1, <2>2, <2>3 DEF m
<1>5. CASE n # <<>>
  <2>1. PICK g : IsJoin(g, n, Len(n)) /\ Dotted(n) = g[Len(n)]
    BY <1>5, DottedJoin
  <2>2. Len(n) \in 1 .. Len(n) /\ Len(m) # 1 /\ Len(m) - 1 = Len(n) /\ Len(n) <= Len(m)
        /\ Len(m) \in Nat
    BY <1>1, <1>5 DEF Nodes
  <2>3. g[Len(n)] = h[Len(n)]
    <3> DEFINE a == Len(n)
               b == Len(m)
    <3>1. /\ a \in Nat /\ b \in Nat /\ a <= b /\ a \in 1 .. a
          /\ IsJoin(g, n, a) /\ IsJoin(h, m, b)
          /\ \A j \in 1 .. a : n[j] = m[j]
      BY <1>1, <1>2, <2>1, <2>2
    <3> HIDE DEF a, b
    <3>2. g[a] = h[a]
      BY <3>1, JoinsAgree
    <3> QED BY <3>2 DEF a
  <2>4. Dotted(m) = h[Len(n)] \o k
    BY <1>1, <1>2, <1>3, <2>2
  <2> QED BY <2>1, <2>3, <2>4 DEF m
<1> QED BY <1>4, <1>5

\* A sequence is its last item after the others.
LEMMA SplitLast ==
    ASSUME NEW E, NEW s \in Seq(E), s # <<>>
    PROVE  \E u \in Seq(E) : \E x \in E : s = Append(u, x) /\ Len(s) = Len(u) + 1
<1> DEFINE u == SubSeq(s, 1, Len(s) - 1)
           x == s[Len(s)]
           a == Append(u, x)
<1>1. Len(s) \in Nat \ {0}
  OBVIOUS
<1>2. u \in Seq(E) /\ x \in E /\ Len(u) = Len(s) - 1
      /\ \A k \in 1 .. Len(s) - 1 : u[k] = s[k]
  <2>1. x \in E
    BY <1>1
  <2> DEFINE n == Len(s) - 1
  <2>2. n \in Nat /\ n <= Len(s) /\ Len(s) \in Nat
    BY <1>1
  <2> HIDE DEF n
  <2> DEFINE v == SubSeq(s, 1, n)
  <2>3. v \in Seq(E) /\ Len(v) = n
    BY <2>2
  <2>4. \A k \in 1 .. n : v[k] = s[k]
    BY <2>2
  <2> QED BY <2>1, <2>3, <2>4 DEF n
<1> HIDE DEF u, x
<1>3. a \in Seq(E) /\ Len(a) = Len(s) /\ \A k \in 1 .. Len(s) : a[k] = s[k]
  BY <1>1, <1>2 DEF x
<1> HIDE DEF a
<1>4. s = a
  BY <1>3
<1> QED BY <1>1, <1>2, <1>4 DEF a

\* The dotted name of a node is made of the names of its parts.
LEMMA DottedConcat ==
    ASSUME NEW a \in Nodes, NEW b \in Nodes
    PROVE  Dotted(a \o b) = Dotted(a) \o Dotted(b)
<1> DEFINE S == {len \in Nat : \A c \in Nodes : Len(c) = len => Dotted(a \o c) = Dotted(a) \o Dotted(c)}
<1>1. 0 \in S
  <2> SUFFICES ASSUME NEW c \in Nodes, Len(c) = 0
               PROVE  Dotted(a \o c) = Dotted(a) \o Dotted(c)
    OBVIOUS
  <2>1. c = <<>> /\ a \o c = a
    BY DEF Nodes
  <2>2. Dotted(c) = <<>> /\ Dotted(a) \o <<>> = Dotted(a)
    BY <2>1, DottedJoin, DottedIsPath DEF Paths
  <2> QED BY <2>1, <2>2
<1>2. ASSUME NEW len \in Nat, len \in S PROVE len + 1 \in S
  <2> SUFFICES ASSUME NEW c \in Nodes, Len(c) = len + 1
               PROVE  Dotted(a \o c) = Dotted(a) \o Dotted(c)
    BY len + 1 \in Nat
  <2>1. PICK u \in Nodes : \E x \in Paths : c = Append(u, x) /\ Len(c) = Len(u) + 1
    <3>1. c # <<>> /\ c \in Seq(Paths)
      BY DEF Nodes
    <3> QED BY <3>1, SplitLast DEF Nodes
  <2>2. PICK x \in Paths : c = Append(u, x) /\ Len(c) = Len(u) + 1
    BY <2>1
  <2>3. Len(u) = len
    BY <2>2 DEF Nodes
  <2> DEFINE au == a \o u
  <2>4. au \in Nodes /\ a \o c = Append(au, x)
    BY <2>2 DEF Nodes
  <2>5. Dotted(au) = Dotted(a) \o Dotted(u)
    BY <1>2, <2>3
  <2> HIDE DEF au
  <2>6. Dotted(a \o c) = Dotted(au) \o x
    BY <2>4, DottedAppend
  <2>7. Dotted(c) = Dotted(u) \o x
    BY <2>2, DottedAppend
  <2> DEFINE da == Dotted(a)
             du == Dotted(u)
  <2>8. da \in Paths /\ du \in Paths
    BY DottedIsPath
  <2> HIDE DEF da, du
  <2>9. (da \o du) \o x = da \o (du \o x)
    BY <2>8 DEF Paths
  <2> QED BY <2>5, <2>6, <2>7, <2>9 DEF da, du
<1>3. Nat \subseteq S
  <2> HIDE DEF S
  <2> QED BY <1>1, <1>2, Induction
<1>4. Len(b) \in Nat
  BY DEF Nodes
<1> QED BY <1>3, <1>4

\* A key is its own dotted name.
LEMMA DottedKey ==
    ASSUME NEW k \in Paths
    PROVE  <<k>> \in Nodes /\ Dotted(<<k>>) = k
<1> DEFINE e == <<>>
<1>1. e \in Nodes /\ Append(e, k) = <<k>> /\ e \o k = k
  BY DEF Nodes, Paths
<1>e. Dotted(e) = e
  BY <1>1, DottedJoin
<1> HIDE DEF e
<1>2. Dotted(Append(e, k)) = Dotted(e) \o k
  BY <1>1, DottedAppend
<1>3. <<k>> \in Nodes
  BY DEF Nodes
<1> QED BY <1>1, <1>e, <1>2, <1>3

\* strings.Split of a path and joining it again gives the path.
LEMMA DottedOfPath ==
    ASSUME NEW p \in Paths
    PROVE  Dotted(NodeOf(p)) = p
<1> DEFINE S == {len \in Nat : \A q \in Paths : Len(q) = len => Dotted(NodeOf(q)) = q}
<1>1. 0 \in S
  <2> SUFFICES ASSUME NEW q \in Paths, Len(q) = 0 PROVE Dotted(NodeOf(q)) = q
    OBVIOUS
  <2>1. q = <<>>
    BY DEF Paths
  <2>2. NodeOf(q) = <<>> /\ <<>> \in Nodes
    BY <2>1 DEF NodeOf, Nodes
  <2> QED BY <2>1, <2>2, DottedJoin
<1>2. ASSUME NEW len \in Nat, len \in S PROVE len + 1 \in S
  <2> SUFFICES ASSUME NEW q \in Paths, Len(q) = len + 1 PROVE Dotted(NodeOf(q)) = q
    BY len + 1 \in Nat
  <2>1. PICK u \in Paths : \E x \in Words : q = Append(u, x) /\ Len(q) = Len(u) + 1
    <3>1. q # <<>> /\ q \in Seq(Words)
      BY DEF Paths
    <3> QED BY <3>1, SplitLast DEF Paths
  <2>2. PICK x \in Words : q = Append(u, x) /\ Len(q) = Len(u) + 1
    BY <2>1
  <2>3. Len(u) = len /\ <<x>> \in Paths /\ NodeOf(u) \in Nodes
    BY <2>2, NodeOfPath DEF Paths
  <2>4. NodeOf(q) = Append(NodeOf(u), <<x>>)
    BY <2>2 DEF NodeOf, Paths
  <2>5. Dotted(NodeOf(q)) = Dotted(NodeOf(u)) \o <<x>>
    BY <2>3, <2>4, DottedAppend
  <2>6. Dotted(NodeOf(u)) = u
    BY <1>2, <2>3
  <2>7. u \o <<x>> = q
    BY <2>2 DEF Paths
  <2> QED BY <2>5, <2>6, <2>7
<1>3. Nat \subseteq S
  <2> HIDE DEF S
  <2> QED BY <1>1, <1>2, Induction
<1>4. Len(p) \in Nat
  BY DEF Paths
<1> QED BY <1>3, <1>4

\* Of plain keys the dotted name tells the node.
LEMMA PlainNode ==
    ASSUME NEW n \in Nodes, \A k \in DOMAIN n : Len(n[k]) = 1
    PROVE  NodeOf(Dotted(n)) = n
<1> DEFINE p == [k \in 1 .. Len(n) |-> n[k][1]]
<1>1. Len(n) \in Nat /\ DOMAIN n = 1 .. Len(n) /\ \A k \in 1 .. Len(n) : n[k] \in Seq(Words)
  BY DEF Nodes, Paths
<1>2. \A k \in 1 .. Len(n) : n[k][1] \in Words /\ n[k] = <<n[k][1]>>
  BY <1>1
<1>3. p \in Paths /\ Len(p) = Len(n) /\ DOMAIN p = 1 .. Len(n)
      /\ \A k \in 1 .. Len(n) : <<p[k]>> = n[k]
  BY <1>1, <1>2 DEF Paths
<1> HIDE DEF p
<1>4. NodeOf(p) = n
  <2>1. NodeOf(p) = [k \in 1 .. Len(n) |-> n[k]]
    BY <1>3 DEF NodeOf
  <2> QED BY <1>1, <2>1 DEF Nodes
<1> QED BY <1>3, <1>4, DottedOfPath

-----------------------------------------------------------------------------
(* field.flatten and field.unflatten                                       *)

\* Equal results have equal events.
LEMMA SameEvent ==
    ASSUME NEW d, NEW e, OneEvent(d) = OneEvent(e)
    PROVE  d = e
<1>1. OneEvent(d).events[1] = d /\ OneEvent(e).events[1] = e
  BY DEF OneEvent
<1> QED BY <1>1

\* An event is no other result.
LEMMA OneIsNone ==
    ASSUME NEW e
    PROVE  OneEvent(e) # Error /\ OneEvent(e) # Drop /\ \A evs : OneEvent(e) # ManyEvents(evs)
<1>1. OneEvent(e).kind = "running" /\ Error.kind = "error" /\ Drop.kind = "drop"
      /\ \A evs : ManyEvents(evs).kind = "events"
  BY DEF OneEvent, Error, Drop, ManyEvents
<1> QED BY <1>1

\* f is t with all its values one level down, under their dotted names.
IsFlat(f, t) ==
    /\ DOMAIN f = {<<>>} \cup {<<Dotted(n)>> : n \in Leaves(t)}
    /\ f[<<>>] = Map
    /\ \A n \in Leaves(t) : f[<<Dotted(n)>>] = t[n]

\* field.flatten of a payload in which no two values have one dotted name.
LEMMA FlattenIsFlat ==
    ASSUME NEW tr, NEW ev, IsEvent(ev), NamesDiffer(ev.payload),
           NEW e, OneEvent(e) \in Flatten(tr, ev)
    PROVE  IsFlat(e.payload, ev.payload) /\ e.headers = ev.headers
<1> DEFINE t == ev.payload
           L == Leaves(t)
           names == {Dotted(n) : n \in L}
           Tree(w) == [m \in {<<>>} \cup {<<k>> : k \in names} |->
                         IF m = <<>> THEN Map ELSE t[w[m[1]]]]
<1>1. PICK w \in [names -> L] :
        (\A k \in names : Dotted(w[k]) = k) /\ OneEvent(e) = OneEvent(Copied(ev, Tree(w)))
  BY Zenon DEF Flatten
<1> DEFINE f == Tree(w)
<1>2. e.payload = f /\ e.headers = ev.headers
  <2> HIDE DEF Tree
  <2>1. e = Copied(ev, f)
    BY <1>1, SameEvent
  <2> QED BY <2>1 DEF Copied
<1>3. DOMAIN f = {<<>>} \cup {<<Dotted(n)>> : n \in L}
  <2>1. DOMAIN f = {<<>>} \cup {<<k>> : k \in names}
    OBVIOUS
  <2>2. {<<k>> : k \in names} = {<<Dotted(n)>> : n \in L}
    BY Zenon
  <2> HIDE DEF Tree, names
  <2> QED BY <2>1, <2>2, Zenon
<1>4. f[<<>>] = Map
  OBVIOUS
<1>5. ASSUME NEW n \in L PROVE f[<<Dotted(n)>>] = t[n]
  <2> DEFINE k == Dotted(n)
  <2>1. k \in names
    OBVIOUS
  <2>2. w[k] \in L /\ Dotted(w[k]) = k
    BY <1>1, <2>1
  <2>3. w[k] = n
    BY <2>2 DEF NamesDiffer
  <2> HIDE DEF names, L
  <2>4. f[<<k>>] = t[w[k]]
    <3> HIDE DEF k
    <3> QED BY <2>1
  <2> QED BY <2>3, <2>4
<1> HIDE DEF Tree
<1>6. IsFlat(f, t)
  BY <1>3, <1>4, <1>5 DEF IsFlat
<1> QED BY <1>2, <1>6

\* What is under a key, node by node.
LEMMA UnderNodes ==
    ASSUME NEW t, IsTree(t), NEW k \in TopKeys(t)
    PROVE  /\ DOMAIN Under(t, k) = {r \in Nodes : <<k>> \o r \in DOMAIN t}
           /\ \A r \in DOMAIN Under(t, k) : Under(t, k)[r] = t[<<k>> \o r]
<1>1. <<k>> \in DOMAIN t
  BY TopKeysLead
<1> DEFINE m == <<k>>
           s == [r \in {RestOf(m, l) : l \in Below(t, m)} |-> t[m \o r]]
<1>2. Under(t, k) = s
  BY DEF Under
<1> HIDE DEF m
<1>3. DOMAIN s = {r \in Nodes : m \o r \in DOMAIN t}
  BY <1>1, SubtreeIsTree DEF m
<1>4. \A r \in DOMAIN s : s[r] = t[m \o r]
  OBVIOUS
<1> HIDE DEF s
<1> QED BY <1>2, <1>3, <1>4 DEF m

\* The length of two sequences together.
LEMMA LenOfConcat ==
    ASSUME NEW K, NEW m \in Seq(K), NEW n \in Seq(K)
    PROVE  Len(m \o n) = Len(m) + Len(n)
OBVIOUS

\* Of a flattened payload there is a single value under each key.
LEMMA UnderFlat ==
    ASSUME NEW f, IsTree(f), NEW t, IsFlat(f, t), NEW k \in TopKeys(f)
    PROVE  Under(f, k) = Leaf(f[<<k>>])
<1>1. k \in Paths /\ <<k>> \in DOMAIN f /\ DOMAIN f \subseteq Nodes
  BY TopKeysLead, TreeByNodes
<1>2. \A n \in DOMAIN f : Len(n) <= 1
  <2> SUFFICES ASSUME NEW n \in DOMAIN f PROVE Len(n) <= 1
    OBVIOUS
  <2>1. n = <<>> \/ \E d : n = <<d>>
    BY DEF IsFlat
  <2>2. CASE n = <<>>
    BY <2>2
  <2>3. ASSUME NEW d, n = <<d>> PROVE Len(n) <= 1
    BY <2>3
  <2> QED BY <2>1, <2>2, <2>3
<1> DEFINE key == <<k>>
<1>3. key \in Seq(Paths) /\ Len(key) = 1 /\ key \o <<>> = key /\ <<>> \in Nodes
  BY <1>1 DEF Nodes
<1> HIDE DEF key
<1>4. ASSUME NEW r \in Nodes, key \o r \in DOMAIN f PROVE r = <<>>
  <2>1. Len(key \o r) <= 1
    BY <1>2, <1>4
  <2>2. Len(key \o r) = 1 + Len(r) /\ Len(r) \in Nat
    <3>1. Len(key \o r) = Len(key) + Len(r)
      BY <1>3, LenOfConcat DEF Nodes
    <3> QED BY <1>3, <3>1 DEF Nodes
  <2>3. Len(r) = 0
    BY <2>1, <2>2
  <2> QED BY <2>3 DEF Nodes
<1>5. DOMAIN Under(f, k) = {<<>>}
  <2>1. DOMAIN Under(f, k) = {r \in Nodes : key \o r \in DOMAIN f}
    BY UnderNodes DEF key
  <2>2. key \o <<>> \in DOMAIN f
    BY <1>1, <1>3 DEF key
  <2> QED BY <1>3, <1>4, <2>1, <2>2, Zenon
<1>6. Under(f, k)[<<>>] = f[<<k>>]
  <2>1. Under(f, k)[<<>>] = f[key \o <<>>]
    BY <1>5, UnderNodes DEF key
  <2> QED BY <1>3, <2>1 DEF key
<1>7. Under(f, k) = [r \in DOMAIN Under(f, k) |-> Under(f, k)[r]]
  BY DEF Under
<1> DEFINE u == Under(f, k)
<1> HIDE DEF u
<1> QED BY <1>5, <1>6, <1>7 DEF u, Leaf

\* In a payload of plain keys no two values have one dotted name.
LEMMA PlainLeaves ==
    ASSUME NEW t, IsPayload(t), Plain(t)
    PROVE  /\ \A n \in Leaves(t) : /\ n \in DOMAIN t /\ n \in Nodes /\ n # <<>>
                                   /\ Dotted(n) \in Paths \ {<<>>} /\ NodeOf(Dotted(n)) = n
           /\ NamesDiffer(t)
<1>1. DOMAIN t \subseteq Nodes /\ t[<<>>] = Map
  BY TreeByNodes DEF IsPayload
<1>2. ASSUME NEW n \in Leaves(t)
      PROVE  /\ n \in DOMAIN t /\ n \in Nodes /\ n # <<>>
             /\ Dotted(n) \in Paths \ {<<>>} /\ NodeOf(Dotted(n)) = n
  <2>1. n \in DOMAIN t /\ n \in Nodes /\ n # <<>>
    BY <1>1 DEF Leaves
  <2>2. NodeOf(Dotted(n)) = n
    BY <2>1, PlainNode DEF Plain
  <2>3. NodeOf(<<>>) = <<>>
    BY DEF NodeOf
  <2> QED BY <2>1, <2>2, <2>3, DottedIsPath
<1> QED BY <1>2 DEF NamesDiffer

\* The keys of a flattened payload.
LEMMA FlatKeys ==
    ASSUME NEW f, NEW t, IsFlat(f, t)
    PROVE  TopKeys(f) = {Dotted(n) : n \in Leaves(t)}
<1>1. ASSUME NEW n \in Leaves(t) PROVE Dotted(n) \in TopKeys(f)
  <2>1. <<Dotted(n)>> \in DOMAIN f \ {<<>>}
    BY DEF IsFlat
  <2> DEFINE m == <<Dotted(n)>>
  <2>2. m[1] = Dotted(n)
    OBVIOUS
  <2> HIDE DEF m
  <2> QED BY <2>1, <2>2 DEF TopKeys, m
<1>2. ASSUME NEW m \in DOMAIN f \ {<<>>} PROVE \E n \in Leaves(t) : m[1] = Dotted(n)
  <2>1. PICK n \in Leaves(t) : m = <<Dotted(n)>>
    BY DEF IsFlat
  <2> QED BY <2>1
<1> QED BY <1>1, <1>2 DEF TopKeys

\* s is what there is of t on the way to the nodes in N.
IsPart(s, t, N) ==
    /\ DOMAIN s = {<<>>} \cup {m \in Nodes : \E n \in N : IsPrefix(m, n)}
    /\ \A m \in DOMAIN s : m \in DOMAIN t /\ s[m] = t[m]

\* Setting one more value at its path adds the way to it.
LEMMA PartGrows ==
    ASSUME NEW t, IsPayload(t), Plain(t), NEW s, IsTree(s), NEW N, IsPart(s, t, N),
           NEW n \in Leaves(t)
    PROVE  IsPart(SetField(s, Dotted(n), Leaf(t[n])), t, N \cup {n})
<1> DEFINE r == SetField(s, Dotted(n), Leaf(t[n]))
<1>1. /\ n \in DOMAIN t /\ n \in Nodes /\ n # <<>> /\ DOMAIN t \subseteq Nodes /\ t[n] # Map
      /\ Dotted(n) \in Paths \ {<<>>} /\ NodeOf(Dotted(n)) = n
      /\ \A l \in DOMAIN t : \A m \in Nodes : Above(m, l) => m \in DOMAIN t /\ t[m] = Map
  BY PlainLeaves, TreeByNodes DEF Leaves, IsPayload
<1>2. HasLeafAt(r, s, n, t[n])
  BY <1>1, SetLeaf
<1>3. IsPrefix(n, n)
  BY <1>1, PrefixIsOrder DEF Nodes
<1>4. ASSUME NEW m \in DOMAIN s, IsPrefix(n, m) PROVE m = n
  BY <1>1, <1>4 DEF IsPart, Above
<1> HIDE DEF r
<1>5. DOMAIN r = DOMAIN s \cup {m \in Nodes : IsPrefix(m, n)}
  BY <1>1, <1>2, <1>3, <1>4 DEF HasLeafAt, Above
<1>6. DOMAIN r = {<<>>} \cup {m \in Nodes : \E l \in N \cup {n} : IsPrefix(m, l)}
  BY <1>5 DEF IsPart
<1>7. ASSUME NEW m \in DOMAIN r PROVE m \in DOMAIN t /\ r[m] = t[m]
  <2>1. CASE m = n
    BY <1>1, <1>2, <2>1 DEF HasLeafAt
  <2>2. CASE m \in Nodes /\ Above(m, n)
    BY <1>1, <1>2, <2>2 DEF HasLeafAt
  <2>3. CASE m \in DOMAIN s /\ ~IsPrefix(n, m) /\ ~IsPrefix(m, n)
    BY <1>2, <2>3 DEF HasLeafAt, IsPart
  <2>4. CASE m \in DOMAIN s /\ ~IsPrefix(n, m) /\ IsPrefix(m, n)
    BY <1>1, <1>3, <2>2, <2>4 DEF IsPart, Above
  <2> QED BY <1>2, <2>1, <2>2, <2>3, <2>4 DEF HasLeafAt
<1>8. IsPart(r, t, N \cup {n})
  BY <1>6, <1>7 DEF IsPart
<1> QED BY <1>8 DEF r

\* The fold of field.unflatten gives back what was flattened.
LEMMA UnflattenOfFlat ==
    ASSUME NEW t, IsPayload(t), Plain(t), NEW f, IsPayload(f), IsFlat(f, t),
           NEW keys \in Seq(TopKeys(f)), Range(keys) = TopKeys(f),
           UnflattenKeys(f, keys).ok
    PROVE  UnflattenKeys(f, keys).tree = t
<1> DEFINE len == Len(keys)
           At(k) == {NodeOf(keys[j]) : j \in 1 .. k}
<1>1. PICK g : IsRun(g, "unflatten", f, Nothing, keys, len) /\ g[len] = UnflattenKeys(f, keys)
  BY UnflattenRun
<1>2. IsTree(t) /\ IsTree(f) /\ t[<<>>] = Map /\ <<>> \in DOMAIN t /\ len \in Nat
  BY TreeByNodes DEF IsPayload
<1> DEFINE S == {k \in Nat : k <= len /\ g[k].ok =>
                    IsTree(g[k].tree) /\ IsPart(g[k].tree, t, At(k))}
<1>3. 0 \in S
  <2>1. g[0].tree = Leaf(Map) /\ At(0) = {}
    BY <1>1 DEF IsRun, Nothing
  <2>2. IsTree(Leaf(Map)) /\ DOMAIN Leaf(Map) = {<<>>} /\ Leaf(Map)[<<>>] = Map
    BY LeafIsTree
  <2>3. IsPart(Leaf(Map), t, {})
    BY <1>2, <2>2 DEF IsPart
  <2> QED BY <2>1, <2>2, <2>3
<1>4. ASSUME NEW k \in Nat, k \in S PROVE k + 1 \in S
  <2> SUFFICES ASSUME k + 1 <= len, g[k + 1].ok
               PROVE  IsTree(g[k + 1].tree) /\ IsPart(g[k + 1].tree, t, At(k + 1))
    BY k + 1 \in Nat
  <2> DEFINE y == keys[k + 1]
             x == g[k]
             s == x.tree
             u == Under(f, y)
  <2>1. k + 1 \in 1 .. len /\ (k + 1) - 1 = k /\ k <= len /\ y \in TopKeys(f)
    OBVIOUS
  <2>2. g[k + 1] = IF x.ok THEN SetNested(s, y, u) ELSE x
    <3>1. g[k + 1] = FoldStep("unflatten", f, x, y)
      BY <1>1, <2>1 DEF IsRun
    <3> QED BY <3>1 DEF FoldStep
  <2>3. x.ok /\ g[k + 1] = SetNested(s, y, u)
    BY <2>2
  <2>4. IsTree(s) /\ IsPart(s, t, At(k))
    BY <1>4, <2>1, <2>3
  <2>5. PICK n \in Leaves(t) : y = Dotted(n)
    BY <2>1, FlatKeys
  <2>6. NodeOf(y) = n /\ y \in Paths
    BY <2>5, PlainLeaves
  <2>7. u = Leaf(t[n])
    <3>1. u = Leaf(f[<<y>>])
      BY <1>2, <2>1, UnderFlat
    <3>2. f[<<Dotted(n)>>] = t[n]
      BY DEF IsFlat
    <3> QED BY <2>5, <3>1, <3>2, Zenon
  <2> HIDE DEF s, u, x
  <2>8. g[k + 1].tree = SetField(s, y, u)
    BY <2>3 DEF SetNested
  <2>9. IsTree(SetField(s, y, u))
    BY <2>4, <2>6, <2>7, LeafIsTree, SetFieldIsTree
  <2>10. At(k + 1) = At(k) \cup {n}
    <3>1. 1 .. k + 1 = (1 .. k) \cup {k + 1}
      OBVIOUS
    <3> HIDE DEF y
    <3> QED BY <2>6, <3>1 DEF y
  <2> HIDE DEF At, y
  <2>11. IsPart(SetField(s, Dotted(n), Leaf(t[n])), t, At(k) \cup {n})
    BY <2>4, PartGrows
  <2> QED BY <2>5, <2>7, <2>8, <2>9, <2>10, <2>11
<1>5. Nat \subseteq S
  <2> HIDE DEF S
  <2> QED BY <1>3, <1>4, Induction
<1> DEFINE s == g[len].tree
<1>6. IsTree(s) /\ IsPart(s, t, At(len))
  <2>1. g[len].ok
    BY <1>1, Zenon
  <2>2. len \in S
    BY <1>2, <1>5
  <2>3. len <= len
    BY <1>2
  <2> HIDE DEF At, len
  <2> QED BY <2>1, <2>2, <2>3
<1>7. At(len) = Leaves(t)
  <2>1. ASSUME NEW j \in 1 .. len PROVE NodeOf(keys[j]) \in Leaves(t)
    <3>1. PICK n \in Leaves(t) : keys[j] = Dotted(n)
      BY FlatKeys
    <3> QED BY <3>1, PlainLeaves
  <2>2. ASSUME NEW n \in Leaves(t) PROVE \E j \in 1 .. len : n = NodeOf(keys[j])
    <3>1. Dotted(n) \in Range(keys)
      BY FlatKeys
    <3>2. PICK j \in 1 .. len : keys[j] = Dotted(n)
      BY <3>1 DEF Range
    <3> QED BY <3>2, PlainLeaves
  <2> QED BY <2>1, <2>2
<1> HIDE DEF At, S, s
<1>8. DOMAIN s = DOMAIN t
  <2>1. ASSUME NEW n \in DOMAIN t PROVE n \in DOMAIN s
    <3>1. n \in Nodes /\ IsPrefix(n, n)
      BY <1>2, TreeByNodes, PrefixIsOrder DEF Nodes
    <3>2. \E m \in Leaves(t) : IsPrefix(n, m)
      BY <3>1 DEF Plain, Leaves
    <3> QED BY <1>6, <1>7, <3>1, <3>2 DEF IsPart
  <2> QED BY <1>6, <2>1 DEF IsPart
<1>9. \A n \in DOMAIN t : s[n] = t[n]
  BY <1>6, <1>8 DEF IsPart
<1>10. s = [n \in DOMAIN s |-> s[n]] /\ t = [n \in DOMAIN t |-> t[n]]
  BY <1>2, <1>6, TreeByNodes DEF IsFinite
<1>11. s = t
  BY <1>8, <1>9, <1>10
<1> QED BY <1>1, <1>11 DEF s

\* The two transforms, one after the other.
LEMMA FlattenThenUnflatten ==
    ASSUME NEW tr1, NEW tr2, NEW ev, IsEvent(ev), Plain(ev.payload),
           NEW d, IsEvent(d), OneEvent(d) \in Flatten(tr1, ev),
           NEW e, OneEvent(e) \in Unflatten(tr2, d)
    PROVE  e = ev
<1> DEFINE t == ev.payload
           f == d.payload
<1>1. IsPayload(t) /\ IsPayload(f)
  BY EventPayload
<1>2. IsFlat(f, t) /\ d.headers = ev.headers
  BY <1>1, PlainLeaves, FlattenIsFlat
<1>3. PICK keys \in Sorted(TopKeys(f)) :
        OneEvent(e) = IF UnflattenKeys(f, keys).ok
                      THEN OneEvent(Copied(d, UnflattenKeys(f, keys).tree)) ELSE Error
  BY Zenon DEF Unflatten, TopKeys
<1> HIDE DEF t, f
<1>4. keys \in Seq(TopKeys(f)) /\ Range(keys) = TopKeys(f)
  BY SortedIsSeq
<1> DEFINE end == UnflattenKeys(f, keys)
<1>5. end.ok /\ OneEvent(e) = OneEvent(Copied(d, end.tree))
  BY <1>3, OneIsNone
<1>6. end.tree = t
  BY <1>1, <1>2, <1>4, <1>5, UnflattenOfFlat DEF t
<1> HIDE DEF end
<1>7. e = Copied(d, t)
  BY <1>5, <1>6, SameEvent
<1>8. e = [payload |-> t, headers |-> ev.headers]
  BY <1>2, <1>7 DEF Copied
<1>9. ev = [payload |-> ev.payload, headers |-> ev.headers]
  BY DEF IsEvent
<1> QED BY <1>8, <1>9 DEF t

-----------------------------------------------------------------------------
(* Values that are moved                                                   *)

\* Paths lead through each other as their nodes do.
LEMMA NodesComparable ==
    ASSUME NEW p \in Paths, NEW q \in Paths
    PROVE  IsPrefix(NodeOf(p), NodeOf(q)) <=> IsPrefix(p, q)
<1>1. p \in Seq(Words) /\ q \in Seq(Words) /\ NodeOf(p) \in Seq(Paths) /\ NodeOf(q) \in Seq(Paths)
  BY NodeOfPath DEF Paths, Nodes
<1>2. ASSUME NEW r \in Seq(Words), NodeOf(r) \in Seq(Paths)
      PROVE  Len(NodeOf(r)) = Len(r) /\ \A k \in 1 .. Len(r) : NodeOf(r)[k] = <<r[k]>>
  <2>1. NodeOf(r) = [k \in 1 .. Len(r) |-> <<r[k]>>]
    BY DEF NodeOf
  <2>2. DOMAIN NodeOf(r) = 1 .. Len(NodeOf(r)) /\ Len(NodeOf(r)) \in Nat
    BY <1>2
  <2>3. DOMAIN NodeOf(r) = 1 .. Len(r) /\ Len(r) \in Nat
    BY <2>1
  <2> QED BY <2>1, <2>2, <2>3
<1> DEFINE a == NodeOf(p)
           b == NodeOf(q)
<1>3. /\ Len(a) = Len(p) /\ \A k \in 1 .. Len(p) : a[k] = <<p[k]>>
      /\ Len(b) = Len(q) /\ \A k \in 1 .. Len(q) : b[k] = <<q[k]>>
  BY <1>1, <1>2
<1> HIDE DEF a, b
<1>4. IsPrefix(a, b) <=> Len(a) <= Len(b) /\ \A k \in 1 .. Len(a) : a[k] = b[k]
  BY <1>1, PrefixByItems DEF a, b
<1>5. IsPrefix(p, q) <=> Len(p) <= Len(q) /\ \A k \in 1 .. Len(p) : p[k] = q[k]
  BY <1>1, PrefixByItems
<1>6. Len(p) \in Nat /\ Len(q) \in Nat
  BY <1>1
<1>7. \A k \in 1 .. Len(p) : Len(p) <= Len(q) => (a[k] = b[k] <=> p[k] = q[k])
  <2> SUFFICES ASSUME NEW k \in 1 .. Len(p), Len(p) <= Len(q)
               PROVE  a[k] = b[k] <=> p[k] = q[k]
    OBVIOUS
  <2>1. a[k] = <<p[k]>> /\ b[k] = <<q[k]>>
    BY <1>3, <1>6
  <2> QED BY <2>1
<1>8. IsPrefix(a, b) <=> IsPrefix(p, q)
  BY <1>3, <1>4, <1>5, <1>7
<1> QED BY <1>8 DEF a, b

\* s is t with what was below F below T.
IsMove(s, t, F, T) ==
    /\ \A m \in DOMAIN s :
          \/ m \in DOMAIN t /\ ~IsPrefix(T, m) /\ ~IsPrefix(F, m)
             /\ (~IsPrefix(m, T) => s[m] = t[m]) /\ (IsPrefix(m, T) => s[m] = Map)
          \/ m \in Nodes /\ Above(m, T) /\ s[m] = Map
          \/ \E r \in Nodes : m = T \o r /\ F \o r \in DOMAIN t /\ s[m] = t[F \o r]
    /\ \A m \in DOMAIN t : ~IsPrefix(T, m) /\ ~IsPrefix(F, m) => m \in DOMAIN s
    /\ \A r \in Nodes : F \o r \in DOMAIN t => T \o r \in DOMAIN s /\ s[T \o r] = t[F \o r]

\* Moving a field to a path that is not on its way and not below it.
LEMMA MoveFieldMoves ==
    ASSUME NEW t, IsTree(t), NEW from \in Paths, NEW to \in Paths \ {<<>>},
           HasField(t, from), ~Comparable(to, from)
    PROVE  IsMove(MoveField(t, from, to), t, NodeOf(from), NodeOf(to))
<1> DEFINE F == NodeOf(from)
           T == NodeOf(to)
           v == GetField(t, from)
           s1 == SetField(t, to, v)
           s == RemoveField(s1, from)
<1>1. /\ F \in Nodes /\ T \in Nodes /\ F \in DOMAIN t /\ DOMAIN t \subseteq Nodes
      /\ from \in Paths \ {<<>>}
  BY NodeOfPath, TreeByNodes DEF HasField
<1>2. ~IsPrefix(F, T) /\ ~IsPrefix(T, F)
  BY NodesComparable DEF Comparable
<1>3. s = MoveField(t, from, to)
  BY DEF MoveField
<1>4. IsTree(v) /\ DOMAIN v = {r \in Nodes : F \o r \in DOMAIN t}
      /\ \A r \in DOMAIN v : v[r] = t[F \o r]
  <2> DEFINE w == [r \in {RestOf(F, m) : m \in Below(t, F)} |-> t[F \o r]]
  <2>1. v = w
    BY DEF GetField
  <2>2. \A r \in DOMAIN w : w[r] = t[F \o r]
    OBVIOUS
  <2> HIDE DEF F
  <2>3. IsTree(w) /\ DOMAIN w = {r \in Nodes : F \o r \in DOMAIN t}
    BY <1>1, SubtreeIsTree
  <2> HIDE DEF w, v
  <2> QED BY <2>1, <2>2, <2>3
<1> HIDE DEF v
<1>5. HasAt(s1, t, T, v) /\ IsTree(s1)
  BY <1>4, SetFieldNodes, SetFieldIsTree
<1> HIDE DEF s1
<1>6. DOMAIN s = {m \in DOMAIN s1 : ~IsPrefix(F, m)} /\ \A m \in DOMAIN s : s[m] = s1[m]
  BY <1>1, <1>5, WithoutField
<1> HIDE DEF s, F, T
<1>7. ASSUME NEW m \in DOMAIN s
      PROVE  \/ m \in DOMAIN t /\ ~IsPrefix(T, m) /\ ~IsPrefix(F, m)
                /\ (~IsPrefix(m, T) => s[m] = t[m]) /\ (IsPrefix(m, T) => s[m] = Map)
             \/ m \in Nodes /\ Above(m, T) /\ s[m] = Map
             \/ \E r \in Nodes : m = T \o r /\ F \o r \in DOMAIN t /\ s[m] = t[F \o r]
  <2>0. m \in DOMAIN s1 /\ ~IsPrefix(F, m) /\ s[m] = s1[m]
    BY <1>6
  <2>1. CASE m \in DOMAIN t /\ ~IsPrefix(T, m)
    <3>1. IsPrefix(T, T) /\ m \in Nodes
      BY <1>1, <2>1, PrefixIsOrder DEF Nodes
    <3>2. ~IsPrefix(m, T) => s1[m] = t[m]
      BY <1>5, <2>1 DEF HasAt
    <3>3. IsPrefix(m, T) => s1[m] = Map
      BY <1>5, <2>1, <3>1 DEF HasAt, Above
    <3> QED BY <2>0, <2>1, <3>2, <3>3
  <2>2. CASE m \in Nodes /\ Above(m, T)
    BY <1>5, <2>0, <2>2 DEF HasAt
  <2>3. ASSUME NEW r \in DOMAIN v, m = T \o r
        PROVE  r \in Nodes /\ F \o r \in DOMAIN t /\ s[m] = t[F \o r]
    BY <1>4, <1>5, <2>0, <2>3 DEF HasAt
  <2> QED BY <1>5, <2>0, <2>1, <2>2, <2>3 DEF HasAt
<1>8. ASSUME NEW m \in DOMAIN t, ~IsPrefix(T, m), ~IsPrefix(F, m)
      PROVE  m \in DOMAIN s
  BY <1>5, <1>6, <1>8 DEF HasAt
<1>9. ASSUME NEW r \in Nodes, F \o r \in DOMAIN t
      PROVE  T \o r \in DOMAIN s /\ s[T \o r] = t[F \o r]
  <2>1. r \in DOMAIN v /\ v[r] = t[F \o r]
    BY <1>4, <1>9
  <2>2. T \o r \in DOMAIN s1 /\ s1[T \o r] = v[r]
    BY <1>5, <2>1 DEF HasAt
  <2>3. ~IsPrefix(F, T \o r)
    <3> DEFINE c == T \o r
    <3>1. c \in Nodes /\ IsPrefix(T, c)
      BY <1>1, RestOfNode DEF Nodes
    <3> HIDE DEF c
    <3>2. ~IsPrefix(F, c)
      BY <1>1, <1>2, <3>1, PrefixIsOrder DEF Nodes
    <3> QED BY <3>2 DEF c
  <2> QED BY <1>6, <2>1, <2>2, <2>3
<1>10. IsMove(s, t, F, T)
  BY <1>7, <1>8, <1>9, Zenon DEF IsMove
<1> QED BY <1>3, <1>10 DEF F, T

\* Every value is at as many nodes of s as of t.
SameHolders(s, t) == \A x : Cardinality(Holders(s, x)) = Cardinality(Holders(t, x))

\* A map holds nothing.
LEMMA HeldByLeaf ==
    ASSUME NEW t, NEW x, NEW n \in Holders(t, x)
    PROVE  n \in DOMAIN t /\ t[n] # Map /\ n \in Leaves(t)
<1>1. Map.items = <<>> /\ Range(<<>>) = {}
  BY DEF Map, Range
<1> QED BY <1>1 DEF Holders, Leaves

\* A value is at finitely many nodes.
LEMMA HoldersFinite ==
    ASSUME NEW t, IsTree(t), NEW x
    PROVE  IsFiniteSet(Holders(t, x))
BY TreeByNodes, FS_Subset DEF IsFinite, Holders

\* A move to a node that is not there, with only maps on the way to it, keeps
\* every value: the nodes below one correspond to the nodes below the other.
LEMMA MoveKeepsHolders ==
    ASSUME NEW t, IsTree(t), NEW s, NEW F \in Nodes, NEW T \in Nodes, IsMove(s, t, F, T),
           F \in DOMAIN t, T \notin DOMAIN t,
           \A m \in DOMAIN t : Above(m, T) => t[m] = Map
    PROVE  SameHolders(s, t)
<1> SUFFICES ASSUME NEW x PROVE Cardinality(Holders(s, x)) = Cardinality(Holders(t, x))
  BY DEF SameHolders
<1> DEFINE S == Holders(t, x)
           R == Holders(s, x)
           f == [n \in S |-> IF IsPrefix(F, n) THEN T \o RestOf(F, n) ELSE n]
<1>1. DOMAIN t \subseteq Nodes /\ IsFiniteSet(S)
  BY TreeByNodes, HoldersFinite
<1>2. \A n \in DOMAIN t : ~IsPrefix(T, n)
  BY <1>1, TreeByNodes DEF Above
<1>3. ASSUME NEW n \in S, IsPrefix(F, n)
      PROVE  /\ RestOf(F, n) \in Nodes /\ F \o RestOf(F, n) = n
             /\ T \o RestOf(F, n) \in R
  <2>1. n \in DOMAIN t /\ n \in Nodes /\ x \in Range(t[n].items)
    BY <1>1 DEF Holders
  <2> DEFINE r == RestOf(F, n)
  <2>2. r \in Nodes /\ F \o r = n
    BY <1>3, <2>1, RestOfNode DEF Nodes
  <2> HIDE DEF r
  <2>3. T \o r \in DOMAIN s /\ s[T \o r] = t[n]
    BY <2>1, <2>2 DEF IsMove
  <2> QED BY <2>1, <2>2, <2>3 DEF Holders, r
<1>4. ASSUME NEW n \in S, ~IsPrefix(F, n) PROVE n \in R
  <2>1. n \in DOMAIN t /\ n \in Nodes /\ x \in Range(t[n].items) /\ t[n] # Map
    BY <1>1, HeldByLeaf DEF Holders
  <2>2. n \in DOMAIN s
    BY <1>2, <1>4, <2>1 DEF IsMove
  <2>3. n # T /\ ~IsPrefix(n, T)
    BY <2>1 DEF Above
  <2>4. s[n] = t[n]
    <3>1. ASSUME NEW r \in Nodes, n = T \o r PROVE FALSE
      BY <1>2, <2>1, <3>1, RestOfNode DEF Nodes
    <3> QED BY <2>2, <2>3, <3>1 DEF IsMove, Above
  <2> QED BY <2>1, <2>2, <2>4 DEF Holders
<1>5. ASSUME NEW m \in R PROVE \E n \in S : f[n] = m
  <2>1. m \in DOMAIN s /\ x \in Range(s[m].items) /\ s[m] # Map
    BY HeldByLeaf DEF Holders
  <2>2. CASE m \in DOMAIN t /\ ~IsPrefix(F, m) /\ s[m] = t[m]
    <3>1. m \in S
      BY <2>1, <2>2 DEF Holders
    <3> QED BY <2>2, <3>1
  <2>3. ASSUME NEW r \in Nodes, m = T \o r, F \o r \in DOMAIN t, s[m] = t[F \o r]
        PROVE  \E n \in S : f[n] = m
    <3> DEFINE n == F \o r
    <3>1. IsPrefix(F, n) /\ RestOf(F, n) = r
      BY RestOfNode DEF Nodes
    <3>2. n \in S
      BY <2>1, <2>3 DEF Holders
    <3> HIDE DEF n, S
    <3>3. f[n] = T \o RestOf(F, n)
      BY <3>1, <3>2
    <3>4. f[n] = m
      BY <2>3, <3>1, <3>3
    <3> HIDE DEF f
    <3> QED BY <3>2, <3>4
  <2> QED BY <2>1, <2>2, <2>3 DEF IsMove
<1>6. ASSUME NEW n \in S, NEW m \in S, f[n] = f[m] PROVE n = m
  <2>1. n \in DOMAIN t /\ m \in DOMAIN t
    BY DEF Holders
  <2>2. ASSUME NEW k \in S, IsPrefix(F, k)
        PROVE  f[k] = T \o RestOf(F, k) /\ RestOf(F, k) \in Nodes /\ F \o RestOf(F, k) = k
               /\ RestOf(T, f[k]) = RestOf(F, k) /\ IsPrefix(T, f[k])
    <3>1. f[k] = T \o RestOf(F, k)
      BY <2>2
    <3>2. RestOf(F, k) \in Nodes /\ F \o RestOf(F, k) = k
      BY <1>3, <2>2
    <3> DEFINE r == RestOf(F, k)
    <3> HIDE DEF r
    <3>3. RestOf(T, T \o r) = r /\ IsPrefix(T, T \o r)
      BY <3>2, RestOfNode DEF Nodes, r
    <3> QED BY <3>1, <3>2, <3>3 DEF r
  <2>3. ASSUME NEW k \in S, ~IsPrefix(F, k) PROVE f[k] = k
    BY <2>3
  <2> HIDE DEF f, S
  <2>4. CASE IsPrefix(F, n) /\ IsPrefix(F, m)
    <3>1. RestOf(F, n) = RestOf(F, m)
      BY <1>6, <2>2, <2>4
    <3> QED BY <2>2, <2>4, <3>1
  <2>5. CASE IsPrefix(F, n) /\ ~IsPrefix(F, m)
    BY <1>2, <1>6, <2>1, <2>2, <2>3, <2>5
  <2>6. CASE ~IsPrefix(F, n) /\ IsPrefix(F, m)
    BY <1>2, <1>6, <2>1, <2>2, <2>3, <2>6
  <2>7. CASE ~IsPrefix(F, n) /\ ~IsPrefix(F, m)
    BY <1>6, <2>3, <2>7
  <2> QED BY <2>4, <2>5, <2>6, <2>7
<1>7. \A n \in S : f[n] \in R
  BY <1>3, <1>4
<1> HIDE DEF f, S, R
<1>8. Cardinality(R) = Cardinality(S)
  BY <1>1, <1>5, <1>6, <1>7, ImageIsFinite
<1> QED BY <1>8 DEF R, S

\* What a single move may rely on.
MayMove(t, from, to) ==
    /\ from \in Paths /\ to \in Paths \ {<<>>}
    /\ HasField(t, from) /\ ~HasField(t, to) /\ ~Comparable(to, from) /\ FreeWay(t, to)

\* The same for fields.
LEMMA OneMoveKeepsHolders ==
    ASSUME NEW t, IsTree(t), NEW from, NEW to, MayMove(t, from, to)
    PROVE  SameHolders(MoveField(t, from, to), t)
<1> DEFINE F == NodeOf(from)
           T == NodeOf(to)
           s == MoveField(t, from, to)
<1>1. IsMove(s, t, F, T)
  BY MoveFieldMoves DEF MayMove
<1>2. F \in Nodes /\ T \in Nodes /\ F \in DOMAIN t /\ T \notin DOMAIN t
  BY NodeOfPath DEF MayMove, HasField
<1>3. \A m \in DOMAIN t : Above(m, T) => t[m] = Map
  <2> SUFFICES ASSUME NEW m \in DOMAIN t, Above(m, T) PROVE t[m] = Map
    OBVIOUS
  <2>1. m \in Nodes
    BY TreeByNodes
  <2>2. m \in Prefixes(T) \ {T}
    BY <1>2, <2>1, PrefixesOf DEF Above, Nodes
  <2> QED BY <2>2 DEF MayMove, FreeWay
<1> HIDE DEF F, T, s
<1>4. SameHolders(s, t)
  BY <1>1, <1>2, <1>3, MoveKeepsHolders
<1> QED BY <1>4 DEF s

\* What a move does to the fields at other paths.
LEMMA MoveElsewhere ==
    ASSUME NEW t, IsTree(t), NEW from, NEW to, MayMove(t, from, to)
    PROVE  /\ \A p \in Paths : ~Comparable(to, p) =>
                 (HasField(MoveField(t, from, to), p) => HasField(t, p))
           /\ ~HasField(MoveField(t, from, to), from)
           /\ \A p \in Paths : p = to \/ ~Comparable(to, p) =>
                 (FreeWay(t, p) => FreeWay(MoveField(t, from, to), p))
<1> DEFINE F == NodeOf(from)
           T == NodeOf(to)
           s == MoveField(t, from, to)
<1>1. IsMove(s, t, F, T) /\ IsTree(s)
  BY MoveFieldMoves, MoveFieldIsTree DEF MayMove
<1>2. F \in Nodes /\ T \in Nodes /\ DOMAIN t \subseteq Nodes /\ DOMAIN s \subseteq Nodes
  BY <1>1, NodeOfPath, TreeByNodes DEF MayMove
<1>3. ~IsPrefix(F, T) /\ ~IsPrefix(T, F) /\ IsPrefix(F, F) /\ IsPrefix(T, T)
  BY <1>2, NodesComparable, PrefixIsOrder DEF MayMove, Comparable, Nodes
<1> HIDE DEF s
<1>4. \A r \in Nodes : T \o r \in Nodes /\ IsPrefix(T, T \o r)
  BY <1>2, RestOfNode DEF Nodes
<1>5. ASSUME NEW p \in Paths, ~Comparable(to, p), HasField(s, p) PROVE HasField(t, p)
  <2> DEFINE n == NodeOf(p)
  <2>1. n \in DOMAIN s /\ ~IsPrefix(T, n) /\ ~IsPrefix(n, T)
    BY <1>5, NodesComparable DEF Comparable, HasField, MayMove
  <2> HIDE DEF n
  <2>2. n \in DOMAIN t
    BY <1>1, <1>4, <2>1 DEF IsMove, Above
  <2> QED BY <1>5, <2>2 DEF HasField, n
<1>6. ~HasField(s, from)
  <2>1. F \notin DOMAIN s
    <3> HIDE DEF F, T
    <3> QED BY <1>1, <1>3, <1>4 DEF IsMove, Above
  <2> QED BY <2>1 DEF HasField
<1>7. ASSUME NEW p \in Paths, p = to \/ ~Comparable(to, p), FreeWay(t, p) PROVE FreeWay(s, p)
  <2> DEFINE P == NodeOf(p)
  <2>1. P \in Nodes /\ (P = T \/ ~IsPrefix(T, P))
    BY <1>7, NodeOfPath, NodesComparable DEF Comparable, MayMove
  <2>2. ASSUME NEW m \in Prefixes(P) \ {P}, m \in DOMAIN s PROVE s[m] = Map
    <3>1. m \in Nodes /\ IsPrefix(m, P) /\ m # P
      BY <1>2, <2>1, <2>2, PrefixesOf DEF Nodes
    <3>2. ~IsPrefix(T, m)
      BY <1>2, <2>1, <3>1, PrefixIsOrder DEF Nodes
    <3>3. m \in DOMAIN t => t[m] = Map
      BY <1>7, <2>2 DEF FreeWay
    <3> HIDE DEF P, T, F
    <3> QED BY <1>1, <1>4, <2>2, <3>2, <3>3 DEF IsMove
  <2> QED BY <2>2 DEF FreeWay
<1> QED BY <1>5, <1>6, <1>7 DEF s

\* What field.rename keeps while it moves one field after the other.
RenameGoes(t, x, mappings, k) ==
    /\ IsTree(x)
    /\ SameHolders(x, t)
    /\ \A m \in Range(mappings) : FreeWay(x, m[2])
    /\ \A m \in Range(mappings) : HasField(x, m[1]) => HasField(t, m[1])
    /\ \A m \in Range(mappings) : HasField(x, m[2]) =>
          \/ HasField(t, m[2])
          \/ \E j \in 1 .. k : /\ mappings[j][2] = m[2]
                               /\ HasField(t, mappings[j][1]) /\ ~HasField(x, mappings[j][1])

\* Without a conflict, a field that is to be renamed is the only one with its
\* target, and the target is not there.
LEMMA NoConflict ==
    ASSUME NEW t, NEW mappings \in Seq(Paths \X Paths), ~Conflict(t, mappings),
           NEW m \in Range(mappings), HasField(t, m[1]), m[1] # m[2]
    PROVE  /\ ~HasField(t, m[2])
           /\ \A l \in Range(mappings) : l[2] = m[2] /\ l[1] # m[2] /\ HasField(t, l[1]) => l = m
<1> DEFINE E == {s \in Range(mappings) : s[2] = m[2] /\ s[1] # m[2] /\ HasField(t, s[1])}
<1>1. m \in E
  OBVIOUS
<1>2. ~(Cardinality(E) > 1) /\ ~HasField(t, m[2])
  BY <1>1 DEF Conflict
<1>3. IsFiniteSet(E)
  <2>1. IsFiniteSet(Range(mappings))
    <3> DEFINE I == 1 .. Len(mappings)
               R == Range(mappings)
    <3>1. IsFiniteSet(I)
      BY FS_Interval
    <3>2. (\A k \in I : mappings[k] \in R) /\ (\A y \in R : \E k \in I : mappings[k] = y)
      BY DEF Range
    <3> HIDE DEF I, R
    <3>3. IsFiniteSet(R)
      BY <3>1, <3>2, ImageIsFinite
    <3> QED BY <3>3 DEF R
  <2> QED BY <2>1, FS_Subset
<1> HIDE DEF E
<1>4. ASSUME NEW l \in E PROVE l = m
  <2> SUFFICES ASSUME l # m PROVE FALSE
    OBVIOUS
  <2> DEFINE L == {l}
             P == L \cup {m}
  <2>1. IsFiniteSet(L) /\ Cardinality(L) = 1 /\ m \notin L
    BY FS_Singleton
  <2>2. P \in SUBSET E
    BY <1>1
  <2> HIDE DEF L
  <2>3. Cardinality(P) = Cardinality(L) + 1
    BY <2>1, FS_AddElement
  <2> HIDE DEF P
  <2>4. Cardinality(P) <= Cardinality(E) /\ Cardinality(E) \in Nat
    BY <1>3, <2>2, FS_Subset, FS_CardinalityType
  <2> QED BY <1>2, <2>1, <2>3, <2>4
<1> QED BY <1>2, <1>4 DEF E

\* The next of the moves of field.rename.
LEMMA RenameGoesOn ==
    ASSUME NEW t, NEW mappings \in Seq(Paths \X Paths), ~Conflict(t, mappings),
           KeepsClear(t, mappings), NEW k \in Nat, k + 1 <= Len(mappings),
           NEW x, RenameGoes(t, x, mappings, k)
    PROVE  RenameGoes(t, MoveField(x, mappings[k + 1][1], mappings[k + 1][2]), mappings, k + 1)
<1> DEFINE y == mappings[k + 1]
           from == y[1]
           to == y[2]
           s == MoveField(x, from, to)
<1>1. y \in Range(mappings) /\ from \in Paths /\ to \in Paths \ {<<>>} /\ k + 1 \in 1 .. k + 1
  <2>1. k + 1 \in DOMAIN mappings
    OBVIOUS
  <2>2. y \in Range(mappings) /\ y \in Paths \X Paths
    BY <2>1 DEF Range
  <2> QED BY <2>2 DEF KeepsClear
<1>2. \A m \in Range(mappings) :
        m[1] \in Paths /\ m[2] \in Paths /\ ~Comparable(to, m[1])
        /\ (m[2] = to \/ ~Comparable(to, m[2]))
  BY <1>1 DEF KeepsClear, Range
<1>3. \A j \in 1 .. k : mappings[j] \in Range(mappings)
  BY DEF Range
<1>4. 1 .. k + 1 = (1 .. k) \cup {k + 1}
  OBVIOUS
<1> HIDE DEF y
<1>x. /\ IsTree(x)
      /\ SameHolders(x, t)
      /\ \A m \in Range(mappings) : FreeWay(x, m[2])
      /\ \A m \in Range(mappings) : HasField(x, m[1]) => HasField(t, m[1])
      /\ \A m \in Range(mappings) : HasField(x, m[2]) =>
            \/ HasField(t, m[2])
            \/ \E j \in 1 .. k : /\ mappings[j][2] = m[2]
                                 /\ HasField(t, mappings[j][1]) /\ ~HasField(x, mappings[j][1])
  BY DEF RenameGoes
<1>5. CASE ~HasField(x, from)
  <2>1. s = x
    BY <1>5 DEF MoveField
  <2> HIDE DEF s
  <2>2. RenameGoes(t, s, mappings, k + 1)
    BY <1>4, <1>x, <2>1 DEF RenameGoes
  <2> QED BY <2>2 DEF s, y
<1>6. CASE HasField(x, from)
  <2>1. HasField(t, from) /\ from # to
    <3>1. from # to
      <4>1. IsPrefix(to, to)
        BY <1>1, PrefixIsOrder DEF Paths
      <4> QED BY <1>1, <1>2, <4>1 DEF Comparable
    <3> QED BY <1>1, <1>6, <1>x, <3>1
  <2>2. /\ ~HasField(t, to)
        /\ \A l \in Range(mappings) : l[2] = to /\ l[1] # to /\ HasField(t, l[1]) => l = y
    BY <1>1, <2>1, NoConflict
  <2>3. ~HasField(x, to)
    <3> SUFFICES ASSUME HasField(x, to) PROVE FALSE
      OBVIOUS
    <3>1. PICK j \in 1 .. k : /\ mappings[j][2] = to
                             /\ HasField(t, mappings[j][1]) /\ ~HasField(x, mappings[j][1])
      BY <1>1, <1>x, <2>2
    <3>2. mappings[j][1] # to
      BY <2>2, <3>1
    <3>3. mappings[j] = y
      BY <1>3, <2>2, <3>1, <3>2
    <3> QED BY <1>6, <3>1, <3>3
  <2>4. MayMove(x, from, to)
    BY <1>1, <1>2, <1>6, <1>x, <2>3 DEF MayMove
  <2> HIDE DEF from, to
  <2>5. IsTree(s) /\ SameHolders(s, x)
    BY <1>1, <1>x, <2>4, MoveFieldIsTree, OneMoveKeepsHolders
  <2>6. SameHolders(s, t)
    BY <1>x, <2>5 DEF SameHolders
  <2>7. /\ \A p \in Paths : ~Comparable(to, p) => (HasField(s, p) => HasField(x, p))
        /\ ~HasField(s, from)
        /\ \A p \in Paths : p = to \/ ~Comparable(to, p) => (FreeWay(x, p) => FreeWay(s, p))
    BY <1>x, <2>4, MoveElsewhere
  <2> HIDE DEF s
  <2>8. \A m \in Range(mappings) : FreeWay(s, m[2])
    BY <1>2, <1>x, <2>7
  <2>9. \A m \in Range(mappings) : HasField(s, m[1]) => HasField(x, m[1])
    BY <1>2, <2>7
  <2>10. \A m \in Range(mappings) : HasField(s, m[1]) => HasField(t, m[1])
    BY <1>x, <2>9
  <2>11. ASSUME NEW m \in Range(mappings), HasField(s, m[2])
         PROVE  \/ HasField(t, m[2])
                \/ \E j \in 1 .. k + 1 :
                      /\ mappings[j][2] = m[2]
                      /\ HasField(t, mappings[j][1]) /\ ~HasField(s, mappings[j][1])
    <3>1. CASE m[2] = to
      <4>1. mappings[k + 1][2] = m[2] /\ HasField(t, mappings[k + 1][1])
            /\ ~HasField(s, mappings[k + 1][1])
        BY <2>1, <2>7, <3>1 DEF y, from, to
      <4> QED BY <1>1, <4>1
    <3>2. CASE m[2] # to
      <4>1. HasField(x, m[2])
        BY <1>2, <2>7, <2>11, <3>2
      <4>2. CASE HasField(t, m[2])
        BY <4>2
      <4>3. CASE ~HasField(t, m[2])
        <5>1. PICK j \in 1 .. k : /\ mappings[j][2] = m[2]
                                 /\ HasField(t, mappings[j][1]) /\ ~HasField(x, mappings[j][1])
          BY <1>x, <4>1, <4>3
        <5>2. ~HasField(s, mappings[j][1]) /\ j \in 1 .. k + 1
          BY <1>3, <1>4, <2>9, <5>1
        <5> QED BY <5>1, <5>2
      <4> QED BY <4>2, <4>3
    <3> QED BY <3>1, <3>2
  <2>12. RenameGoes(t, s, mappings, k + 1)
    BY <2>5, <2>6, <2>8, <2>10, <2>11 DEF RenameGoes
  <2> QED BY <2>12 DEF s, from, to, y
<1> QED BY <1>5, <1>6

\* All moves of field.rename.
LEMMA RenameKeepsHolders ==
    ASSUME NEW t, IsTree(t), NEW mappings \in Seq(Paths \X Paths), ~Conflict(t, mappings),
           KeepsClear(t, mappings)
    PROVE  SameHolders(FoldLeft(LAMBDA x, m : MoveField(x, m[1], m[2]), t, mappings), t)
<1> DEFINE n == Len(mappings)
<1>1. PICK f : /\ IsRun(f, "rename", t, t, mappings, n)
               /\ f[n] = FoldLeft(LAMBDA x, m : MoveField(x, m[1], m[2]), t, mappings)
  BY RenameRun
<1> DEFINE S == {k \in Nat : k <= n => RenameGoes(t, f[k], mappings, k)}
<1>2. 0 \in S
  <2>1. f[0] = t
    BY <1>1 DEF IsRun
  <2>2. RenameGoes(t, t, mappings, 0)
    BY DEF RenameGoes, SameHolders, KeepsClear
  <2> QED BY <2>1, <2>2
<1>3. ASSUME NEW k \in Nat, k \in S PROVE k + 1 \in S
  <2> SUFFICES ASSUME k + 1 <= n PROVE RenameGoes(t, f[k + 1], mappings, k + 1)
    BY k + 1 \in Nat
  <2> DEFINE y == mappings[k + 1]
  <2>1. RenameGoes(t, f[k], mappings, k) /\ k + 1 \in 1 .. n /\ (k + 1) - 1 = k
    BY <1>3
  <2>2. f[k + 1] = MoveField(f[k], y[1], y[2])
    <3>1. f[k + 1] = FoldStep("rename", t, f[k], y)
      BY <1>1, <2>1 DEF IsRun
    <3> QED BY <3>1 DEF FoldStep
  <2>3. RenameGoes(t, MoveField(f[k], mappings[k + 1][1], mappings[k + 1][2]), mappings, k + 1)
    BY <2>1, RenameGoesOn
  <2> QED BY <2>2, <2>3
<1>4. Nat \subseteq S
  <2> HIDE DEF S
  <2> QED BY <1>2, <1>3, Induction
<1>5. SameHolders(f[n], t)
  BY <1>4 DEF RenameGoes
<1> QED BY <1>1, <1>5, Zenon

\* A value goes from its node to its dotted name.
LEMMA FlattenKeepsHolders ==
    ASSUME NEW t, IsTree(t), NamesDiffer(t), NEW f, IsFlat(f, t)
    PROVE  SameHolders(f, t)
<1> SUFFICES ASSUME NEW x PROVE Cardinality(Holders(f, x)) = Cardinality(Holders(t, x))
  BY DEF SameHolders
<1> DEFINE S == Holders(t, x)
           R == Holders(f, x)
           g == [n \in S |-> <<Dotted(n)>>]
<1>1. IsFiniteSet(S)
  BY HoldersFinite
<1>2. ASSUME NEW n \in S PROVE g[n] \in R
  <2>1. n \in Leaves(t) /\ x \in Range(t[n].items)
    BY HeldByLeaf DEF Holders
  <2>2. <<Dotted(n)>> \in DOMAIN f /\ f[<<Dotted(n)>>] = t[n]
    BY <2>1 DEF IsFlat
  <2> QED BY <2>1, <2>2 DEF Holders
<1>3. ASSUME NEW m \in R PROVE \E n \in S : g[n] = m
  <2>1. m \in DOMAIN f /\ x \in Range(f[m].items) /\ f[m] # Map
    BY HeldByLeaf DEF Holders
  <2>2. PICK n \in Leaves(t) : m = <<Dotted(n)>>
    BY <2>1 DEF IsFlat
  <2>3. n \in S
    BY <2>1, <2>2 DEF IsFlat, Holders, Leaves
  <2> QED BY <2>2, <2>3
<1>4. ASSUME NEW n \in S, NEW m \in S, g[n] = g[m] PROVE n = m
  <2>1. n \in Leaves(t) /\ m \in Leaves(t)
    BY HeldByLeaf
  <2>2. Dotted(n) = Dotted(m)
    BY <1>4
  <2> QED BY <2>1, <2>2 DEF NamesDiffer
<1> HIDE DEF S, R, g
<1>5. Cardinality(R) = Cardinality(S)
  BY <1>1, <1>2, <1>3, <1>4, ImageIsFinite
<1> QED BY <1>5 DEF S, R

\* A key does not come before itself.
LEMMA BeforeIsStrict ==
    ASSUME NEW k \in Paths
    PROVE  ~Before(k, k)
<1> SUFFICES ASSUME NEW j \in 1 .. Len(k), Rank(k[j]) < Rank(k[j]) PROVE FALSE
  BY DEF Before, Paths
<1>1. k[j] \in Words
  BY DEF Paths
<1>2. \E h \in DOMAIN WordOrder : WordOrder[h] = k[j]
  BY <1>1 DEF Words, Range
<1>3. Rank(k[j]) \in DOMAIN WordOrder
  BY <1>2 DEF Rank
<1>4. Rank(k[j]) \in Nat
  BY <1>3, WordOrderAssumption
<1> QED BY <1>4

\* No key occurs twice in the order.
LEMMA SortedOnce ==
    ASSUME NEW K, K \subseteq Paths, NEW s \in Sorted(K)
    PROVE  \A j \in 1 .. Len(s) : \A h \in 1 .. j - 1 : s[h] # s[j]
<1>1. s \in Seq(K) /\ DOMAIN s = 1 .. Len(s)
  BY SortedIsSeq
<1> SUFFICES ASSUME NEW j \in 1 .. Len(s), NEW h \in 1 .. j - 1, s[h] = s[j] PROVE FALSE
  OBVIOUS
<1>2. Before(s[h], s[j])
  <2>1. h \in DOMAIN s /\ j \in DOMAIN s /\ h < j
    BY <1>1
  <2> QED BY <2>1 DEF Sorted
<1>3. s[j] \in Paths
  BY <1>1
<1> QED BY <1>2, <1>3, BeforeIsStrict

\* A node is its key and the rest.
LEMMA NodeByKey ==
    ASSUME NEW t, IsTree(t), NEW n \in DOMAIN t \ {<<>>}
    PROVE  /\ n[1] \in TopKeys(t) /\ n[1] \in Paths
           /\ RestOf(<<n[1]>>, n) \in Nodes /\ <<n[1]>> \o RestOf(<<n[1]>>, n) = n
<1>1. n[1] \in TopKeys(t)
  BY DEF TopKeys
<1>2. n[1] \in Paths
  BY <1>1, TopKeysLead
<1>3. n \in Seq(Paths) /\ n # <<>>
  BY TreeByNodes DEF Nodes
<1> DEFINE m == <<n[1]>>
<1>4. m \in Seq(Paths) /\ Len(m) = 1 /\ m[1] = n[1]
  BY <1>2
<1> HIDE DEF m
<1>5. IsPrefix(m, n)
  BY <1>3, <1>4, PrefixByItems
<1>6. RestOf(m, n) \in Nodes /\ m \o RestOf(m, n) = n
  BY <1>3, <1>4, <1>5, RestOfNode DEF Nodes
<1> QED BY <1>1, <1>2, <1>6 DEF m

\* A node keeps its dotted name when its key is taken apart.
LEMMA DottedPlace ==
    ASSUME NEW k \in Paths, NEW r \in Nodes
    PROVE  Dotted(NodeOf(k) \o r) = Dotted(<<k>> \o r)
<1> DEFINE a == NodeOf(k)
           b == <<k>>
<1>1. a \in Nodes /\ b \in Nodes /\ Dotted(a) = k /\ Dotted(b) = k
  BY NodeOfPath, DottedKey, DottedOfPath
<1> HIDE DEF a, b
<1>2. Dotted(a \o r) = k \o Dotted(r) /\ Dotted(b \o r) = k \o Dotted(r)
  BY <1>1, DottedConcat
<1> QED BY <1>2 DEF a, b

\* s has the values of t that are under the keys in K, and no others, each key
\* taken apart.
Placed(s, t, K) ==
    /\ \A k \in K : \A r \in Nodes :
          <<k>> \o r \in Leaves(t) =>
             NodeOf(k) \o r \in DOMAIN s /\ s[NodeOf(k) \o r] = t[<<k>> \o r]
    /\ \A m \in Leaves(s) : \E k \in K : \E r \in Nodes :
          m = NodeOf(k) \o r /\ <<k>> \o r \in Leaves(t)

\* setNested of one key more, if it does not fail: nothing that has been placed
\* is in its way or below it, since no name goes through that of a value.
LEMMA PlacedOneMore ==
    ASSUME NEW t, IsTree(t), NamesApart(t), NEW K, K \subseteq TopKeys(t),
           NEW s, IsPayload(s), Placed(s, t, K),
           NEW y \in TopKeys(t), y \notin K, SetNested(s, y, Under(t, y)).ok
    PROVE  Placed(SetField(s, y, Under(t, y)), t, K \cup {y})
<1> DEFINE N == NodeOf(y)
           u == Under(t, y)
           new == SetField(s, y, u)
<1>1. y \in Paths /\ <<y>> \in DOMAIN t /\ N \in Nodes /\ IsTree(s) /\ s[<<>>] = Map
      /\ DOMAIN s \subseteq Nodes /\ <<>> \in DOMAIN s /\ DOMAIN t \subseteq Nodes
  BY TopKeysLead, NodeOfPath, TreeByNodes DEF IsPayload
<1>2. /\ \A m \in DOMAIN s : Above(m, N) => s[m] = Map
      /\ N \in DOMAIN s => s[N] # Map
  <2>1. /\ \A m \in Prefixes(N) \ {N} : m \in DOMAIN s => s[m] = Map
        /\ N \in DOMAIN s => s[N] # Map
    BY DEF SetNested
  <2>2. \A m \in DOMAIN s : Above(m, N) => m \in Prefixes(N) \ {N}
    BY <1>1, PrefixesOf DEF Above, Nodes
  <2> QED BY <2>1, <2>2
<1>3. y # <<>>
  <2>1. NodeOf(<<>>) = <<>>
    BY DEF NodeOf
  <2> QED BY <1>1, <1>2, <2>1
<1>4. N \notin DOMAIN s
  <2> SUFFICES ASSUME N \in DOMAIN s PROVE FALSE
    OBVIOUS
  <2>1. N \in Leaves(s)
    BY <1>2 DEF Leaves
  <2>2. PICK k \in K : \E r \in Nodes : N = NodeOf(k) \o r /\ <<k>> \o r \in Leaves(t)
    BY <2>1 DEF Placed
  <2>3. PICK r \in Nodes : N = NodeOf(k) \o r /\ <<k>> \o r \in Leaves(t)
    BY <2>2
  <2> DEFINE l == <<k>> \o r
  <2>4. k \in Paths /\ l \in Leaves(t) /\ l \in Nodes
    BY <1>1, <2>3, TopKeysLead DEF Leaves
  <2>5. Dotted(l) = y
    BY <1>1, <2>3, <2>4, DottedPlace, DottedOfPath
  <2>6. Dotted(<<y>>) = y
    BY <1>1, DottedKey
  <2>7. l # <<y>>
    <3>1. l[1] = k
      BY <2>4 DEF Nodes
    <3>2. k # y
      OBVIOUS
    <3> HIDE DEF l
    <3> QED BY <3>1, <3>2
  <2> HIDE DEF l
  <2>8. IsPrefix(y, y)
    BY <1>1, PrefixIsOrder DEF Paths
  <2> DEFINE b == <<y>>
  <2>9. b \in DOMAIN t \ {l} /\ IsPrefix(Dotted(l), Dotted(b))
    BY <1>1, <2>5, <2>6, <2>7, <2>8
  <2> HIDE DEF b
  <2> QED BY <2>4, <2>9 DEF NamesApart
<1>5. \A m \in DOMAIN s : ~IsPrefix(N, m)
  BY <1>1, <1>4, TreeByNodes DEF Above
<1>6. IsTree(u) /\ DOMAIN u = {r \in Nodes : <<y>> \o r \in DOMAIN t}
      /\ \A r \in DOMAIN u : u[r] = t[<<y>> \o r]
  BY UnderIsTree, UnderNodes
<1> HIDE DEF u, new
<1>7. HasAt(new, s, N, u)
  BY <1>1, <1>3, <1>6, SetFieldNodes DEF new
<1> HIDE DEF N
<1>8. ASSUME NEW k \in K \cup {y}, NEW r \in Nodes, <<k>> \o r \in Leaves(t)
      PROVE  NodeOf(k) \o r \in DOMAIN new /\ new[NodeOf(k) \o r] = t[<<k>> \o r]
  <2>1. CASE k \in K
    <3> DEFINE m == NodeOf(k) \o r
    <3>1. m \in DOMAIN s /\ s[m] = t[<<k>> \o r] /\ s[m] # Map
      BY <1>8, <2>1 DEF Placed, Leaves
    <3> HIDE DEF m
    <3>2. ~IsPrefix(N, m) /\ ~IsPrefix(m, N)
      BY <1>2, <1>4, <1>5, <3>1 DEF Above
    <3>3. m \in DOMAIN new /\ new[m] = s[m]
      BY <1>7, <3>1, <3>2 DEF HasAt
    <3> QED BY <3>1, <3>3 DEF m
  <2>2. CASE k = y
    <3>1. r \in DOMAIN u /\ u[r] = t[<<y>> \o r]
      BY <1>6, <1>8, <2>2 DEF Leaves
    <3>2. N \o r \in DOMAIN new /\ new[N \o r] = u[r]
      BY <1>7, <3>1 DEF HasAt
    <3> QED BY <2>2, <3>1, <3>2 DEF N
  <2> QED BY <2>1, <2>2
<1>9. ASSUME NEW m \in Leaves(new)
      PROVE  \E k \in K \cup {y} : \E r \in Nodes :
                m = NodeOf(k) \o r /\ <<k>> \o r \in Leaves(t)
  <2>0. m \in DOMAIN new /\ new[m] # Map
    BY DEF Leaves
  <2>1. ~(m \in Nodes /\ Above(m, N))
    BY <1>7, <2>0 DEF HasAt
  <2>2. CASE m \in DOMAIN s
    <3>1. ~IsPrefix(N, m) /\ ~IsPrefix(m, N)
      BY <1>1, <1>4, <1>5, <2>1, <2>2 DEF Above
    <3>2. m \in Leaves(s)
      BY <1>7, <2>0, <2>2, <3>1 DEF HasAt, Leaves
    <3> QED BY <3>2 DEF Placed
  <2>3. ASSUME NEW r \in DOMAIN u, m = N \o r
        PROVE  \E k \in K \cup {y} : \E q \in Nodes :
                  m = NodeOf(k) \o q /\ <<k>> \o q \in Leaves(t)
    <3>1. r \in Nodes /\ <<y>> \o r \in DOMAIN t /\ u[r] = t[<<y>> \o r]
      BY <1>6
    <3>2. u[r] # Map
      BY <1>7, <2>0, <2>3 DEF HasAt
    <3>3. <<y>> \o r \in Leaves(t)
      BY <3>1, <3>2 DEF Leaves
    <3> QED BY <2>3, <3>1, <3>3 DEF N
  <2> QED BY <1>7, <2>0, <2>1, <2>2, <2>3 DEF HasAt
<1>10. Placed(new, t, K \cup {y})
  BY <1>8, <1>9 DEF Placed
<1> QED BY <1>10 DEF new, u

\* Where the value at a node goes when its key is taken apart.
Place(n) == NodeOf(n[1]) \o RestOf(<<n[1]>>, n)

\* The fold of field.unflatten takes every key apart.
LEMMA UnflattenPlaces ==
    ASSUME NEW t, IsPayload(t), NamesApart(t), NEW keys \in Sorted(TopKeys(t)),
           UnflattenKeys(t, keys).ok
    PROVE  Placed(UnflattenKeys(t, keys).tree, t, TopKeys(t))
<1> DEFINE len == Len(keys)
           At(k) == {keys[j] : j \in 1 .. k}
<1>1. IsTree(t) /\ TopKeys(t) \subseteq Paths
  BY TopKeysLead DEF IsPayload
<1>2. keys \in Seq(TopKeys(t)) /\ Range(keys) = TopKeys(t) /\ len \in Nat
  BY SortedIsSeq
<1>3. \A j \in 1 .. len : \A h \in 1 .. j - 1 : keys[h] # keys[j]
  BY <1>1, SortedOnce
<1>4. PICK g : IsRun(g, "unflatten", t, Nothing, keys, len) /\ g[len] = UnflattenKeys(t, keys)
  BY <1>2, UnflattenRun
<1> DEFINE S == {k \in Nat : k <= len /\ g[k].ok =>
                    IsPayload(g[k].tree) /\ Placed(g[k].tree, t, At(k))}
<1>5. 0 \in S
  <2>1. g[0].tree = Leaf(Map) /\ At(0) = {}
    BY <1>4 DEF IsRun, Nothing
  <2>2. IsTree(Leaf(Map)) /\ DOMAIN Leaf(Map) = {<<>>} /\ Leaf(Map)[<<>>] = Map
    BY LeafIsTree
  <2>3. IsPayload(Leaf(Map)) /\ Placed(Leaf(Map), t, {})
    BY <2>2 DEF IsPayload, Placed, Leaves
  <2> QED BY <2>1, <2>3
<1>6. ASSUME NEW k \in Nat, k \in S PROVE k + 1 \in S
  <2> SUFFICES ASSUME k + 1 <= len, g[k + 1].ok
               PROVE  IsPayload(g[k + 1].tree) /\ Placed(g[k + 1].tree, t, At(k + 1))
    BY k + 1 \in Nat
  <2> DEFINE y == keys[k + 1]
             x == g[k]
             s == x.tree
             u == Under(t, y)
  <2>1. k + 1 \in 1 .. len /\ (k + 1) - 1 = k /\ k <= len /\ y \in TopKeys(t)
    BY <1>2
  <2>2. g[k + 1] = IF x.ok THEN SetNested(s, y, u) ELSE x
    <3>1. g[k + 1] = FoldStep("unflatten", t, x, y)
      BY <1>4, <2>1 DEF IsRun
    <3> QED BY <3>1 DEF FoldStep
  <2>3. x.ok /\ g[k + 1] = SetNested(s, y, u)
    BY <2>2
  <2>4. IsPayload(s) /\ Placed(s, t, At(k))
    BY <1>6, <2>1, <2>3
  <2>5. y \notin At(k) /\ At(k) \subseteq TopKeys(t)
    <3>1. \A j \in 1 .. k : j \in 1 .. len /\ j \in 1 .. (k + 1) - 1
      BY <2>1
    <3>2. \A j \in 1 .. k : keys[j] # y /\ keys[j] \in TopKeys(t)
      BY <1>2, <1>3, <2>1, <3>1
    <3> HIDE DEF y
    <3> QED BY <3>2
  <2>6. At(k + 1) = At(k) \cup {y}
    <3>1. 1 .. k + 1 = (1 .. k) \cup {k + 1}
      OBVIOUS
    <3> HIDE DEF y
    <3> QED BY <3>1 DEF y
  <2>7. IsTree(u)
    BY <1>1, <2>1, UnderIsTree
  <2> HIDE DEF At, y, s, u, x
  <2>8. g[k + 1].tree = SetField(s, y, u) /\ SetNested(s, y, u).ok
    BY <2>3 DEF SetNested
  <2>9. Placed(SetField(s, y, u), t, At(k) \cup {y})
    BY <1>1, <2>1, <2>4, <2>5, <2>8, PlacedOneMore DEF u
  <2>10. IsPayload(SetField(s, y, u))
    BY <1>1, <2>1, <2>4, <2>7, SetFieldIsPayload
  <2> QED BY <2>6, <2>8, <2>9, <2>10
<1>7. Nat \subseteq S
  <2> HIDE DEF S
  <2> QED BY <1>5, <1>6, Induction
<1>8. Placed(g[len].tree, t, At(len))
  <2>1. g[len].ok
    BY <1>4, Zenon
  <2>2. len \in S
    BY <1>2, <1>7
  <2>3. len <= len
    BY <1>2
  <2> HIDE DEF At, len
  <2> QED BY <2>1, <2>2, <2>3
<1>9. At(len) = TopKeys(t)
  BY <1>2 DEF Range
<1> QED BY <1>4, <1>8, <1>9

\* A value goes from its node to its place, and no two of them to the same.
LEMMA UnflattenKeepsHolders ==
    ASSUME NEW t, IsPayload(t), NamesApart(t), NEW keys \in Sorted(TopKeys(t)),
           UnflattenKeys(t, keys).ok
    PROVE  SameHolders(UnflattenKeys(t, keys).tree, t)
<1> DEFINE s == UnflattenKeys(t, keys).tree
<1>1. Placed(s, t, TopKeys(t))
  BY UnflattenPlaces
<1> HIDE DEF s
<1> SUFFICES ASSUME NEW x PROVE Cardinality(Holders(s, x)) = Cardinality(Holders(t, x))
  BY DEF SameHolders, s
<1> DEFINE S == Holders(t, x)
           R == Holders(s, x)
           g == [n \in S |-> Place(n)]
<1>2. IsTree(t) /\ t[<<>>] = Map /\ IsFiniteSet(S) /\ DOMAIN t \subseteq Nodes
  BY HoldersFinite, TreeByNodes DEF IsPayload
<1>3. ASSUME NEW n \in S
      PROVE  /\ n \in Leaves(t) /\ n \in DOMAIN t /\ n \in Nodes /\ x \in Range(t[n].items)
             /\ n[1] \in TopKeys(t) /\ n[1] \in Paths
             /\ RestOf(<<n[1]>>, n) \in Nodes /\ <<n[1]>> \o RestOf(<<n[1]>>, n) = n
  <2>1. n \in Leaves(t) /\ n \in DOMAIN t /\ n # <<>> /\ x \in Range(t[n].items)
    BY <1>2, HeldByLeaf DEF Holders
  <2>2. n \in DOMAIN t \ {<<>>}
    BY <2>1
  <2> QED BY <1>2, <2>1, <2>2, NodeByKey
<1>4. ASSUME NEW n \in S PROVE g[n] \in R
  <2> DEFINE r == RestOf(<<n[1]>>, n)
             k == n[1]
  <2>1. r \in Nodes /\ k \in TopKeys(t) /\ <<k>> \o r = n /\ n \in Leaves(t)
    BY <1>3
  <2>2. g[n] = NodeOf(k) \o r
    BY DEF Place
  <2> HIDE DEF r, k
  <2>3. NodeOf(k) \o r \in DOMAIN s /\ s[NodeOf(k) \o r] = t[n]
    BY <1>1, <2>1 DEF Placed
  <2> QED BY <1>3, <2>2, <2>3 DEF Holders
<1>5. ASSUME NEW m \in R PROVE \E n \in S : g[n] = m
  <2>1. m \in Leaves(s) /\ x \in Range(s[m].items)
    BY HeldByLeaf DEF Holders
  <2>2. PICK k \in TopKeys(t) : \E r \in Nodes : m = NodeOf(k) \o r /\ <<k>> \o r \in Leaves(t)
    BY <1>1, <2>1 DEF Placed
  <2>3. PICK r \in Nodes : m = NodeOf(k) \o r /\ <<k>> \o r \in Leaves(t)
    BY <2>2
  <2> DEFINE n == <<k>> \o r
  <2>4. k \in Paths
    BY <1>2, TopKeysLead
  <2>5. n[1] = k
    BY <2>3, <2>4 DEF Nodes
  <2>6. RestOf(<<k>>, n) = r
    <3> DEFINE b == <<k>>
    <3>1. b \in Nodes
      BY <2>4 DEF Nodes
    <3> HIDE DEF b
    <3>2. RestOf(b, b \o r) = r
      BY <3>1, RestOfNode DEF Nodes
    <3> QED BY <3>2 DEF b
  <2>7. s[m] = t[n]
    BY <1>1, <2>3 DEF Placed
  <2> HIDE DEF n
  <2>8. n \in S
    BY <2>1, <2>3, <2>7 DEF Holders, Leaves, n
  <2>9. g[n] = m
    BY <2>3, <2>5, <2>6, <2>8 DEF Place
  <2> HIDE DEF g, S
  <2> QED BY <2>8, <2>9
<1>6. ASSUME NEW n \in S, NEW m \in S, g[n] = g[m] PROVE n = m
  <2>1. ASSUME NEW l \in S PROVE Dotted(g[l]) = Dotted(l)
    <3> DEFINE r == RestOf(<<l[1]>>, l)
               k == l[1]
    <3>1. r \in Nodes /\ k \in Paths /\ <<k>> \o r = l
      BY <1>3
    <3>2. g[l] = NodeOf(k) \o r
      BY DEF Place
    <3> HIDE DEF r, k
    <3>3. Dotted(NodeOf(k) \o r) = Dotted(<<k>> \o r)
      BY <3>1, DottedPlace
    <3> QED BY <3>1, <3>2, <3>3
  <2> HIDE DEF g
  <2>2. Dotted(n) = Dotted(m)
    BY <1>6, <2>1
  <2>3. Dotted(n) \in Paths
    BY <1>3, DottedIsPath
  <2>4. IsPrefix(Dotted(n), Dotted(m))
    BY <2>2, <2>3, PrefixIsOrder DEF Paths
  <2> QED BY <1>3, <2>4 DEF NamesApart
<1> HIDE DEF S, R, g
<1>7. Cardinality(R) = Cardinality(S)
  BY <1>2, <1>4, <1>5, <1>6, ImageIsFinite
<1> QED BY <1>7 DEF S, R

\* field.extract without overwrite moves one field or none.
LEMMA ExtractKeepsHolders ==
    ASSUME NEW tr, NEW ev, IsEvent(ev), tr.source \in Paths, tr.target \in Paths,
           ~tr.overwrite, KeepsClear(ev.payload, <<<<tr.source, tr.target>>>>),
           NEW e, OneEvent(e) \in Extract(tr, ev)
    PROVE  SameHolders(e.payload, ev.payload)
<1> DEFINE t == ev.payload
           made == MoveField(t, tr.source, tr.target)
<1>1. IsTree(t)
  BY EventPayload DEF IsPayload
<1>2. CASE ~HasField(t, tr.source)
  <2>1. OneEvent(e) = OneEvent(ev)
    BY <1>2 DEF Extract
  <2>2. e = ev
    BY <2>1, SameEvent
  <2> QED BY <2>2 DEF SameHolders
<1>3. CASE HasField(t, tr.source)
  <2>1. OneEvent(e) # Error
    BY OneIsNone
  <2>2. ~HasField(t, tr.target) /\ OneEvent(e) = OneEvent(Copied(ev, made))
    BY <1>3, <2>1 DEF Extract
  <2>3. e.payload = made
    <3> HIDE DEF made
    <3>1. e = Copied(ev, made)
      BY <2>2, SameEvent
    <3> QED BY <3>1 DEF Copied
  <2> DEFINE m == <<tr.source, tr.target>>
             one == <<m>>
  <2>4. m \in Range(one) /\ m[1] = tr.source /\ m[2] = tr.target
    BY DEF Range
  <2>5. KeepsClear(t, one)
    OBVIOUS
  <2> HIDE DEF m, one
  <2>6. tr.target # <<>> /\ FreeWay(t, tr.target) /\ ~Comparable(tr.target, tr.source)
    BY <2>4, <2>5 DEF KeepsClear
  <2>7. MayMove(t, tr.source, tr.target)
    BY <1>3, <2>2, <2>6 DEF MayMove
  <2>8. SameHolders(made, t)
    BY <1>1, <2>7, OneMoveKeepsHolders
  <2> QED BY <2>3, <2>8
<1> QED BY <1>2, <1>3

\* What each of the transforms that move values does to them.
LEMMA MovingKeepsHolders ==
    ASSUME NEW tr, IsConfigured(tr), NEW ev, IsEvent(ev), Moves(tr, ev.payload),
           NEW e, OneEvent(e) \in ResultsOf(tr, ev)
    PROVE  SameHolders(e.payload, ev.payload)
<1> DEFINE t == ev.payload
<1>1. IsPayload(t) /\ IsTree(t) /\ OneEvent(e) # Error
  BY EventPayload, OneIsNone DEF IsPayload
<1>2. CASE tr.type = "field.rename"
  <2> DEFINE made == FoldLeft(LAMBDA x, m : MoveField(x, m[1], m[2]), t, tr.mappings)
  <2>1. tr.mappings \in Seq(Paths \X Paths) /\ KeepsClear(t, tr.mappings)
    BY <1>2, ConfiguredFields DEF Moves
  <2>2. OneEvent(e) \in Rename(tr, ev)
    BY <1>2 DEF ResultsOf
  <2>3. ~Conflict(t, tr.mappings) /\ OneEvent(e) = OneEvent(Copied(ev, made))
    BY <1>1, <2>2, Zenon DEF Rename
  <2>4. SameHolders(made, t)
    BY <1>1, <2>1, <2>3, RenameKeepsHolders
  <2> HIDE DEF made
  <2>5. e.payload = made
    BY <2>3, SameEvent DEF Copied
  <2> QED BY <2>4, <2>5
<1>3. CASE tr.type = "field.extract"
  <2>1. tr.source \in Paths /\ tr.target \in Paths
    BY <1>3, ConfiguredFields
  <2>2. ~tr.overwrite /\ KeepsClear(t, <<<<tr.source, tr.target>>>>)
    BY <1>3 DEF Moves
  <2>3. OneEvent(e) \in Extract(tr, ev)
    BY <1>3 DEF ResultsOf
  <2> QED BY <2>1, <2>2, <2>3, ExtractKeepsHolders
<1>4. CASE tr.type = "field.flatten"
  <2>1. OneEvent(e) \in Flatten(tr, ev) /\ NamesDiffer(t)
    BY <1>4 DEF ResultsOf, Moves
  <2>2. IsFlat(e.payload, t)
    BY <1>1, <2>1, FlattenIsFlat
  <2> QED BY <1>1, <2>1, <2>2, FlattenKeepsHolders
<1>5. CASE tr.type = "field.unflatten"
  <2>1. OneEvent(e) \in Unflatten(tr, ev) /\ NamesApart(t)
    BY <1>5 DEF ResultsOf, Moves
  <2>2. PICK keys \in Sorted(TopKeys(t)) :
          OneEvent(e) = IF UnflattenKeys(t, keys).ok
                        THEN OneEvent(Copied(ev, UnflattenKeys(t, keys).tree)) ELSE Error
    BY <2>1, Zenon DEF Unflatten, TopKeys
  <2> DEFINE end == UnflattenKeys(t, keys)
  <2>3. end.ok /\ OneEvent(e) = OneEvent(Copied(ev, end.tree))
    BY <1>1, <2>2
  <2>4. SameHolders(end.tree, t)
    BY <1>1, <2>1, <2>3, UnflattenKeepsHolders
  <2> HIDE DEF end
  <2>5. e.payload = end.tree
    BY <2>3, SameEvent DEF Copied
  <2> QED BY <2>4, <2>5
<1> QED BY <1>2, <1>3, <1>4, <1>5 DEF Moves

-----------------------------------------------------------------------------
(* The invariant of Execute                                                *)

\* Everything in the trace is what a transform made of the event before it;
\* headers only grow; events that are out are those of the latest transform.
PipelineInv ==
    /\ transforms \in Pipelines
    /\ PipelineTypeOK
    /\ \A k \in DOMAIN trace : trace[k].headers \subseteq Last(trace).headers
    /\ out.kind \notin {"events", "returned"} => out.events = <<>>
    /\ out.kind \in {"events", "returned"} =>
          /\ out.events # <<>>
          /\ AreItsEvents(Latest, Last(trace), out.events)
          /\ Len(trace) <= Len(transforms)
    /\ out.kind = "returned" => Len(trace) = Len(transforms)
    /\ \A k \in 1 .. Len(trace) - 1 :
          OneEvent(trace[k + 1]) \in ResultsOf(transforms[k], trace[k])

\* The event as it comes in.
LEMMA PipelineInvInit == PipelineInit => PipelineInv
<1> SUFFICES ASSUME PipelineInit PROVE PipelineInv
  OBVIOUS
<1>1. PICK p \in Payloads : trace = <<[payload |-> p, headers |-> {}]>>
  BY DEF PipelineInit
<1> DEFINE e == [payload |-> p, headers |-> {}]
<1>2. IsEvent(e) /\ e.headers = {}
  BY PayloadsAssumption DEF IsEvent
<1>3. /\ transforms \in Pipelines /\ out = [kind |-> "running", events |-> <<>>]
      /\ transforms \in Seq(Range(transforms)) \ {<<>>}
  BY PipelinesAssumption DEF PipelineInit
<1>4. Len(transforms) \in Nat
  BY <1>3
<1> HIDE DEF e
<1>5. trace = <<e>> /\ Len(trace) = 1 /\ DOMAIN trace = {1} /\ trace[1] = e
  BY <1>1 DEF e
<1>6. trace \in Seq(Range(trace)) /\ Last(trace) = e
  <2>1. e \in Range(trace)
    BY <1>5 DEF Range
  <2> QED BY <1>5, <2>1 DEF Last
<1>7. PipelineTypeOK
  BY <1>2, <1>3, <1>4, <1>5, <1>6 DEF PipelineTypeOK, Outs
<1>8. 1 .. Len(trace) - 1 = {}
  BY <1>5
<1> QED BY <1>2, <1>3, <1>5, <1>6, <1>7, <1>8 DEF PipelineInv

\* No step of Execute breaks the invariant.
LEMMA PipelineInvStep == PipelineInv /\ [PipelineNext]_pipelineVars => PipelineInv'
<1> SUFFICES ASSUME PipelineInv, [PipelineNext]_pipelineVars PROVE PipelineInv'
  OBVIOUS
<1>inv. /\ transforms \in Pipelines /\ trace \in Seq(Range(trace))
        /\ Len(trace) \in 1 .. Len(transforms) + 1
        /\ \A k \in DOMAIN trace : IsEvent(trace[k])
        /\ out \in [kind : Outs, events : {out.events}]
        /\ \A k \in DOMAIN out.events : IsEvent(out.events[k])
  BY DEF PipelineInv, PipelineTypeOK
<1>len. /\ Len(trace) \in Nat /\ DOMAIN trace = 1 .. Len(trace)
        /\ Len(transforms) \in Nat /\ DOMAIN transforms = 1 .. Len(transforms)
        /\ \A k \in DOMAIN transforms : IsConfigured(transforms[k])
  BY <1>inv, PipelinesAssumption
<1>last. Last(trace) = trace[Len(trace)] /\ IsEvent(Last(trace))
  BY <1>inv, <1>len DEF Last
<1>ends. ASSUME UNCHANGED <<transforms, trace>>, out' \in {Drop, Error}
         PROVE  PipelineInv'
  BY <1>ends, <1>inv DEF PipelineInv, PipelineTypeOK, Drop, Error, Outs
<1>1. CASE Transform
  <2> DEFINE tr == transforms[Len(trace)]
             ev == Last(trace)
  <2>1. out.kind = "running" /\ Len(trace) <= Len(transforms) /\ transforms' = transforms
    BY <1>1 DEF Transform
  <2>2. PICK r \in ResultsOf(tr, ev) :
          /\ trace' = IF r.kind = "running" THEN Append(trace, r.events[1]) ELSE trace
          /\ out' = CASE r.kind = "running" -> out
                      [] r.kind = "events" /\ r.events = <<>> -> Drop
                      [] OTHER -> r
    BY <1>1, Zenon DEF Transform
  <2>3. IsResult(r, ev) \/ IsSplitResult(r, tr, ev)
    <3>1. Len(trace) \in DOMAIN transforms
      BY <1>inv, <1>len, <2>1
    <3>2. IsConfigured(tr) /\ IsEvent(ev)
      BY <1>len, <1>last, <3>1
    <3> HIDE DEF tr, ev
    <3> QED BY <3>2, ResultsAreRight
  <2>4. CASE r \in {Drop, Error}
    <3>1. trace' = trace /\ out' = r
      BY <2>2, <2>4 DEF Drop, Error
    <3> QED BY <1>ends, <2>1, <2>4, <3>1
  <2>5. ASSUME NEW e, r = OneEvent(e), IsEvent(e), ev.headers \subseteq e.headers
        PROVE  PipelineInv'
    <3>1. trace' = Append(trace, e) /\ out' = out
      BY <2>2, <2>5 DEF OneEvent
    <3>2. /\ trace' \in Seq(Range(trace')) /\ Len(trace') = Len(trace) + 1
          /\ Last(trace') = e /\ DOMAIN trace' = DOMAIN trace \cup {Len(trace) + 1}
          /\ \A k \in DOMAIN trace : trace'[k] = trace[k]
          /\ trace'[Len(trace) + 1] = e
      BY <1>inv, <3>1, Appended
    <3>3. PipelineTypeOK'
      BY <1>inv, <1>len, <2>1, <2>5, <3>1, <3>2 DEF PipelineTypeOK
    <3>4. \A k \in DOMAIN trace' : trace'[k].headers \subseteq Last(trace').headers
      BY <2>5, <3>2 DEF PipelineInv
    <3>5. out'.kind = "running" /\ out'.events = <<>>
      BY <2>1, <3>1 DEF PipelineInv
    <3>6. ASSUME NEW k \in 1 .. Len(trace') - 1
          PROVE  OneEvent(trace'[k + 1]) \in ResultsOf(transforms[k], trace'[k])
      <4>1. k \in DOMAIN trace /\ (k = Len(trace) \/ k \in 1 .. Len(trace) - 1)
        <5>1. k \in 1 .. Len(trace)
          <6>1. Len(trace') = Len(trace) + 1
            BY <3>2
          <6>2. (Len(trace) + 1) - 1 = Len(trace)
            BY <1>len
          <6> QED BY <6>1, <6>2
        <5> DEFINE n == Len(trace)
        <5>2. n \in Nat /\ k \in 1 .. n /\ DOMAIN trace = 1 .. n
          BY <1>len, <5>1
        <5> HIDE DEF n
        <5>3. k = n \/ k \in 1 .. n - 1
          BY <5>2
        <5> QED BY <5>2, <5>3 DEF n
      <4>2. CASE k = Len(trace)
        <5>1. trace'[k + 1] = e /\ trace'[k] = ev
          BY <1>last, <3>2, <4>1, <4>2
        <5> QED BY <2>2, <2>5, <4>2, <5>1
      <4>3. CASE k \in 1 .. Len(trace) - 1
        <5>1. k + 1 \in DOMAIN trace
          BY <1>len, <4>3
        <5>2. OneEvent(trace[k + 1]) \in ResultsOf(transforms[k], trace[k])
          BY <4>3 DEF PipelineInv
        <5> QED BY <3>2, <4>1, <5>1, <5>2
      <4> QED BY <4>1, <4>2, <4>3
    <3> QED BY <1>inv, <2>1, <3>3, <3>4, <3>5, <3>6 DEF PipelineInv
  <2>6. CASE r = ManyEvents(<<>>)
    <3>1. trace' = trace /\ out' = Drop
      BY <2>2, <2>6 DEF ManyEvents
    <3> QED BY <1>ends, <2>1, <3>1
  <2>7. ASSUME NEW evs, r = ManyEvents(evs), evs # <<>>, AreItsEvents(tr, ev, evs)
        PROVE  PipelineInv'
    <3>1. trace' = trace /\ out' = [kind |-> "events", events |-> evs]
      BY <2>2, <2>7 DEF ManyEvents
    <3>2. \A k \in DOMAIN evs : IsEvent(evs[k])
      BY <2>7 DEF AreItsEvents, IsItsEvent
    <3>3. PipelineTypeOK'
      BY <1>inv, <2>1, <3>1, <3>2 DEF PipelineTypeOK, Outs
    <3>4. Latest' = tr /\ Last(trace)' = ev
      BY <2>1, <3>1 DEF Latest
    <3>5. AreItsEvents(Latest, Last(trace), out.events)'
      BY <2>7, <3>1, <3>4
    <3> QED BY <1>inv, <2>1, <2>7, <3>1, <3>3, <3>5 DEF PipelineInv
  <2> QED BY <2>3, <2>4, <2>5, <2>6, <2>7 DEF IsResult, IsSplitResult
<1>2. CASE TransformEvents
  BY <1>2, <1>ends DEF TransformEvents
<1>3. CASE ReturnResult
  <2>1. UNCHANGED <<transforms, trace>> /\ out'.events = out.events
        /\ out' \in [kind : Outs, events : {out.events}]
    BY <1>3, <1>inv DEF ReturnResult, Outs
  <2>2. PipelineTypeOK'
    BY <1>inv, <2>1 DEF PipelineTypeOK
  <2>3. CASE out.kind = "running" /\ out'.kind = "event"
    BY <2>1, <2>2, <2>3 DEF PipelineInv
  <2>4. CASE out.kind = "events" /\ out'.kind = "returned" /\ Len(trace) = Len(transforms)
    <3>1. AreItsEvents(Latest, Last(trace), out.events)'
      BY <2>1, <2>4 DEF PipelineInv, Latest
    <3> QED BY <2>1, <2>2, <2>4, <3>1 DEF PipelineInv
  <2> QED BY <1>3, <1>inv, <2>3, <2>4 DEF ReturnResult
<1>4. CASE ContextIsDone
  BY <1>4, <1>ends DEF ContextIsDone
<1>5. CASE UNCHANGED pipelineVars
  BY <1>5, <1>inv DEF PipelineInv, PipelineTypeOK, pipelineVars, Latest
<1> QED BY <1>1, <1>2, <1>3, <1>4, <1>5 DEF PipelineNext

\* The invariant holds always.
LEMMA PipelineIsInvariant == PipelineSpec => []PipelineInv
BY PipelineInvInit, PipelineInvStep, PTL DEF PipelineSpec

\* The payload of every event that Execute sees or returns is a tree of maps with
\* a map at the top, after any sequence of configured transforms: SetField,
\* RemoveField and the folds over them never leave a value on the way to
\* another.
THEOREM PipelineTypeCorrect == PipelineSpec => []PipelineTypeOK
<1>1. PipelineInv => PipelineTypeOK
  BY DEF PipelineInv
<1> QED BY <1>1, PipelineIsInvariant, PTL

\* No transform loses a header, and a split gives every header to each of its
\* events: the mark for the DLQ and that of a route once set by validate.* and
\* filter.route stay to the end, in any pipeline of these transforms.
THEOREM MarksAlwaysStay == PipelineSpec => []MarksStay
<1>1. PipelineInv => MarksStay
  <2> SUFFICES ASSUME PipelineInv, NEW k \in DOMAIN trace, NEW ev \in Current
               PROVE  trace[k].headers \subseteq ev.headers
    BY DEF MarksStay
  <2>1. trace[k].headers \subseteq Last(trace).headers
    BY DEF PipelineInv
  <2>2. CASE out.events = <<>>
    BY <2>1, <2>2 DEF Current
  <2>3. CASE out.events # <<>>
    <3>1. AreItsEvents(Latest, Last(trace), out.events)
      BY <2>3 DEF PipelineInv
    <3>2. PICK j \in DOMAIN out.events : ev = out.events[j]
      BY <2>3 DEF Current, Range
    <3>3. Last(trace).headers \subseteq ev.headers
      BY <3>1, <3>2 DEF AreItsEvents, IsItsEvent
    <3> QED BY <2>1, <3>3
  <2> QED BY <2>2, <2>3
<1> QED BY <1>1, PipelineIsInvariant, PTL

\* The events that Execute returns are those of its last transform, a split: one
\* for each item of the array or each match, with the item at the key and without
\* the array, and nothing else of the payload lost or added, for any payload and
\* any paths of field and key, also where one goes through the other.
THEOREM EveryItemAlwaysGetsItsEvent == PipelineSpec => []EveryItemGetsItsEvent
<1>1. PipelineInv => EveryItemGetsItsEvent
  <2> SUFFICES ASSUME PipelineInv, out.kind = "returned" PROVE EveryItemGetsItsEvent
    BY DEF EveryItemGetsItsEvent
  <2> DEFINE before == Last(trace).payload
             items == IF Latest.type = "split.regex"
                      THEN Matches
                      ELSE before[NodeOf(Latest.field)].items
  <2>1. Len(trace) = Len(transforms) /\ AreItsEvents(Latest, Last(trace), out.events)
    BY DEF PipelineInv
  <2>2. items = ItemsOf(Latest, before)
    BY DEF ItemsOf
  <2> HIDE DEF items
  <2>3. DOMAIN out.events = DOMAIN items
    BY <2>1, <2>2 DEF AreItsEvents
  <2>4. ASSUME NEW k \in DOMAIN items
        PROVE  IsItsEvent(Latest, Last(trace), items[k], out.events[k])
    BY <2>1, <2>2, <2>3 DEF AreItsEvents
  <2>5. ASSUME NEW k \in DOMAIN items
        PROVE  /\ IsPiece(Latest, before, items[k], out.events[k].payload)
               /\ \/ NodeOf(Latest.key) \in DOMAIN out.events[k].payload
                  \/ Latest.type # "filter.split"
                       /\ IsPrefix(NodeOf(Latest.field), NodeOf(Latest.key))
    BY <2>4 DEF IsItsEvent
  <2> QED BY <2>1, <2>3, <2>5, Zenon DEF EveryItemGetsItsEvent, items
<1> QED BY <1>1, PipelineIsInvariant, PTL

\* Execute never returns an empty list of events: a split that makes none drops
\* the event instead, and handler.go need not expect it.
THEOREM ReturnedEventsAreThere == PipelineSpec => [](out.kind = "returned" => out.events # <<>>)
<1>1. PipelineInv => (out.kind = "returned" => out.events # <<>>)
  BY DEF PipelineInv
<1> QED BY <1>1, PipelineIsInvariant, PTL

\* Every event of the trace is what the transform before it returned.
LEMMA TransformMade ==
    ASSUME PipelineInv, NEW k \in 1 .. Len(trace) - 1
    PROVE  /\ IsEvent(trace[k]) /\ IsEvent(trace[k + 1]) /\ IsConfigured(transforms[k])
           /\ OneEvent(trace[k + 1]) \in ResultsOf(transforms[k], trace[k])
<1>1. /\ Len(trace) \in 1 .. Len(transforms) + 1 /\ Len(transforms) \in Nat
      /\ DOMAIN trace = 1 .. Len(trace) /\ Len(trace) \in Nat
      /\ DOMAIN transforms = 1 .. Len(transforms)
      /\ \A j \in DOMAIN transforms : IsConfigured(transforms[j])
      /\ \A j \in DOMAIN trace : IsEvent(trace[j])
  BY PipelinesAssumption DEF PipelineInv, PipelineTypeOK
<1>2. k \in DOMAIN trace /\ k + 1 \in DOMAIN trace /\ k \in DOMAIN transforms
  BY <1>1
<1> QED BY <1>1, <1>2 DEF PipelineInv

\* field.unflatten right after field.flatten gives back the event, on every payload
\* of plain keys without empty maps and at every place of every pipeline: the
\* sorted keys never get in each other's way.  Flatten stands for flatten.go on
\* payloads of up to 100 levels; what lies deeper is lost there.
THEOREM UnflattenAlwaysUndoesFlatten == PipelineSpec => []UnflattenUndoesFlatten
<1>1. PipelineInv => UnflattenUndoesFlatten
  <2> SUFFICES ASSUME PipelineInv, NEW k \in 1 .. Len(trace) - 2,
                      transforms[k].type = "field.flatten",
                      transforms[k + 1].type = "field.unflatten",
                      Plain(trace[k].payload)
               PROVE  trace[k + 2] = trace[k]
    BY DEF UnflattenUndoesFlatten
  <2>1. k \in 1 .. Len(trace) - 1 /\ k + 1 \in 1 .. Len(trace) - 1 /\ (k + 1) + 1 = k + 2
    BY DEF PipelineInv, PipelineTypeOK
  <2>2. /\ IsEvent(trace[k]) /\ IsEvent(trace[k + 1])
        /\ OneEvent(trace[k + 1]) \in ResultsOf(transforms[k], trace[k])
        /\ OneEvent(trace[k + 2]) \in ResultsOf(transforms[k + 1], trace[k + 1])
    BY <2>1, TransformMade
  <2>3. /\ OneEvent(trace[k + 1]) \in Flatten(transforms[k], trace[k])
        /\ OneEvent(trace[k + 2]) \in Unflatten(transforms[k + 1], trace[k + 1])
    BY <2>2 DEF ResultsOf
  <2> QED BY <2>2, <2>3, FlattenThenUnflatten
<1> QED BY <1>1, PipelineIsInvariant, PTL

\* field.rename, field.extract, field.flatten and field.unflatten, where they do
\* not fail, keep every value at as many nodes as before: the conflict detection
\* of rename and extract and the order of the keys in unflatten suffice, whatever
\* the payload and however many mappings there are.
THEOREM MovesAlwaysKeepValues == PipelineSpec => []MovesKeepValues
<1>1. PipelineInv => MovesKeepValues
  <2> SUFFICES ASSUME PipelineInv, NEW k \in 1 .. Len(trace) - 1,
                      Moves(transforms[k], trace[k].payload),
                      NEW v \in Values(trace[k].payload) \cup Values(trace[k + 1].payload)
               PROVE  Cardinality(Holders(trace[k + 1].payload, v))
                        = Cardinality(Holders(trace[k].payload, v))
    BY DEF MovesKeepValues
  <2>1. SameHolders(trace[k + 1].payload, trace[k].payload)
    BY TransformMade, MovingKeepsHolders
  <2> QED BY <2>1 DEF SameHolders
<1> QED BY <1>1, PipelineIsInvariant, PTL
=============================================================================
