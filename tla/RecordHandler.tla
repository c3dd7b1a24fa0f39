--------------------------- MODULE RecordHandler ---------------------------
(***************************************************************************)
(* The record handler that startPipelineWorker (cmd/transform/main.go)     *)
(* hands to the consumer: one invocation, from the raw value to the error  *)
(* it returns.  It decodes the record, runs the pipeline, and sends every  *)
(* resulting event to its topic, with the dead letter queue (DLQ) for      *)
(* records it cannot decode or process, for events a transform has marked, *)
(* and as a fallback.  A send may fail at any time, and the handler's      *)
(* context may be done at any time (HandlerTimeout, or the consumer's      *)
(* Stop).                                                                  *)
(***************************************************************************)
EXTENDS Integers, Sequences, FiniteSets

CONSTANT MaxEvents   \* bound on the events one record is split into

ASSUME EventsAssumption == MaxEvents \in Nat \ {0}

VARIABLES
    dlqTopic,       \* PipelineConfig.DLQTopic, see DLQTopics
    pc,             \* where the handler is
    kind,           \* dynamic type of the pipeline's result
    result,         \* the events of the result
    i,              \* index of the event being delivered
    failedIndices,  \* events of a multi-event result not delivered
    ctxDone,        \* hctx is done
    ret,            \* what the handler returned
    outAcked,       \* history: events whose output topic acknowledged them
    dlqAcked,       \* history: events the DLQ acknowledged; 0 is the record
    processed,      \* increments of MessagesProcessed,
    dropped,        \*   MessagesDropped,
    sentToDLQ,      \*   MessagesSentToDLQ and
    routed          \*   RoutingMetrics by this invocation

config == <<dlqTopic>>
progress == <<kind, result, i, failedIndices>>
acks == <<outAcked, dlqAcked>>
counters == <<processed, dropped, sentToDLQ, routed>>
vars == <<dlqTopic, pc, kind, result, i, failedIndices, ctxDone, ret,
          outAcked, dlqAcked, processed, dropped, sentToDLQ, routed>>

(* An event as the handler tells them apart: does it carry _dlq_reason,    *)
(* does it carry _route_target, can its payload be marshalled.             *)
Event == [dlqReason : BOOLEAN, routeTarget : BOOLEAN, marshals : BOOLEAN]

Results == UNION {[1 .. n -> Event] : n \in 1 .. MaxEvents}

(* The dlq_topic of the pipeline, which the configuration does not         *)
(* validate: empty, white space only, a name with white space around it,   *)
(* or a name.                                                              *)
DLQTopics == {"unset", "blank", "padded", "set"}

Kinds == {"none", "Event", "[]Event", "other"}

PCs == {"decode", "execute", "recordToDLQ", "deliver", "fallback", "returned"}

TypeOK ==
    /\ dlqTopic \in DLQTopics
    /\ pc \in PCs
    /\ kind \in Kinds
    /\ result \in Results \cup {<<>>}
    /\ i \in 0 .. MaxEvents + 1
    /\ failedIndices \subseteq 1 .. MaxEvents
    /\ ctxDone \in BOOLEAN
    /\ ret \in {"none", "nil", "error"}
    /\ outAcked \subseteq 1 .. MaxEvents
    /\ dlqAcked \subseteq 0 .. MaxEvents
    /\ processed \in 0 .. 1
    /\ dropped \in 0 .. 1
    /\ sentToDLQ \in 0 .. MaxEvents
    /\ routed \in 0 .. MaxEvents

Init ==
    /\ dlqTopic \in DLQTopics
    /\ pc = "decode"
    /\ kind = "none"
    /\ result = <<>>
    /\ i = 0
    /\ failedIndices = {}
    /\ ctxDone \in BOOLEAN
    /\ ret = "none"
    /\ outAcked = {}
    /\ dlqAcked = {}
    /\ processed = 0
    /\ dropped = 0
    /\ sentToDLQ = 0
    /\ routed = 0

Return(r) == pc' = "returned" /\ ret' = r

\* strings.TrimSpace(info.cfg.DLQTopic) # "" guards the DLQ for the whole
\* record; the DLQ for marked events and the fallback test the raw string.
HasTrimmedDLQ == dlqTopic \in {"padded", "set"}
HasRawDLQ == dlqTopic # "unset"

\* Producer.Send acknowledges only in a live context, and no broker has a
\* topic with white space in its name.
CanSendToTrimmedDLQ == ~ctxDone /\ dlqTopic \in {"padded", "set"}
CanSendToRawDLQ == ~ctxDone /\ dlqTopic = "set"
CanSendToOutput == ~ctxDone

-----------------------------------------------------------------------------
(* The whole record                                                        *)

\* Fault in GiveUp: the error is returned after all.
DropWithError ==
    IF HasTrimmedDLQ
    THEN /\ pc' = "recordToDLQ"
         /\ UNCHANGED <<ret, dropped>>
    ELSE /\ dropped' = dropped + 1
         /\ Return("error")

\* What becomes of a record that cannot be decoded or processed.
GiveUp ==
    IF HasTrimmedDLQ
    THEN /\ pc' = "recordToDLQ"
         /\ UNCHANGED <<ret, dropped>>
    ELSE /\ dropped' = dropped + 1
         /\ Return("nil")

\* json.Unmarshal of the record's value.  (The lookup of the pipeline before
\* it succeeds: the consumer subscribes to the pipelines' input topics.)
Decode ==
    /\ pc = "decode"
    /\ \/ /\ pc' = "execute"
          /\ UNCHANGED <<ret, dropped>>
       \/ GiveUp
    /\ UNCHANGED <<config, progress, ctxDone, acks, processed, sentToDLQ, routed>>

\* Pipeline.Execute drops the record: ErrDrop.
ExecuteDrop ==
    /\ pc = "execute"
    /\ ~ctxDone
    /\ dropped' = dropped + 1
    /\ Return("nil")
    /\ UNCHANGED <<config, progress, ctxDone, acks, processed, sentToDLQ, routed>>

\* A transform fails, or the context is done before the next transform.
ExecuteError ==
    /\ pc = "execute"
    /\ GiveUp
    /\ UNCHANGED <<config, progress, ctxDone, acks, processed, sentToDLQ, routed>>

\* The pipeline succeeds, with one event, several (never none), or something
\* else, which is an error.  Config.Validate has made sure of an output topic.
ExecuteOK ==
    /\ pc = "execute"
    /\ ~ctxDone
    /\ \/ /\ kind' \in {"Event", "[]Event"}
          /\ result' \in Results
          /\ kind' = "Event" => Len(result') = 1
          /\ i' = 1
          /\ pc' = "deliver"
          /\ UNCHANGED ret
       \/ /\ kind' = "other"
          /\ Return("error")
          /\ UNCHANGED <<result, i>>
    /\ UNCHANGED <<config, failedIndices, ctxDone, acks, counters>>

\* The raw value, or what the pipeline made of it, goes to the DLQ.
RecordToDLQ ==
    /\ pc = "recordToDLQ"
    /\ \/ /\ CanSendToTrimmedDLQ
          /\ dlqAcked' = dlqAcked \cup {0}
          /\ sentToDLQ' = sentToDLQ + 1
          /\ Return("nil")
       \/ /\ Return("error")
          /\ UNCHANGED <<dlqAcked, sentToDLQ>>
    /\ UNCHANGED <<config, progress, ctxDone, outAcked, processed, dropped, routed>>

-----------------------------------------------------------------------------
(* The events of the result                                                *)

\* The event carries a _dlq_reason and there is a topic to send it to.
ToDLQ(e) == e.dlqReason /\ HasRawDLQ

\* On to the next event.
Advance == i' = i + 1 /\ pc' = "deliver" /\ UNCHANGED ret

\* Fault in Undelivered: continue without the append.
UndeliveredForgotten ==
    IF kind = "Event"
    THEN Return("error") /\ UNCHANGED <<i, failedIndices>>
    ELSE Advance /\ UNCHANGED failedIndices

\* Event i is not delivered: a single event fails the record at once, a
\* multi-event result goes on with the next event.
Undelivered ==
    IF kind = "Event"
    THEN Return("error") /\ UNCHANGED <<i, failedIndices>>
    ELSE Advance /\ failedIndices' = failedIndices \cup {i}

\* RoutingMetrics is incremented before the send is tried.
CountRoute ==
    routed' = IF result[i].routeTarget THEN routed + 1 ELSE routed

\* The event cannot be marshalled.
MarshalFails ==
    /\ pc = "deliver"
    /\ i \in 1 .. Len(result)
    /\ ~result[i].marshals
    /\ Undelivered
    /\ UNCHANGED <<config, kind, result, ctxDone, acks, counters>>

\* A marked event goes to the DLQ.
MarkedToDLQ ==
    /\ pc = "deliver"
    /\ i \in 1 .. Len(result)
    /\ result[i].marshals
    /\ ToDLQ(result[i])
    /\ \/ /\ CanSendToRawDLQ
          /\ dlqAcked' = dlqAcked \cup {i}
          /\ sentToDLQ' = sentToDLQ + 1
          /\ IF kind = "Event" THEN Return("nil") /\ UNCHANGED i ELSE Advance
          /\ UNCHANGED failedIndices
       \/ /\ Undelivered
          /\ UNCHANGED <<dlqAcked, sentToDLQ>>
    /\ UNCHANGED <<config, kind, result, ctxDone, outAcked, processed, dropped,
                   routed>>

\* Any other event goes to the output topic, or where it is routed.
SendToOutput ==
    /\ pc = "deliver"
    /\ i \in 1 .. Len(result)
    /\ result[i].marshals
    /\ ~ToDLQ(result[i])
    /\ CountRoute
    /\ \/ /\ CanSendToOutput
          /\ outAcked' = outAcked \cup {i}
          /\ IF kind = "Event"
             THEN processed' = processed + 1 /\ Return("nil") /\ UNCHANGED i
             ELSE Advance /\ UNCHANGED processed
          /\ UNCHANGED failedIndices
       \/ /\ IF kind = "[]Event" /\ HasRawDLQ
             THEN pc' = "fallback" /\ UNCHANGED <<ret, i, failedIndices>>
             ELSE Undelivered
          /\ UNCHANGED <<outAcked, processed>>
    /\ UNCHANGED <<config, kind, result, ctxDone, dlqAcked, dropped, sentToDLQ>>

\* The send of one event of several failed: try the DLQ.  The event counts
\* as failed in any case.
FallbackToDLQ ==
    /\ pc = "fallback"
    /\ \/ CanSendToRawDLQ /\ dlqAcked' = dlqAcked \cup {i}
       \/ UNCHANGED dlqAcked
    /\ failedIndices' = failedIndices \cup {i}
    /\ Advance
    /\ UNCHANGED <<config, kind, result, ctxDone, outAcked, counters>>

\* Fault in Finish: the counter is incremented before the check.
FinishCountsFirst ==
    /\ pc = "deliver"
    /\ kind = "[]Event"
    /\ i > Len(result)
    /\ processed' = processed + 1
    /\ Return(IF failedIndices # {} THEN "error" ELSE "nil")
    /\ UNCHANGED <<config, progress, ctxDone, acks, dropped, sentToDLQ, routed>>

\* All events of a multi-event result have been tried.
Finish ==
    /\ pc = "deliver"
    /\ kind = "[]Event"
    /\ i > Len(result)
    /\ IF failedIndices # {}
       THEN Return("error") /\ UNCHANGED processed
       ELSE Return("nil") /\ processed' = processed + 1
    /\ UNCHANGED <<config, progress, ctxDone, acks, dropped, sentToDLQ, routed>>

-----------------------------------------------------------------------------
\* The handler's timeout fires, or the consumer is stopped.
ContextDone ==
    /\ pc # "returned"
    /\ ~ctxDone
    /\ ctxDone' = TRUE
    /\ UNCHANGED <<config, pc, progress, ret, acks, counters>>

Step ==
    \/ Decode
    \/ ExecuteDrop
    \/ ExecuteError
    \/ ExecuteOK
    \/ RecordToDLQ
    \/ MarshalFails
    \/ MarkedToDLQ
    \/ SendToOutput
    \/ FallbackToDLQ
    \/ Finish

Next == Step \/ ContextDone

Spec == Init /\ [][Next]_vars

-----------------------------------------------------------------------------
Returned(r) == pc = "returned" /\ ret = r

\* Event j was acknowledged by the topic it belongs in.
Delivered(j) == j \in IF ToDLQ(result[j]) THEN dlqAcked ELSE outAcked

\* A nil return, which lets the loop commit the record, means the record was
\* dropped with nothing sent, or put whole into the DLQ, or every one of its
\* events was acknowledged where it belongs: no event is lost by a failure
\* or a timeout in the middle of a multi-event result.
NilMeansSettled ==
    Returned("nil") =>
        \/ dropped = 1 /\ outAcked = {} /\ dlqAcked = {}
        \/ dlqAcked = {0} /\ outAcked = {}
        \/ result # <<>> /\ \A j \in 1 .. Len(result) : Delivered(j)

\* An error return, which stops the whole fetch loop, never happens for a
\* record that has been settled.
ErrorMeansUnsettled ==
    Returned("error") =>
        /\ dropped = 0
        /\ 0 \notin dlqAcked
        /\ result = <<>> \/ \E j \in 1 .. Len(result) : ~Delivered(j)

\* The three message counters tell records apart: a record that returned nil
\* is counted as processed or as dropped or, when it or its only event went
\* to the DLQ, just there; one that returned an error is in neither of the
\* first two, so a redelivery does not count it twice.
CountedOnce ==
    /\ Returned("nil") =>
          processed + dropped + (IF kind # "[]Event" THEN sentToDLQ ELSE 0) = 1
    /\ Returned("error") => processed = 0 /\ dropped = 0
=============================================================================
