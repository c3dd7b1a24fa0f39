------------------------ MODULE CircuitBreakerProofs ------------------------
(***************************************************************************)
(* Proofs about CircuitBreaker, for any number of concurrent requests, any *)
(* thresholds and any timeout, and about the HttpClient that uses it, for  *)
(* any number of attempts.                                                 *)
(***************************************************************************)
EXTENDS HttpClient, TLAPS

USE ThresholdsAssumption, TimeoutAssumption, CapAssumption, MaxRetriesAssumption

\* What a request may have recorded, with nothing and with one more.
LEMMA ReportsGrow ==
    /\ <<>> \in Reports
    /\ \A s \in Reports : Append(s, "success") \in Reports /\ Append(s, "failure") \in Reports
BY DEF Reports

\* Each action keeps the types and the fit of the counters to the state.
\* CountersFitState is inductive together with the types.
LEMMA BreakerStep ==
    TypeOK /\ CountersFitState /\ [Next]_vars => TypeOK' /\ CountersFitState'
<1> SUFFICES ASSUME TypeOK, CountersFitState, [Next]_vars
             PROVE  TypeOK' /\ CountersFitState'
  OBVIOUS
<1> USE DEF TypeOK, CountersFitState, Ages
<1>1. ASSUME NEW r \in Requests, AllowRead(r) PROVE TypeOK' /\ CountersFitState'
  BY <1>1, ReportsGrow DEF AllowRead, breaker
<1>2. ASSUME NEW r \in Requests, AllowReject(r) PROVE TypeOK' /\ CountersFitState'
  BY <1>2 DEF AllowReject, breaker
<1>3. ASSUME NEW r \in Requests, AllowLocked(r) PROVE TypeOK' /\ CountersFitState'
  BY <1>3 DEF AllowLocked
<1>4. ASSUME NEW r \in Requests, RecordSuccess(r) PROVE TypeOK' /\ CountersFitState'
  BY <1>4, ReportsGrow DEF RecordSuccess
<1>5. ASSUME NEW r \in Requests, RecordFailure(r) PROVE TypeOK' /\ CountersFitState'
  BY <1>5, ReportsGrow DEF RecordFailure, Counted
<1>6. ASSUME NEW r \in Requests, Abandon(r) PROVE TypeOK' /\ CountersFitState'
  BY <1>6 DEF Abandon, breaker
<1>7. CASE Tick
  BY <1>7 DEF Tick, Older, breaker
<1>8. CASE UNCHANGED vars
  BY <1>8 DEF vars
<1> QED
  BY <1>1, <1>2, <1>3, <1>4, <1>5, <1>6, <1>7, <1>8 DEF Next, RequestStep

\* In every reachable state the counters fit the breaker's state, although
\* Allow decides on a state it read earlier and does not read it again.
THEOREM CountersAlwaysFit == Spec => [](TypeOK /\ CountersFitState)
<1>1. Init => TypeOK /\ CountersFitState
  BY ReportsGrow DEF Init, TypeOK, CountersFitState, Ages
<1> QED BY <1>1, BreakerStep, PTL DEF Spec

\* No request gets past an open breaker before the timeout has passed since
\* the latest failure: the second look at the clock, under the write lock,
\* is enough.
THEOREM NeverEarlyProbe == Spec => NoEarlyProbe
<1>1. TypeOK /\ [Next]_vars =>
        [\A r \in Requests :
            pc[r] = "deciding" /\ pc'[r] = "allowed" => age > OpenTimeout]_vars
  <2> SUFFICES ASSUME TypeOK, Next, NEW r \in Requests,
                      pc[r] = "deciding", pc'[r] = "allowed"
               PROVE  age > OpenTimeout
    OBVIOUS
  <2> USE DEF TypeOK
  <2>1. ASSUME NEW q \in Requests, RequestStep(q), q # r PROVE pc'[r] = pc[r]
    BY <2>1 DEF RequestStep, AllowRead, AllowReject, AllowLocked, RecordSuccess,
       RecordFailure, Abandon
  <2>2. ~Tick
    BY DEF Tick
  <2>3. RequestStep(r)
    BY <2>1, <2>2 DEF Next
  <2>4. AllowLocked(r)
    BY <2>3 DEF RequestStep, AllowRead, AllowReject, RecordSuccess, RecordFailure,
       Abandon
  <2> QED BY <2>4 DEF AllowLocked, Expired
<1> QED BY <1>1, CountersAlwaysFit, PTL DEF Spec, NoEarlyProbe

-----------------------------------------------------------------------------
(* HttpClient                                                              *)

\* Each step of the client is a step of the breaker, or leaves it alone.
LEMMA ClientStep == [HttpNext]_httpVars => [Next]_vars
<1> SUFFICES ASSUME [HttpNext]_httpVars PROVE [Next]_vars
  OBVIOUS
<1>1. ASSUME NEW r \in Requests, NEW o \in Ops, NEW u \in Urls, Begin(r, o, u)
      PROVE  UNCHANGED vars
  BY <1>1 DEF Begin, breaker, vars
<1>2. ASSUME NEW r \in Requests, Allow(r) PROVE RequestStep(r)
  BY <1>2 DEF Allow, RequestStep
<1>3. ASSUME NEW r \in Requests, Send(r) \/ Backoff(r) \/ BackoffCancelled(r) \/ Read(r)
      PROVE  UNCHANGED vars
  BY <1>3 DEF Send, Backoff, BackoffCancelled, Read, breaker, vars
<1>4. ASSUME NEW r \in Requests, Fails(r) \/ Succeeds(r) \/ AbandonPost(r)
      PROVE  RequestStep(r)
  BY <1>4 DEF Fails, Succeeds, AbandonPost, RequestStep
<1>5. ASSUME NEW u \in Urls, Forget(u) PROVE UNCHANGED vars
  BY <1>5 DEF Forget, breaker, vars
<1>6. CASE UNCHANGED httpVars
  BY <1>6 DEF httpVars, vars
<1> QED
  BY <1>1, <1>2, <1>3, <1>4, <1>5, <1>6 DEF HttpNext, CallStep, Next

\* So what is proved of the breaker alone holds of it in the client.
LEMMA BreakerInClient == HttpSpec => Spec
<1>1. HttpInit => Init
  BY DEF HttpInit
<1> QED
  BY <1>1, ClientStep, PTL DEF HttpSpec, Spec

\* The types the argument needs; url and cache do not matter to it.
ClientShape ==
    /\ op \in [Requests -> Ops]
    /\ step \in [Requests -> Steps]
    /\ outcome \in [Requests -> Outcomes]
    /\ open \in [Requests -> Nat]

\* How far a call is, what its outcome is so far and what the breaker has been
\* told of it.  BreakerToldOnce speaks of neither Allow nor the outcomes that
\* are possible at each step.
StepFitsBreaker ==
    \A r \in Requests :
        /\ step[r] = "allow" => /\ pc[r] \in {"idle", "deciding"}
                                /\ pc[r] = "deciding" => told[r] = <<>>
                                /\ outcome[r] = "refused"
        /\ step[r] \in {"send", "backoff", "result"} => /\ pc[r] = "allowed"
                                                        /\ told[r] = <<>>
                                                        /\ outcome[r] \in AttemptOutcomes
        /\ step[r] \in {"read", "idle"} => /\ pc[r] = "idle"
                                           /\ told[r] = Report(outcome[r])
        /\ step[r] = "read" => outcome[r] = "ok"

\* A call that is over its attempts has the body of its last response open,
\* if there is one.
OneBody ==
    \A r \in Requests :
        /\ step[r] \in {"idle", "allow", "send", "backoff"} => open[r] = 0
        /\ step[r] = "read" => open[r] = 1
        /\ step[r] = "result" => open[r] = (IF outcome[r] \in Statuses THEN 1 ELSE 0)

HInv == TypeOK /\ ClientShape /\ StepFitsBreaker /\ OneBody

\* The steps of a call keep the fit of client and breaker.  Another call's
\* entries are not touched.
LEMMA ClientKeepsFit ==
    ASSUME HInv, [HttpNext]_httpVars
    PROVE  ClientShape' /\ StepFitsBreaker' /\ OneBody'
<1> USE DEF HInv, TypeOK, ClientShape, StepFitsBreaker, OneBody, Ops, Steps,
            Statuses, AttemptOutcomes, Outcomes
<1>1. ASSUME NEW r \in Requests, NEW o \in Ops, NEW u \in Urls, Begin(r, o, u)
      PROVE  ClientShape' /\ StepFitsBreaker' /\ OneBody'
  BY <1>1 DEF Begin
<1>2. ASSUME NEW r \in Requests, Allow(r)
      PROVE  ClientShape' /\ StepFitsBreaker' /\ OneBody'
  <2>1. /\ step[r] = "allow"
        /\ UNCHANGED <<op, open>>
        /\ \A q \in Requests \ {r} : pc'[q] = pc[q] /\ told'[q] = told[q]
        /\ pc'[r] \in {"idle", "deciding", "allowed"}
        /\ told'[r] = <<>>
    BY <1>2 DEF Allow, AllowRead, AllowReject, AllowLocked
  <2>2. step' = [step EXCEPT ![r] =
                   IF pc'[r] = "allowed" THEN IF NoAttempts(r) THEN "result" ELSE "send"
                   ELSE IF pc'[r] = "deciding" THEN "allow" ELSE "idle"]
    BY <1>2, <2>1 DEF Allow
  <2>3. outcome' = [outcome EXCEPT ![r] =
                      IF pc'[r] = "allowed" THEN "error" ELSE "refused"]
    BY <1>2, <2>1 DEF Allow
  <2>4. Report("refused") = <<>>
    BY DEF Report
  <2> QED BY <2>1, <2>2, <2>3, <2>4
<1>3. ASSUME NEW r \in Requests, Send(r)
      PROVE  ClientShape' /\ StepFitsBreaker' /\ OneBody'
  BY <1>3 DEF Send, Retried
<1>4. ASSUME NEW r \in Requests, Backoff(r) \/ BackoffCancelled(r)
      PROVE  ClientShape' /\ StepFitsBreaker' /\ OneBody'
  <2>1. /\ step[r] = "backoff"
        /\ UNCHANGED <<pc, told, op, open>>
        /\ \/ step' = [step EXCEPT ![r] = "send"] /\ UNCHANGED outcome
           \/ /\ step' = [step EXCEPT ![r] = "result"]
              /\ \/ outcome' = [outcome EXCEPT ![r] = "error"]
                 \/ outcome' = [outcome EXCEPT ![r] = "ctxError"]
    BY <1>4 DEF Backoff, BackoffCancelled
  <2>2. ClientShape'
    BY <2>1
  <2>3. StepFitsBreaker'
    BY <2>1
  <2>4. OneBody'
    BY <2>1
  <2> QED BY <2>2, <2>3, <2>4
<1>5. ASSUME NEW r \in Requests, Fails(r)
      PROVE  ClientShape' /\ StepFitsBreaker' /\ OneBody'
  <2>1. /\ pc' = [pc EXCEPT ![r] = "idle"]
        /\ told' = [told EXCEPT ![r] = <<"failure">>]
    BY <1>5, Append(<<>>, "failure") = <<"failure">> DEF Fails, RecordFailure
  <2>2. outcome[r] \in AttemptOutcomes \ {"ok"} => Report(outcome[r]) = <<"failure">>
    BY DEF Report
  <2> QED BY <1>5, <2>1, <2>2 DEF Fails
<1>6. ASSUME NEW r \in Requests, Succeeds(r)
      PROVE  ClientShape' /\ StepFitsBreaker' /\ OneBody'
  <2>1. /\ pc' = [pc EXCEPT ![r] = "idle"]
        /\ told' = [told EXCEPT ![r] = <<"success">>]
    BY <1>6, Append(<<>>, "success") = <<"success">> DEF Succeeds, RecordSuccess
  <2>2. Report("ok") = <<"success">>
    BY DEF Report
  <2> QED BY <1>6, <2>1, <2>2 DEF Succeeds
<1>7. ASSUME NEW r \in Requests, Read(r)
      PROVE  ClientShape' /\ StepFitsBreaker' /\ OneBody'
  BY <1>7 DEF Read
<1>8. ASSUME NEW r \in Requests, AbandonPost(r)
      PROVE  ClientShape' /\ StepFitsBreaker' /\ OneBody'
  <2>1. Report("notBuilt") = <<>>
    BY DEF Report
  <2> QED BY <1>8, <2>1 DEF AbandonPost, Abandon
<1>9. ASSUME NEW u \in Urls, Forget(u)
      PROVE  ClientShape' /\ StepFitsBreaker' /\ OneBody'
  BY <1>9 DEF Forget
<1>10. CASE Tick /\ UNCHANGED clientVars
  BY <1>10 DEF Tick, clientVars
<1>11. CASE UNCHANGED httpVars
  BY <1>11 DEF httpVars
<1> QED
  BY <1>1, <1>2, <1>3, <1>4, <1>5, <1>6, <1>7, <1>8, <1>9, <1>10, <1>11
  DEF HttpNext, CallStep

LEMMA HttpInvariant == HttpSpec => []HInv
<1>1. HttpInit => ClientShape /\ StepFitsBreaker /\ OneBody
  BY DEF HttpInit, Init, ClientShape, StepFitsBreaker, OneBody, Ops, Steps,
         Statuses, AttemptOutcomes, Outcomes, Report
<1>2. HttpSpec => []TypeOK
  BY BreakerInClient, CountersAlwaysFit, PTL
<1>3. TypeOK /\ ClientShape /\ StepFitsBreaker /\ OneBody /\ [HttpNext]_httpVars
        => ClientShape' /\ StepFitsBreaker' /\ OneBody'
  BY ClientKeepsFit DEF HInv
<1> QED BY <1>1, <1>2, <1>3, PTL DEF HttpSpec, HInv

\* Whatever way a call takes through errors, retries, cancellation and bodies,
\* the breaker that let it in is told one outcome, the call's own, before the
\* body is read, and is not told another; only of a Post whose request cannot
\* be built it is told nothing.
THEOREM BreakerIsToldOnce == HttpSpec => []BreakerToldOnce
<1>1. HInv => BreakerToldOnce
  BY DEF HInv, StepFitsBreaker, BreakerToldOnce
<1> QED BY <1>1, HttpInvariant, PTL

\* No attempt, and no call, leaves the body of a response open.
THEOREM BodiesAreClosed == HttpSpec => []BodiesClosed
<1>1. HInv => BodiesClosed
  BY DEF HInv, OneBody, BodiesClosed
<1> QED BY <1>1, HttpInvariant, PTL

\* In the client, with its retries and its calls that record nothing, the
\* counters fit the breaker's state as well, and no request gets through before
\* the timeout has passed since the latest failure.
THEOREM ClientsBreakerIsSound == HttpSpec => []CountersFitState /\ NoEarlyProbe
BY BreakerInClient, CountersAlwaysFit, NeverEarlyProbe, PTL
=============================================================================
