--------------------------- MODULE CircuitBreaker ---------------------------
(***************************************************************************)
(* The circuit breaker of the HTTP enrichment client                       *)
(* (internal/enrichment/http/circuit_breaker.go) under concurrent          *)
(* requests (client.go).  Allow reads the state under the read lock,       *)
(* decides outside of it, and takes the write lock only to go half-open;   *)
(* RecordSuccess and RecordFailure come later, in any order, and also from *)
(* requests that were let in under an earlier state.                       *)
(***************************************************************************)
EXTENDS Integers, Sequences

CONSTANTS Requests,           \* goroutines that use the client
          FailureThreshold,   \* failureThreshold
          SuccessThreshold,   \* successThreshold
          OpenTimeout,        \* openTimeout, in ticks of the clock
          CountCap            \* bound on failureCount, which then stays there

ASSUME ThresholdsAssumption ==
    /\ FailureThreshold \in Nat \ {0}
    /\ SuccessThreshold \in Nat \ {0}
ASSUME TimeoutAssumption == OpenTimeout \in Nat \ {0}
ASSUME CapAssumption == CountCap \in Nat /\ CountCap >= FailureThreshold

VARIABLES
    state,          \* cb.state
    failureCount,   \* cb.failureCount
    successCount,   \* cb.successCount
    age,            \* time since cb.lastFailureTime, up to OpenTimeout + 1
    pc,             \* pc[r]: where request r is
    snapAge,        \* snapAge[r]: time since the lastFailureTime Allow read
    told            \* history: told[r], what r recorded since it last called Allow

breaker == <<state, failureCount, successCount>>
vars == <<state, failureCount, successCount, age, pc, snapAge, told>>

Reports == Seq({"success", "failure"})
Ages == 0 .. OpenTimeout + 1
Expired(a) == a > OpenTimeout

(* idle      not using the breaker                                         *)
(* deciding  in Allow, with a snapshot that says open                      *)
(* allowed   let through, the HTTP request is under way                    *)
TypeOK ==
    /\ state \in {"Closed", "Open", "HalfOpen"}
    /\ failureCount \in 0 .. CountCap
    /\ successCount \in 0 .. SuccessThreshold
    /\ age \in Ages
    /\ pc \in [Requests -> {"idle", "deciding", "allowed"}]
    /\ snapAge \in [Requests -> Ages]
    /\ told \in [Requests -> Reports]

(* lastFailureTime is the zero time at first: any timeout has passed.      *)
Init ==
    /\ state = "Closed"
    /\ failureCount = 0
    /\ successCount = 0
    /\ age = OpenTimeout + 1
    /\ pc = [r \in Requests |-> "idle"]
    /\ snapAge = [r \in Requests |-> 0]
    /\ told = [r \in Requests |-> <<>>]

\* Fault in AllowRead: a half-open breaker is gone through like an open one.
AllowReadHalfOpenToo(r) ==
    /\ pc[r] = "idle"
    /\ IF state # "Closed"
       THEN /\ pc' = [pc EXCEPT ![r] = "deciding"]
            /\ snapAge' = [snapAge EXCEPT ![r] = age]
       ELSE /\ pc' = [pc EXCEPT ![r] = "allowed"]
            /\ UNCHANGED snapAge
    /\ told' = [told EXCEPT ![r] = <<>>]
    /\ UNCHANGED <<breaker, age>>

\* Allow, up to RUnlock and the switch.
AllowRead(r) ==
    /\ pc[r] = "idle"
    /\ IF state = "Open"
       THEN /\ pc' = [pc EXCEPT ![r] = "deciding"]
            /\ snapAge' = [snapAge EXCEPT ![r] = age]
       ELSE /\ pc' = [pc EXCEPT ![r] = "allowed"]
            /\ UNCHANGED snapAge
    /\ told' = [told EXCEPT ![r] = <<>>]
    /\ UNCHANGED <<breaker, age>>

\* Fault in AllowReject: a refused request counts as a failure.
AllowRejectRefreshes(r) ==
    /\ pc[r] = "deciding"
    /\ ~Expired(snapAge[r])
    /\ pc' = [pc EXCEPT ![r] = "idle"]
    /\ snapAge' = [snapAge EXCEPT ![r] = 0]
    /\ age' = 0
    /\ UNCHANGED <<breaker, told>>

\* Allow returns false: the timeout of the snapshot has not passed.
AllowReject(r) ==
    /\ pc[r] = "deciding"
    /\ ~Expired(snapAge[r])
    /\ pc' = [pc EXCEPT ![r] = "idle"]
    /\ snapAge' = [snapAge EXCEPT ![r] = 0]
    /\ UNCHANGED <<breaker, age, told>>

\* Fault in AllowLocked: the time is not checked again.
AllowLockedUnchecked(r) ==
    /\ pc[r] = "deciding"
    /\ Expired(snapAge[r])
    /\ state' = "HalfOpen"
    /\ successCount' = 0
    /\ pc' = [pc EXCEPT ![r] = "allowed"]
    /\ snapAge' = [snapAge EXCEPT ![r] = 0]
    /\ UNCHANGED <<failureCount, age, told>>

\* It has: under the write lock the time is checked again, the state is not.
AllowLocked(r) ==
    /\ pc[r] = "deciding"
    /\ Expired(snapAge[r])
    /\ IF Expired(age)
       THEN /\ state' = "HalfOpen"
            /\ successCount' = 0
            /\ pc' = [pc EXCEPT ![r] = "allowed"]
       ELSE /\ pc' = [pc EXCEPT ![r] = "idle"]
            /\ UNCHANGED <<state, successCount>>
    /\ snapAge' = [snapAge EXCEPT ![r] = 0]
    /\ UNCHANGED <<failureCount, age, told>>

\* Fault in RecordSuccess: > for >=.
RecordSuccessOneMore(r) ==
    /\ pc[r] = "allowed"
    /\ failureCount' = 0
    /\ CASE state = "HalfOpen" /\ successCount + 1 > SuccessThreshold ->
              state' = "Closed" /\ successCount' = 0
         [] state = "HalfOpen" /\ successCount + 1 <= SuccessThreshold ->
              successCount' = successCount + 1 /\ UNCHANGED state
         [] OTHER -> UNCHANGED <<state, successCount>>
    /\ pc' = [pc EXCEPT ![r] = "idle"]
    /\ told' = [told EXCEPT ![r] = Append(@, "success")]
    /\ UNCHANGED <<age, snapAge>>

RecordSuccess(r) ==
    /\ pc[r] = "allowed"
    /\ failureCount' = 0
    /\ CASE state = "HalfOpen" /\ successCount + 1 >= SuccessThreshold ->
              state' = "Closed" /\ successCount' = 0
         [] state = "HalfOpen" /\ successCount + 1 < SuccessThreshold ->
              successCount' = successCount + 1 /\ UNCHANGED state
         [] OTHER -> UNCHANGED <<state, successCount>>
    /\ pc' = [pc EXCEPT ![r] = "idle"]
    /\ told' = [told EXCEPT ![r] = Append(@, "success")]
    /\ UNCHANGED <<age, snapAge>>

Counted == IF failureCount < CountCap THEN failureCount + 1 ELSE CountCap

RecordFailure(r) ==
    /\ pc[r] = "allowed"
    /\ successCount' = 0
    /\ age' = 0
    /\ failureCount' = Counted
    /\ state' = IF Counted >= FailureThreshold THEN "Open" ELSE state
    /\ pc' = [pc EXCEPT ![r] = "idle"]
    /\ told' = [told EXCEPT ![r] = Append(@, "failure")]
    /\ UNCHANGED snapAge

\* PostWithOptions returns on an invalid request and records nothing: the
\* breaker never hears of a request it let through.
Abandon(r) ==
    /\ pc[r] = "allowed"
    /\ pc' = [pc EXCEPT ![r] = "idle"]
    /\ UNCHANGED <<breaker, age, snapAge, told>>

Older(a) == IF a < OpenTimeout + 1 THEN a + 1 ELSE a

\* The clock.
Tick ==
    /\ age' = Older(age)
    /\ snapAge' = [r \in Requests |->
                     IF pc[r] = "deciding" THEN Older(snapAge[r]) ELSE snapAge[r]]
    /\ UNCHANGED <<breaker, pc, told>>

RequestStep(r) ==
    \/ AllowRead(r)
    \/ AllowReject(r)
    \/ AllowLocked(r)
    \/ RecordSuccess(r)
    \/ RecordFailure(r)
    \/ Abandon(r)

Next == (\E r \in Requests : RequestStep(r)) \/ Tick

Spec == Init /\ [][Next]_vars

(* Time passes, and a request once begun is decided and comes to its end   *)
(* (the HTTP client has a timeout); requests keep coming.                  *)
FairSpec ==
    /\ Spec
    /\ WF_vars(Tick)
    /\ \A r \in Requests : WF_vars(RequestStep(r))

-----------------------------------------------------------------------------
\* The counters never contradict the state, in whatever order late results
\* and late decisions arrive: a closed breaker is below the threshold of
\* failures and has no successes left over from an earlier trial, an open one
\* has none either, and a half-open one has not yet enough to close.
CountersFitState ==
    /\ state = "Closed" => failureCount < FailureThreshold /\ successCount = 0
    /\ state = "Open" => successCount = 0
    /\ state = "HalfOpen" => successCount < SuccessThreshold

\* A request that found the breaker open gets through only when the timeout
\* has passed since the latest failure, not just since the one it had read.
NoEarlyProbe ==
    [][\A r \in Requests :
          pc[r] = "deciding" /\ pc'[r] = "allowed" => age > OpenTimeout]_vars

\* An open breaker is not open for good: while requests keep coming it lets
\* one try, however many late failures push the timeout out.
Recovers == state = "Open" ~> state # "Open"
=============================================================================
