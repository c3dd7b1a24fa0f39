----------------------------- MODULE HttpClient -----------------------------
(***************************************************************************)
(* The HTTP enrichment client (internal/enrichment/http/client.go) on top  *)
(* of its circuit breaker: Get and GetJSON with the response cache, Post   *)
(* with and without retries, and the Retrier that repeats a request with   *)
(* backoff.  Each call asks the breaker once, sends up to MaxRetries       *)
(* requests, tells the breaker one outcome and then reads the body; a Post *)
(* whose request cannot be built tells it nothing.                         *)
(*                                                                         *)
(* Left out: what the bodies say, and calls that change nothing (a Get     *)
(* answered from the cache, a Post refused for its options).               *)
(***************************************************************************)
EXTENDS CircuitBreaker

CONSTANTS Urls,        \* what Get is asked for
          MaxRetries   \* RetryConfig.MaxRetries: attempts, the first included;
                       \*   NewClient takes any number

ASSUME MaxRetriesAssumption == MaxRetries \in Int

VARIABLES
    op,         \* op[r]: the kind of the current or last call of r
    url,        \* url[r]: its url
    step,       \* step[r]: how far it is
    attempts,   \* attempts[r]: requests sent by it
    outcome,    \* outcome[r]: what the call, or its latest attempt, came to
    open,       \* open[r]: response bodies received by it and not yet closed
    cache       \* urls with a cached body

clientVars == <<op, url, step, attempts, outcome, open, cache>>
httpVars == <<state, failureCount, successCount, age, pc, snapAge, told,
              op, url, step, attempts, outcome, open, cache>>

(* post is sent once; retriedPost has AllowRetries and an idempotency key, *)
(* or the override.                                                        *)
Ops == {"get", "post", "retriedPost"}

(* allow    in Allow                                                       *)
(* send     about to send a request                                        *)
(* backoff  asleep between two attempts, or after the last one             *)
(* result   the attempts are over, the breaker does not know yet           *)
(* read     it does, and the body is to be read                            *)
Steps == {"idle", "allow", "send", "backoff", "result", "read"}

(* An attempt ends with a 2xx status, a status that is retried (5xx, 408,  *)
(* 429), another one, a context error, or another error.  A call that      *)
(* never sends anything was refused by the breaker, or is a Post whose     *)
(* request could not be built.                                             *)
Statuses == {"ok", "retryStatus", "otherStatus"}
AttemptOutcomes == Statuses \cup {"ctxError", "error"}
Outcomes == AttemptOutcomes \cup {"refused", "notBuilt"}

HttpTypeOK ==
    /\ TypeOK
    /\ op \in [Requests -> Ops]
    /\ url \in [Requests -> Urls]
    /\ step \in [Requests -> Steps]
    /\ attempts \in [Requests -> Nat]
    /\ outcome \in [Requests -> Outcomes]
    /\ open \in [Requests -> Nat]
    /\ cache \subseteq Urls

HttpInit ==
    /\ Init
    /\ op = [r \in Requests |-> "get"]
    /\ url \in [Requests -> {CHOOSE u \in Urls : TRUE}]
    /\ step = [r \in Requests |-> "idle"]
    /\ attempts = [r \in Requests |-> 0]
    /\ outcome = [r \in Requests |-> "refused"]
    /\ open = [r \in Requests |-> 0]
    /\ cache = {}

-----------------------------------------------------------------------------
\* A call that has to ask the breaker: a Get that misses the cache, or a Post.
Begin(r, o, u) ==
    /\ step[r] = "idle"
    /\ o = "get" => u \notin cache
    /\ op' = [op EXCEPT ![r] = o]
    /\ url' = [url EXCEPT ![r] = u]
    /\ step' = [step EXCEPT ![r] = "allow"]
    /\ attempts' = [attempts EXCEPT ![r] = 0]
    /\ outcome' = [outcome EXCEPT ![r] = "refused"]
    /\ UNCHANGED <<breaker, age, pc, snapAge, told, open, cache>>

\* Do with no attempts at all, which is "max retries exceeded" at once.
NoAttempts(r) == op[r] # "post" /\ MaxRetries <= 0

\* Allow, in its steps; the call is over if it returns false.
Allow(r) ==
    /\ step[r] = "allow"
    /\ AllowRead(r) \/ AllowReject(r) \/ AllowLocked(r)
    /\ step' = [step EXCEPT ![r] =
                  CASE pc'[r] = "allowed" -> IF NoAttempts(r) THEN "result" ELSE "send"
                    [] pc'[r] = "deciding" -> "allow"
                    [] pc'[r] = "idle" -> "idle"]
    /\ outcome' = [outcome EXCEPT ![r] = IF pc'[r] = "allowed" THEN "error" ELSE @]
    /\ UNCHANGED <<op, url, attempts, open, cache>>

\* Is the request sent again after outcome o?  (Do, isRetryable)
Retried(r, o) == op[r] # "post" /\ o \in {"retryStatus", "error"}

\* Fault in Send: the body of a response to be retried is not closed.
SendKeepsBody(r) ==
    /\ step[r] = "send"
    /\ attempts' = [attempts EXCEPT ![r] = @ + 1]
    /\ \E o \in AttemptOutcomes :
          /\ outcome' = [outcome EXCEPT ![r] = o]
          /\ step' = [step EXCEPT ![r] = IF Retried(r, o) THEN "backoff" ELSE "result"]
          /\ open' = [open EXCEPT ![r] = IF o \in Statuses THEN @ + 1 ELSE @]
    /\ UNCHANGED <<breaker, age, pc, snapAge, told, op, url, cache>>

\* One attempt: the response is kept for the caller, or drained and closed
\* before the next attempt.
Send(r) ==
    /\ step[r] = "send"
    /\ attempts' = [attempts EXCEPT ![r] = @ + 1]
    /\ \E o \in AttemptOutcomes :
          /\ outcome' = [outcome EXCEPT ![r] = o]
          /\ step' = [step EXCEPT ![r] = IF Retried(r, o) THEN "backoff" ELSE "result"]
          /\ open' = [open EXCEPT ![r] =
                        IF o \in Statuses /\ ~Retried(r, o) THEN @ + 1 ELSE @]
    /\ UNCHANGED <<breaker, age, pc, snapAge, told, op, url, cache>>

\* Fault in Backoff: the attempts are not counted.
BackoffForEver(r) ==
    /\ step[r] = "backoff"
    /\ step' = [step EXCEPT ![r] = "send"]
    /\ attempts' = [attempts EXCEPT ![r] = 0]
    /\ UNCHANGED <<breaker, age, pc, snapAge, told, op, url, outcome, open, cache>>

\* The sleep, which follows the last attempt too, is over: another attempt,
\* or "max retries exceeded", an error whatever the last outcome was.
Backoff(r) ==
    /\ step[r] = "backoff"
    /\ IF attempts[r] < MaxRetries
       THEN step' = [step EXCEPT ![r] = "send"] /\ UNCHANGED outcome
       ELSE /\ step' = [step EXCEPT ![r] = "result"]
            /\ outcome' = [outcome EXCEPT ![r] = "error"]
    /\ UNCHANGED <<breaker, age, pc, snapAge, told, op, url, attempts, open, cache>>

\* The context is done during the sleep.
BackoffCancelled(r) ==
    /\ step[r] = "backoff"
    /\ step' = [step EXCEPT ![r] = "result"]
    /\ outcome' = [outcome EXCEPT ![r] = "ctxError"]
    /\ UNCHANGED <<breaker, age, pc, snapAge, told, op, url, attempts, open, cache>>

\* Fault in Fails: a context error is not reported.
FailsSilently(r) ==
    /\ step[r] = "result"
    /\ outcome[r] # "ok"
    /\ IF outcome[r] = "ctxError"
       THEN UNCHANGED <<breaker, age, pc, snapAge, told>>
       ELSE RecordFailure(r)
    /\ step' = [step EXCEPT ![r] = "idle"]
    /\ open' = [open EXCEPT ![r] = 0]
    /\ UNCHANGED <<op, url, attempts, outcome, cache>>

\* An error or a status other than 2xx: RecordFailure, and the deferred Close.
Fails(r) ==
    /\ step[r] = "result"
    /\ outcome[r] # "ok"
    /\ RecordFailure(r)
    /\ step' = [step EXCEPT ![r] = "idle"]
    /\ open' = [open EXCEPT ![r] = 0]
    /\ UNCHANGED <<op, url, attempts, outcome, cache>>

\* 2xx: RecordSuccess, before the body is read.
Succeeds(r) ==
    /\ step[r] = "result"
    /\ outcome[r] = "ok"
    /\ RecordSuccess(r)
    /\ step' = [step EXCEPT ![r] = "read"]
    /\ UNCHANGED <<op, url, attempts, outcome, open, cache>>

\* The body is read and closed.  It is whole and within maxResponseSize, and
\* then cached for a Get, or it is not, and the call fails after all.
Read(r) ==
    /\ step[r] = "read"
    /\ cache' \in {cache} \cup (IF op[r] = "get" THEN {cache \cup {url[r]}} ELSE {})
    /\ step' = [step EXCEPT ![r] = "idle"]
    /\ open' = [open EXCEPT ![r] = 0]
    /\ UNCHANGED <<breaker, age, pc, snapAge, told, op, url, attempts, outcome>>

\* NewRequestWithContext fails for a Post without retries: the call returns
\* at once and records neither success nor failure.
AbandonPost(r) ==
    /\ op[r] = "post"
    /\ step[r] = "send"
    /\ Abandon(r)
    /\ step' = [step EXCEPT ![r] = "idle"]
    /\ outcome' = [outcome EXCEPT ![r] = "notBuilt"]
    /\ UNCHANGED <<op, url, attempts, open, cache>>

\* An entry expires or is evicted, or Close clears the cache.
Forget(u) ==
    /\ u \in cache
    /\ cache' = cache \ {u}
    /\ UNCHANGED <<breaker, age, pc, snapAge, told, op, url, step, attempts, outcome, open>>

-----------------------------------------------------------------------------
CallStep(r) ==
    \/ Allow(r)
    \/ Send(r)
    \/ Backoff(r)
    \/ BackoffCancelled(r)
    \/ Fails(r)
    \/ Succeeds(r)
    \/ Read(r)
    \/ AbandonPost(r)

HttpNext ==
    \/ \E r \in Requests : \/ \E o \in Ops, u \in Urls : Begin(r, o, u)
                           \/ CallStep(r)
    \/ \E u \in Urls : Forget(u)
    \/ Tick /\ UNCHANGED clientVars

HttpSpec == HttpInit /\ [][HttpNext]_httpVars

(* Time passes, a call once begun goes on (the HTTP client has a timeout,  *)
(* the sleeps are bounded), and calls keep coming.                         *)
HttpFairSpec ==
    /\ HttpSpec
    /\ WF_httpVars(Tick /\ UNCHANGED clientVars)
    /\ \A r \in Requests :
          /\ WF_httpVars(CallStep(r))
          /\ WF_httpVars(\E o \in Ops, u \in Urls : Begin(r, o, u))

-----------------------------------------------------------------------------
\* What the breaker has to be told of a call with this outcome.  A body that
\* breaks off or is too long comes after a success.
Report(o) == CASE o \in {"refused", "notBuilt"} -> <<>>
               [] o = "ok" -> <<"success">>
               [] OTHER -> <<"failure">>

\* Every path of a call through retries, backoff, cancellation and bodies tells
\* the breaker one outcome, the one of the attempts as a whole, after the last
\* of them and before the body is read.  The one way past the breaker without
\* a word is a Post without retries whose request cannot be built.
BreakerToldOnce ==
    \A r \in Requests :
        /\ step[r] \in {"send", "backoff", "result"} => told[r] = <<>> /\ pc[r] = "allowed"
        /\ step[r] \in {"read", "idle"} => told[r] = Report(outcome[r]) /\ pc[r] = "idle"

\* A breaker in front of a healthy service closes, and stays closed, whatever
\* late results of earlier calls, stale decisions of Allow and abandoned calls
\* there are: if from some time on no failure is recorded and calls succeed
\* again and again, it is closed from some time on.
HealthyCloses ==
    /\ <>[][\A r \in Requests : ~Fails(r)]_httpVars
    /\ []<><<\E r \in Requests : Succeeds(r)>>_httpVars
    => <>[](state = "Closed")

\* Every body received is closed: none is left over from an attempt that was
\* retried, and none after the call; the one the caller reads is open.
BodiesClosed ==
    \A r \in Requests :
        /\ step[r] \in {"idle", "allow", "send", "backoff"} => open[r] = 0
        /\ step[r] = "read" => open[r] = 1

\* Every call comes to its end, on its own when its context is never done.
CallsEnd == \A r \in Requests : step[r] # "idle" ~> step[r] = "idle"
=============================================================================
