-------------------------- MODULE LifecycleProofs --------------------------
(***************************************************************************)
(* Safety of the startup and the shutdown of a process (Lifecycle): its    *)
(* variables have their types, handlers have their clients, and an exit    *)
(* before the deadline is clean.                                           *)
(***************************************************************************)
EXTENDS Lifecycle, TLAPS

\* Startup registers one component after the other.
RegisteredSoFar ==
    /\ main = "metrics" => Len(tasks) = 0
    /\ main \in {"pipelines", "producer", "cleanup"} => Len(tasks) <= 1
    /\ main = "health" => Len(tasks) <= 2
    /\ main = "shutdown" => pos <= Len(tasks)

Has(t) == \E j \in 1 .. Len(tasks) : tasks[j] = t

\* What has to be shut down is known to the coordinator.
KnownToCoordinator ==
    /\ main \in {"health", "wait", "shutdown"} => Has("worker")
    /\ \A s \in Servers : server[s] \in {"serving", "draining"} => Has(s)

\* The worker goroutine and the fetch loop begin together, after the clients.
BeforeWorker ==
    /\ main \in {"metrics", "pipelines", "producer", "cleanup"} => worker = "none"
    /\ worker = "none" <=> loop = "none"
    /\ main = "producer" => cons = "open"

\* The clients are there while the loop runs, and are closed after it.
ClientsOutliveLoop ==
    /\ loop \in {"check", "polling", "handling"} => cons = "open" /\ prod = "open"
    /\ worker \in {"closing", "done"} => LoopOver /\ cons = "closed"
    /\ worker = "done" => prod = "closed"

\* A component the coordinator is done with.
Down(t) ==
    /\ t = "worker" => worker = "done" \/ timedOut
    /\ t \in Servers => server[t] # "serving" /\ (server[t] = "draining" => timedOut)

DownSoFar ==
    main = "shutdown" => \A j \in 1 .. Len(tasks) : j > pos => Down(tasks[j])

IInv ==
    /\ TypeOK
    /\ RegisteredSoFar
    /\ KnownToCoordinator
    /\ BeforeWorker
    /\ ClientsOutliveLoop
    /\ DownSoFar
    /\ exit # "none" => main = "ended"
    /\ CleanExit

-----------------------------------------------------------------------------
\* Registration keeps what is registered, and adds the new component.
LEMMA Registration ==
  ASSUME NEW reg \in Tasks, TypeOK, tasks' = Append(tasks, reg)
  PROVE  /\ tasks' \in Seq(Tasks)
         /\ Len(tasks') = Len(tasks) + 1
         /\ Has(reg)'
         /\ \A t : Has(t) => Has(t)'
<1>1. /\ tasks' \in Seq(Tasks)
      /\ Len(tasks') = Len(tasks) + 1
      /\ tasks'[Len(tasks) + 1] = reg
      /\ \A j \in 1 .. Len(tasks) : tasks'[j] = tasks[j]
  BY DEF TypeOK
<1>2. Len(tasks) \in Nat
  BY DEF TypeOK
<1> QED BY <1>1, <1>2 DEF Has

\* A process begins with nothing started.
LEMMA InitInv == Init => IInv
<1> SUFFICES ASSUME Init PROVE IInv
  OBVIOUS
<1>1. TypeOK
  <2>1. ctxDone \in BOOLEAN /\ timedOut \in BOOLEAN /\ consCtx \in BOOLEAN
    BY DEF Init
  <2>2. tasks \in Seq(Tasks) /\ Len(tasks) <= 3 /\ pos \in 0 .. 3
    BY DEF Init
  <2> QED BY <2>1, <2>2, Zenon DEF Init, TypeOK, LoopStates, ServerStates
<1> QED BY <1>1 DEF Init, IInv, RegisteredSoFar, KnownToCoordinator, BeforeWorker,
             ClientsOutliveLoop, DownSoFar, CleanExit, Servers, LoopOver

\* main starts the metrics server, or goes on without one.
LEMMA MetricsStep == IInv /\ StartMetrics => IInv'
<1> SUFFICES ASSUME IInv, StartMetrics PROVE IInv'
  OBVIOUS
<1> USE DEF StartMetrics, config, shutdown, workerVars
<1>1. CASE ports["metrics"]
  <2>1. /\ tasks' = Append(tasks, "metrics")
        /\ \E bound \in {"serving", "unbound"} :
              server' = [server EXCEPT !["metrics"] = bound]
    BY <1>1 DEF StartServer
  <2>2. /\ tasks' \in Seq(Tasks) /\ Len(tasks') = 1
        /\ Has("metrics")'
        /\ \A t : Has(t) => Has(t)'
    BY <2>1, Registration DEF IInv, RegisteredSoFar, Tasks
  <2>3. TypeOK'
    BY <2>1, <2>2 DEF IInv, TypeOK, Servers, ServerStates
  <2>4. KnownToCoordinator'
    BY <2>1, <2>2 DEF IInv, TypeOK, KnownToCoordinator, Servers
  <2> QED BY <2>2, <2>3, <2>4 DEF IInv, RegisteredSoFar, BeforeWorker,
               ClientsOutliveLoop, DownSoFar, CleanExit, LoopOver
<1>2. CASE ~ports["metrics"]
  <2>1. UNCHANGED <<server, tasks>>
    BY <1>2
  <2> QED BY <2>1 DEF IInv, TypeOK, RegisteredSoFar, KnownToCoordinator, Has,
               BeforeWorker, ClientsOutliveLoop, DownSoFar, CleanExit, LoopOver
<1> QED BY <1>1, <1>2

\* NewConsumer and NewProducer, failing or not.
LEMMA WorkerStartStep ==
  IInv /\ (CreatePipelines \/ CreateProducer \/ ProducerFails) => IInv'
<1> SUFFICES ASSUME IInv, CreatePipelines \/ CreateProducer \/ ProducerFails
             PROVE  IInv'
  OBVIOUS
<1> USE DEF config, shutdown
<1>1. CASE CreatePipelines
  BY <1>1 DEF CreatePipelines, Fail, IInv, TypeOK, RegisteredSoFar, KnownToCoordinator,
       Has, BeforeWorker, ClientsOutliveLoop, DownSoFar, CleanExit, LoopOver
<1>2. CASE CreateProducer
  <2> USE <1>2 DEF CreateProducer
  <2>1. /\ tasks' \in Seq(Tasks) /\ Len(tasks') <= 2
        /\ Has("worker")'
        /\ \A t : Has(t) => Has(t)'
    BY Registration DEF IInv, RegisteredSoFar, Tasks, TypeOK
  <2>2. TypeOK'
    BY <2>1 DEF IInv, TypeOK, LoopStates
  <2> QED BY <2>1, <2>2 DEF IInv, RegisteredSoFar, KnownToCoordinator, BeforeWorker,
               ClientsOutliveLoop, DownSoFar, CleanExit, LoopOver
<1>3. CASE ProducerFails
  BY <1>3 DEF ProducerFails, IInv, TypeOK, RegisteredSoFar, KnownToCoordinator,
       Has, BeforeWorker, ClientsOutliveLoop, DownSoFar, CleanExit, LoopOver
<1> QED BY <1>1, <1>2, <1>3

\* The health server starts, or main exits.
LEMMA HealthStep == IInv /\ StartHealth => IInv'
<1> SUFFICES ASSUME IInv, StartHealth PROVE IInv'
  OBVIOUS
<1> USE DEF StartHealth, config, shutdown, workerVars
<1>1. CASE ports["health"]
  <2>1. /\ tasks' = Append(tasks, "health")
        /\ \E bound \in {"serving", "unbound"} :
              server' = [server EXCEPT !["health"] = bound]
        /\ main' = "wait" /\ UNCHANGED exit
    BY <1>1 DEF StartServer
  <2>2. /\ tasks' \in Seq(Tasks) /\ Len(tasks') <= 3
        /\ Has("health")'
        /\ \A t : Has(t) => Has(t)'
    BY <2>1, Registration DEF IInv, RegisteredSoFar, Tasks, TypeOK
  <2>3. TypeOK'
    BY <2>1, <2>2 DEF IInv, TypeOK, Servers, ServerStates
  <2>4. KnownToCoordinator'
    BY <2>1, <2>2 DEF IInv, TypeOK, KnownToCoordinator, Servers
  <2> QED BY <2>1, <2>2, <2>3, <2>4 DEF IInv, RegisteredSoFar, BeforeWorker,
               ClientsOutliveLoop, DownSoFar, CleanExit, LoopOver
<1>2. CASE ~ports["health"]
  <2>1. Fail /\ UNCHANGED <<server, tasks>>
    BY <1>2
  <2> QED BY <2>1 DEF Fail, IInv, TypeOK, RegisteredSoFar, KnownToCoordinator, Has,
               BeforeWorker, ClientsOutliveLoop, DownSoFar, CleanExit, LoopOver
<1> QED BY <1>1, <1>2

\* The fetch loop, and the goroutine that stops the consumer and then closes
\* the producer.
LEMMA WorkerStep ==
  IInv /\ (LoopStep \/ StopReturns("worker") \/ WorkerStop \/ WorkerClose) => IInv'
<1> SUFFICES ASSUME IInv, LoopStep \/ StopReturns("worker") \/ WorkerStop \/ WorkerClose
             PROVE  IInv'
  OBVIOUS
<1> USE DEF config, startup, shutdown, Alive
<1>1. /\ UNCHANGED <<ports, main, exit, ctxDone, server, tasks, pos, timedOut>>
      /\ main # "ended"
  BY DEF LoopStep, LoopCheck, LoopPoll, LoopHandled, StopReturns, WorkerStop, WorkerClose
<1>2. TypeOK'
  <2>1. consCtx' \in BOOLEAN
    BY DEF IInv, TypeOK, LoopStep, LoopCheck, LoopPoll, LoopHandled, StopReturns,
       WorkerStop, WorkerClose
  <2>2. /\ worker' \in {"none", "waiting", "stopping", "closing", "done"}
        /\ loop' \in LoopStates
        /\ cons' \in {"none", "open", "closed"}
        /\ prod' \in {"none", "open", "closed"}
    BY DEF IInv, TypeOK, LoopStates, LoopStep, LoopCheck, LoopPoll, LoopHandled,
       StopReturns, WorkerStop, WorkerClose
  <2> QED BY <1>1, <2>1, <2>2 DEF IInv, TypeOK
<1>3. BeforeWorker' /\ ClientsOutliveLoop' /\ (worker = "done" => worker' = "done")
  BY <1>1 DEF IInv, TypeOK, BeforeWorker, ClientsOutliveLoop, LoopOver, LoopStates,
       LoopStep, LoopCheck, LoopPoll, LoopHandled, StopReturns, WorkerStop, WorkerClose
<1>4. RegisteredSoFar' /\ KnownToCoordinator'
  BY <1>1 DEF IInv, RegisteredSoFar, KnownToCoordinator, Has
<1>5. DownSoFar'
  BY <1>1, <1>3 DEF IInv, DownSoFar, Down
<1> QED BY <1>1, <1>2, <1>3, <1>4, <1>5 DEF IInv, CleanExit

\* The clean-up after a failed NewProducer: there is no loop whose end Stop
\* could see.
LEMMA CleanupNeverReturns == IInv => ~StopReturns("main")
BY DEF IInv, BeforeWorker, StopReturns, LoopOver

\* A signal, a failing server, the deadline.
LEMMA EventStep ==
  IInv /\ (Signal \/ ShutdownTimeout \/ \E s \in Servers : ServeFails(s)) => IInv'
<1> SUFFICES ASSUME IInv, Signal \/ ShutdownTimeout \/ \E s \in Servers : ServeFails(s)
             PROVE  IInv'
  OBVIOUS
<1> USE DEF config, startup, shutdown, workerVars, Alive
<1>1. /\ UNCHANGED <<ports, main, exit, tasks, pos, worker, loop, consCtx, cons, prod>>
      /\ main # "ended"
      /\ timedOut => timedOut'
  BY DEF Signal, ShutdownTimeout, ServeFails
<1>2. TypeOK' /\ \A s \in Servers : server'[s] = server[s] \/ server'[s] = "failed"
  <2>1. ctxDone' \in BOOLEAN /\ timedOut' \in BOOLEAN
    BY DEF IInv, TypeOK, Signal, ShutdownTimeout, ServeFails
  <2>2. /\ server' \in [Servers -> ServerStates]
        /\ \A s \in Servers : server'[s] = server[s] \/ server'[s] = "failed"
    BY DEF IInv, TypeOK, ServerStates, Signal, ShutdownTimeout, ServeFails
  <2> QED BY <1>1, <2>1, <2>2 DEF IInv, TypeOK
<1>3. KnownToCoordinator'
  BY <1>1, <1>2 DEF IInv, KnownToCoordinator, Has
<1>4. DownSoFar'
  BY <1>1, <1>2 DEF IInv, DownSoFar, Down
<1> QED BY <1>1, <1>2, <1>3, <1>4 DEF IInv, RegisteredSoFar, BeforeWorker,
             ClientsOutliveLoop, LoopOver, CleanExit

\* The coordinator goes through the registered components.
LEMMA ShutdownStep ==
  IInv /\ (BeginShutdown \/ ShutdownServer \/ ServerDrained \/ DrainTimeout \/ ShutdownWorker)
    => IInv'
<1> SUFFICES ASSUME IInv, BeginShutdown \/ ShutdownServer \/ ServerDrained
                            \/ DrainTimeout \/ ShutdownWorker
             PROVE  IInv'
  OBVIOUS
<1> USE DEF config, startup, workerVars
<1>1. /\ UNCHANGED <<ports, exit, ctxDone, tasks, timedOut, worker, loop, consCtx,
                     cons, prod>>
      /\ main \in {"wait", "shutdown"} /\ main' = "shutdown"
  BY DEF BeginShutdown, ShutdownServer, ServerDrained, DrainTimeout, ShutdownWorker
<1>2. TypeOK' /\ pos' <= Len(tasks)
  BY <1>1 DEF IInv, TypeOK, ServerStates, RegisteredSoFar, BeginShutdown, ShutdownServer,
     ServerDrained, DrainTimeout, ShutdownWorker
<1>3. \A s \in Servers :
        \/ server'[s] = server[s]
        \/ /\ pos > 0 /\ tasks[pos] = s
           /\ \/ server[s] = "serving" /\ server'[s] = "draining" /\ pos' = pos
              \/ server[s] = "draining" /\ server'[s] = "closed"
  BY DEF IInv, TypeOK, BeginShutdown, ShutdownServer, ServerDrained, DrainTimeout,
     ShutdownWorker
<1>4. KnownToCoordinator'
  BY <1>1, <1>3 DEF IInv, KnownToCoordinator, Has
<1>5. DownSoFar'
  <2>1. CASE BeginShutdown
    BY <2>1, <1>1 DEF IInv, TypeOK, BeginShutdown, DownSoFar
  <2>2. CASE ShutdownServer \/ ServerDrained \/ DrainTimeout \/ ShutdownWorker
    <3>1. main = "shutdown" /\ pos \in 1 .. 3 /\ pos' \in {pos - 1, pos}
      BY <2>2 DEF IInv, TypeOK, ShutdownServer, ServerDrained, DrainTimeout, ShutdownWorker
    <3>2. pos' = pos - 1 => \A t : t = tasks[pos] => Down(t)'
      BY <2>2, <1>1, <3>1 DEF IInv, TypeOK, ServerStates, ShutdownServer, ServerDrained,
         DrainTimeout, ShutdownWorker, Down, Servers
    <3>3. \A j \in 1 .. Len(tasks) : \A t : j > pos /\ t = tasks[j] => Down(t)'
      <4> SUFFICES ASSUME NEW j \in 1 .. Len(tasks), j > pos PROVE Down(tasks[j])'
        BY <1>1
      <4>1. Down(tasks[j])
        BY <3>1 DEF IInv, DownSoFar
      <4> QED BY <4>1, <1>1, <1>3 DEF Down
    <3>4. ASSUME NEW j \in 1 .. Len(tasks), j > pos' PROVE Down(tasks[j])'
      <4>1. j > pos \/ (j = pos /\ pos' = pos - 1)
        BY <3>1, <3>4
      <4> QED BY <4>1, <3>2, <3>3, <1>1
    <3> QED BY <3>4, <1>1 DEF DownSoFar
  <2> QED BY <2>1, <2>2
<1> QED BY <1>1, <1>2, <1>4, <1>5 DEF IInv, RegisteredSoFar, BeforeWorker,
             ClientsOutliveLoop, LoopOver, CleanExit

\* main returns after the last of them.
LEMMA ReturnStep == IInv /\ Return => IInv'
<1> SUFFICES ASSUME IInv, Return PROVE IInv'
  OBVIOUS
<1> USE DEF Return, config, shutdown, workerVars
<1>1. Down("worker") /\ \A s \in Servers : Down(s)
  BY DEF IInv, TypeOK, DownSoFar, KnownToCoordinator, Has, Down
<1>2. CleanExit'
  BY <1>1 DEF IInv, ClientsOutliveLoop, Down, CleanExit, LoopOver
<1>3. KnownToCoordinator'
  BY DEF IInv, KnownToCoordinator, Has
<1> QED BY <1>2, <1>3 DEF IInv, TypeOK, RegisteredSoFar, BeforeWorker,
             ClientsOutliveLoop, LoopOver, DownSoFar

\* The invariant holds throughout.
LEMMA Invariance == Spec => []IInv
<1>1. IInv /\ UNCHANGED vars => IInv'
  BY DEF IInv, TypeOK, RegisteredSoFar, KnownToCoordinator, Has, BeforeWorker,
       ClientsOutliveLoop, LoopOver, DownSoFar, Down, CleanExit, vars
<1>2. IInv /\ Next => IInv'
  BY MetricsStep, WorkerStartStep, HealthStep, WorkerStep, CleanupNeverReturns,
     EventStep, ShutdownStep, ReturnStep DEF Next
<1> QED BY <1>1, <1>2, InitInv, PTL DEF Spec

\* The variables of the process stay in their ranges.
THEOREM LifecycleTypeCorrect == Spec => []TypeOK
BY Invariance, PTL DEF IInv

\* At no point of startup, failing startup or shutdown does a handler run
\* without the consumer's client and an open producer.
THEOREM HandlersAlwaysHaveClients == Spec => []HandlerHasClients
<1>1. IInv => HandlerHasClients
  BY DEF IInv, ClientsOutliveLoop, HandlerHasClients
<1> QED BY <1>1, Invariance, PTL

\* If main returns before the deadline, the loop is over, both Kafka clients
\* are closed and no server is left serving or answering a request.
THEOREM ExitIsClean == Spec => []CleanExit
BY Invariance, PTL DEF IInv
=============================================================================
