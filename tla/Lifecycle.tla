----------------------------- MODULE Lifecycle -----------------------------
(***************************************************************************)
(* One process of the transform service from main to exit                  *)
(* (cmd/transform/main.go): startup of the metrics server, of the pipeline *)
(* worker with its consumer and producer, and of the health server; the    *)
(* goroutines they leave running; the signal or server failure that ends   *)
(* the root context; and the coordinator's shutdown of the registered      *)
(* components, in reverse order and under one deadline.                    *)
(*                                                                         *)
(* Consumer has the fetch loop record by record; here a batch is handled   *)
(* in one state and the loop only tells whether the client and producer it *)
(* uses are still there.                                                   *)
(***************************************************************************)
EXTENDS Integers, Sequences

VARIABLES
    ports,      \* ports[s]: service.metrics_port, service.health_port nonzero
    main,       \* where main is
    exit,       \* how the process ended
    ctxDone,    \* the root context is done
    server,     \* state of each HTTP server
    tasks,      \* Coordinator.tasks, in order of registration
    pos,        \* index of the task being shut down
    timedOut,   \* shutdownCtx is done
    worker,     \* where the worker goroutine is
    loop,       \* where the fetch loop is
    consCtx,    \* the consumer's context is done
    cons,       \* the consumer's client
    prod        \* the producer's client

config == <<ports>>
startup == <<exit, server, tasks>>
shutdown == <<pos, timedOut>>
workerVars == <<worker, loop, consCtx, cons, prod>>
vars == <<ports, main, exit, ctxDone, server, tasks, pos, timedOut,
          worker, loop, consCtx, cons, prod>>

Servers == {"metrics", "health"}
Tasks == {"metrics", "worker", "health"}

(* A draining server has closed its listener and waits for open requests.  *)
ServerStates == {"off", "unbound", "serving", "failed", "draining", "closed"}

(* c.done is closed in both of the last two states.                        *)
LoopStates == {"none", "check", "polling", "handling", "exited", "aborted"}

TypeOK ==
    /\ ports \in [Servers -> BOOLEAN]
    /\ main \in {"metrics", "pipelines", "producer", "cleanup", "health",
                 "wait", "shutdown", "ended"}
    /\ exit \in {"none", "ok", "failed"}
    /\ ctxDone \in BOOLEAN
    /\ server \in [Servers -> ServerStates]
    /\ tasks \in Seq(Tasks) /\ Len(tasks) <= 3
    /\ pos \in 0 .. 3
    /\ timedOut \in BOOLEAN
    /\ worker \in {"none", "waiting", "stopping", "closing", "done"}
    /\ loop \in LoopStates
    /\ consCtx \in BOOLEAN
    /\ cons \in {"none", "open", "closed"}
    /\ prod \in {"none", "open", "closed"}

Init ==
    /\ ports \in [Servers -> BOOLEAN]
    /\ main = "metrics"
    /\ exit = "none"
    /\ ctxDone = FALSE
    /\ server = [s \in Servers |-> "off"]
    /\ tasks = <<>>
    /\ pos = 0
    /\ timedOut = FALSE
    /\ worker = "none"
    /\ loop = "none"
    /\ consCtx = FALSE
    /\ cons = "none"
    /\ prod = "none"

Alive == main # "ended"

-----------------------------------------------------------------------------
(* Startup                                                                 *)

\* os.Exit(1)
Fail == main' = "ended" /\ exit' = "failed"

\* Server.Start binds the port or does not, and Register follows: main goes
\* on in both cases.
StartServer(s) ==
    /\ \E bound \in {"serving", "unbound"} : server' = [server EXCEPT ![s] = bound]
    /\ tasks' = Append(tasks, s)

StartMetrics ==
    /\ main = "metrics"
    /\ main' = "pipelines"
    /\ IF ports["metrics"]
       THEN StartServer("metrics")
       ELSE UNCHANGED <<server, tasks>>
    /\ UNCHANGED <<config, exit, ctxDone, shutdown, workerVars>>

\* startPipelineWorker up to NewConsumer: a bad pipeline or a duplicate input
\* topic, and an error of NewConsumer, end the process.
CreatePipelines ==
    /\ main = "pipelines"
    /\ \/ Fail /\ UNCHANGED cons
       \/ /\ main' = "producer"
          /\ cons' = "open"
          /\ UNCHANGED exit
    /\ UNCHANGED <<config, ctxDone, server, tasks, shutdown, worker, loop,
                   consCtx, prod>>

\* NewProducer, Consumer.Start and the worker goroutine; main registers the
\* worker.
CreateProducer ==
    /\ main = "producer"
    /\ prod' = "open"
    /\ loop' = "check"
    /\ worker' = "waiting"
    /\ tasks' = Append(tasks, "worker")
    /\ main' = "health"
    /\ UNCHANGED <<config, exit, ctxDone, server, shutdown, consCtx, cons>>

\* NewProducer returns an error: the deferred consForDefer.Stop is called
\* with context.Background() for a consumer that was never started.
ProducerFails ==
    /\ main = "producer"
    /\ consCtx' = TRUE
    /\ main' = "cleanup"
    /\ UNCHANGED <<config, exit, ctxDone, server, tasks, shutdown, worker,
                   loop, cons, prod>>

\* health.NewServer refuses port 0, and main exits on its error; otherwise
\* the worker's check is added and the server started.
StartHealth ==
    /\ main = "health"
    /\ IF ports["health"]
       THEN /\ StartServer("health")
            /\ main' = "wait"
            /\ UNCHANGED exit
       ELSE Fail /\ UNCHANGED <<server, tasks>>
    /\ UNCHANGED <<config, ctxDone, shutdown, workerVars>>

-----------------------------------------------------------------------------
(* The consumer's fetch loop, and Stop                                     *)

LoopCheck ==
    /\ Alive
    /\ loop = "check"
    /\ loop' = IF consCtx THEN "exited" ELSE "polling"
    /\ UNCHANGED <<config, main, ctxDone, startup, shutdown, worker, consCtx, cons, prod>>

\* A poll brings records, or none.
LoopPoll ==
    /\ Alive
    /\ loop = "polling"
    /\ loop' \in {"handling", "check"}
    /\ UNCHANGED <<config, main, ctxDone, startup, shutdown, worker, consCtx, cons, prod>>

\* The batch is handled, with or without a handler error.
LoopHandled ==
    /\ Alive
    /\ loop = "handling"
    /\ loop' \in {"check", "aborted"}
    /\ UNCHANGED <<config, main, ctxDone, startup, shutdown, worker, consCtx, cons, prod>>

LoopOver == loop \in {"exited", "aborted"}

\* Fault in StopReturns: c.done is not waited for.
StopReturnsAtOnce(g) ==
    /\ Alive
    /\ cons' = "closed"
    /\ IF g = "worker"
       THEN worker = "stopping" /\ worker' = "closing" /\ UNCHANGED <<main, exit>>
       ELSE main = "cleanup" /\ main' = "ended" /\ exit' = "failed" /\ UNCHANGED worker
    /\ UNCHANGED <<config, ctxDone, server, tasks, shutdown, loop, consCtx, prod>>

\* Consumer.Stop(context.Background()) comes to its end in the goroutine g:
\* c.done is closed, and the client with it.
StopReturns(g) ==
    /\ Alive
    /\ LoopOver
    /\ cons' = "closed"
    /\ IF g = "worker"
       THEN worker = "stopping" /\ worker' = "closing" /\ UNCHANGED <<main, exit>>
       ELSE main = "cleanup" /\ main' = "ended" /\ exit' = "failed" /\ UNCHANGED worker
    /\ UNCHANGED <<config, ctxDone, server, tasks, shutdown, loop, consCtx, prod>>

\* The worker goroutine sees its context done and calls cons.Stop.
WorkerStop ==
    /\ Alive
    /\ worker = "waiting"
    /\ ctxDone
    /\ consCtx' = TRUE
    /\ worker' = "stopping"
    /\ UNCHANGED <<config, main, ctxDone, startup, shutdown, loop, cons, prod>>

\* prod.Close(), then the deferred close(w.done).
WorkerClose ==
    /\ Alive
    /\ worker = "closing"
    /\ prod' = "closed"
    /\ worker' = "done"
    /\ UNCHANGED <<config, main, ctxDone, startup, shutdown, loop, consCtx, cons>>

-----------------------------------------------------------------------------
(* The end                                                                 *)

\* SIGINT or SIGTERM, at any time.
Signal ==
    /\ Alive
    /\ ~ctxDone
    /\ ctxDone' = TRUE
    /\ UNCHANGED <<config, main, startup, shutdown, workerVars>>

\* Serve returns an unexpected error, and its goroutine cancels the root
\* context.
ServeFails(s) ==
    /\ Alive
    /\ server[s] = "serving"
    /\ server' = [server EXCEPT ![s] = "failed"]
    /\ ctxDone' = TRUE
    /\ UNCHANGED <<config, main, exit, tasks, shutdown, workerVars>>

\* main passes <-ctx.Done() and calls Coordinator.Shutdown.
BeginShutdown ==
    /\ main = "wait"
    /\ ctxDone
    /\ main' = "shutdown"
    /\ pos' = Len(tasks)
    /\ UNCHANGED <<config, ctxDone, startup, timedOut, workerVars>>

\* http.Server.Shutdown closes the listener; a server that does not serve is
\* passed over.
ShutdownServer ==
    /\ main = "shutdown"
    /\ pos > 0
    /\ tasks[pos] \in Servers
    /\ server[tasks[pos]] # "draining"
    /\ IF server[tasks[pos]] = "serving"
       THEN server' = [server EXCEPT ![tasks[pos]] = "draining"] /\ UNCHANGED pos
       ELSE pos' = pos - 1 /\ UNCHANGED server
    /\ UNCHANGED <<config, main, exit, ctxDone, tasks, timedOut, workerVars>>

\* The open requests come to their end,
ServerDrained ==
    /\ main = "shutdown"
    /\ pos > 0
    /\ tasks[pos] \in Servers
    /\ server[tasks[pos]] = "draining"
    /\ server' = [server EXCEPT ![tasks[pos]] = "closed"]
    /\ pos' = pos - 1
    /\ UNCHANGED <<config, main, exit, ctxDone, tasks, timedOut, workerVars>>

\* or the deadline passes before, and the next component has its turn.
DrainTimeout ==
    /\ main = "shutdown"
    /\ pos > 0
    /\ tasks[pos] \in Servers
    /\ server[tasks[pos]] = "draining"
    /\ timedOut
    /\ pos' = pos - 1
    /\ UNCHANGED <<config, main, ctxDone, startup, timedOut, workerVars>>

\* Fault in ShutdownWorker: w.done is not waited for.
ShutdownWorkerAtOnce ==
    /\ main = "shutdown"
    /\ pos > 0
    /\ tasks[pos] = "worker"
    /\ pos' = pos - 1
    /\ UNCHANGED <<config, main, ctxDone, startup, timedOut, workerVars>>

\* Fault in ShutdownWorker: the deadline is ignored.
ShutdownWorkerWithoutDeadline ==
    /\ main = "shutdown"
    /\ pos > 0
    /\ tasks[pos] = "worker"
    /\ worker = "done"
    /\ pos' = pos - 1
    /\ UNCHANGED <<config, main, ctxDone, startup, timedOut, workerVars>>

\* pipelineWorker.Stop waits for w.done or for the deadline.
ShutdownWorker ==
    /\ main = "shutdown"
    /\ pos > 0
    /\ tasks[pos] = "worker"
    /\ worker = "done" \/ timedOut
    /\ pos' = pos - 1
    /\ UNCHANGED <<config, main, ctxDone, startup, timedOut, workerVars>>

ShutdownTimeout ==
    /\ main = "shutdown"
    /\ ~timedOut
    /\ timedOut' = TRUE
    /\ UNCHANGED <<config, main, ctxDone, startup, pos, workerVars>>

\* main returns.
Return ==
    /\ main = "shutdown"
    /\ pos = 0
    /\ main' = "ended"
    /\ exit' = "ok"
    /\ UNCHANGED <<config, ctxDone, server, tasks, shutdown, workerVars>>

-----------------------------------------------------------------------------
MainStep ==
    \/ StartMetrics
    \/ CreatePipelines
    \/ CreateProducer
    \/ ProducerFails
    \/ StartHealth
    \/ StopReturns("main")
    \/ BeginShutdown
    \/ ShutdownServer
    \/ DrainTimeout
    \/ ShutdownWorker
    \/ Return

LoopStep == LoopCheck \/ LoopPoll \/ LoopHandled

Next ==
    \/ StartMetrics
    \/ CreatePipelines
    \/ CreateProducer
    \/ ProducerFails
    \/ StartHealth
    \/ LoopStep
    \/ \E g \in {"main", "worker"} : StopReturns(g)
    \/ WorkerStop
    \/ WorkerClose
    \/ Signal
    \/ \E s \in Servers : ServeFails(s)
    \/ BeginShutdown
    \/ ShutdownServer
    \/ ServerDrained
    \/ DrainTimeout
    \/ ShutdownWorker
    \/ ShutdownTimeout
    \/ Return

Spec == Init /\ [][Next]_vars

(* main keeps running and the shutdown deadline passes; nothing is assumed *)
(* of the handlers, of the worker or of the requests the servers answer.   *)
MainFairSpec ==
    Spec /\ WF_vars(MainStep) /\ WF_vars(ShutdownTimeout)

-----------------------------------------------------------------------------
\* No handler runs without the consumer's client and an open producer, at
\* any point of startup, of a failing startup or of the shutdown: records in
\* flight can be sent, and sent records committed.
HandlerHasClients == Alive /\ loop = "handling" => cons = "open" /\ prod = "open"

\* If main returns before the deadline, every part has been shut down: the
\* loop is over, both Kafka clients are closed, no server is left serving or
\* answering a request.
CleanExit ==
    exit = "ok" /\ ~timedOut =>
        /\ LoopOver
        /\ cons = "closed" /\ prod = "closed"
        /\ \A s \in Servers : server[s] \notin {"serving", "draining"}

\* Once the root context is done the process ends, however far it has come:
\* a stuck handler, an open request or a worker that does not stop cannot
\* hold it beyond the deadline.  The one place where it may stay is the
\* clean-up after NewProducer has failed.
SignalEnds == ctxDone ~> (main = "ended" \/ main = "cleanup")
=============================================================================
