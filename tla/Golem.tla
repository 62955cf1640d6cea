------------------------------- MODULE Golem -------------------------------
(* Start and stop of the requestor: yapapi/golem.py, the start, stop and     *)
(* _shutdown of yapapi/engine.py and the event consumers of                  *)
(* event_dispatcher.py with the AsyncWrapper of utils.py.                    *)
(*                                                                           *)
(* Several tasks may start and stop the one Golem object.  A lock makes them *)
(* take turns; but a start that fails gives the lock back before it takes it *)
(* again to stop what it has started.  A stopped engine is replaced by a new *)
(* one, an engine whose stop raises is not.                                  *)
EXTENDS Naturals, Sequences, FiniteSets

CONSTANTS Callers,     \* tasks that call Golem.start() and Golem.stop()
          Jobs,        \* executors of the user
          Consumers,   \* event consumers, the first ones added before any start
          Late,        \* consumers the user adds later
          MaxEngines,  \* bound: starts begun
          MaxEvents    \* bound: events in the queue of a consumer

ASSUME LateAssumption == Late \subseteq Consumers
ASSUME GolemBoundsAssumption == MaxEngines \in Nat \ {0} /\ MaxEvents \in Nat

VARIABLES
  at,          \* where each caller is
  lock,        \* _engine_state_lock: the holder and then the waiters
  starts,      \* starts begun (for the bound)
  stack,       \* what is on _stack of the current engine
  started,     \* _started of the current engine
  awaiting,    \* _await_payments
  invoices,    \* the task _process_invoices of the current engine
  notes,       \* the task _process_debit_notes of the current engine
  raising,     \* an exception is on its way through the stack
  odd,         \* the engine was started twice, its start failed, or its stop raised (history)
  jobs,        \* each job of the current engine
  waitFor,     \* the jobs _shutdown waits for
  added,       \* consumers of the dispatcher
  open,        \* ... that have a task: they are not `closed`
  stopping,    \* ... whose stop() waits for the queue
  queue        \* events in the queue of each

engineVars == <<stack, started, awaiting, invoices, notes, raising, odd>>
jobVars == <<jobs, waitFor>>
dispatcherVars == <<added, open, stopping, queue>>
golemVars == <<at, lock, starts, engineVars, jobVars, dispatcherVars>>

Contexts == {"report", "clients", "allocation", "storage", "shutdown", "cluster"}
TaskStates == {"none", "running", "done"}
Stages == {"idle", "start", "allocations", "storage", "failed", "stop", "unwind", "generators",
           "jobs", "payments", "services", "dispatcher"}

GolemTypeOK ==
  /\ at \in [Callers -> Stages] /\ lock \in Seq(Callers) /\ starts \in 0..MaxEngines
  /\ stack \in Seq(Contexts)
  /\ {started, awaiting, raising, odd} \subseteq BOOLEAN
  /\ {invoices, notes} \subseteq TaskStates
  /\ jobs \in [Jobs -> TaskStates] /\ waitFor \subseteq Jobs
  /\ open \subseteq added /\ stopping \subseteq added /\ added \subseteq Consumers
  /\ queue \in [Consumers -> 0..MaxEvents]

(* _get_new_engine                                                           *)
NewEngine ==
  /\ stack' = <<>> /\ started' = FALSE /\ awaiting' = TRUE
  /\ invoices' = "none" /\ notes' = "none" /\ raising' = FALSE /\ odd' = FALSE
  /\ jobs' = [j \in Jobs |-> "none"] /\ waitFor' = {}

GolemInit ==
  /\ at = [c \in Callers |-> "idle"] /\ lock = <<>> /\ starts = 0
  /\ stack = <<>> /\ started = FALSE /\ awaiting = TRUE
  /\ invoices = "none" /\ notes = "none" /\ raising = FALSE /\ odd = FALSE
  /\ jobs = [j \in Jobs |-> "none"] /\ waitFor = {}
  /\ added = Consumers \ Late /\ open = {} /\ stopping = {}
  /\ queue = [k \in Consumers |-> 0]

Go(c, stage) == at' = [at EXCEPT ![c] = stage]
Holds(c) == lock # <<>> /\ Head(lock) = c
Acquire(c) == lock' = Append(lock, c)
ReleaseLock == lock' = Tail(lock)

----------------------------------------------------------------------------
(* Events                                                                    *)

(* AsyncEventDispatcher.emit calls the consumers in turn; a closed one makes *)
(* it raise RuntimeError.                                                    *)
CanEmit == added \subseteq open
Emitted == queue' = [k \in Consumers |-> IF k \in added THEN queue[k] + 1 ELSE queue[k]]
QueuesLeft == \A k \in added : queue[k] < MaxEvents

(* AsyncWrapper._worker: an event is taken and the callable called; it goes  *)
(* on, whatever the callable raises.                                         *)
Handle(k) ==
  /\ k \in open \cup stopping /\ queue[k] > 0
  /\ queue' = [queue EXCEPT ![k] = @ - 1]
  /\ UNCHANGED <<at, lock, starts, engineVars, jobVars, added, open, stopping>>

(* A consumer added while Golem is operative is started at once; one that is *)
(* added while Golem is starting is not, and nobody starts it later.         *)
AddConsumer(k) ==
  /\ k \notin added
  /\ added' = added \cup {k}
  /\ open' = IF started THEN open \cup {k} ELSE open
  /\ UNCHANGED <<at, lock, starts, engineVars, jobVars, stopping, queue>>

(* AsyncWrapper.start                                                        *)
StartConsumers == open' = added

----------------------------------------------------------------------------
(* Golem.start and _Engine.start                                             *)

CallStart(c) ==
  /\ at[c] = "idle" /\ starts < MaxEngines
  /\ Go(c, "start") /\ Acquire(c) /\ starts' = starts + 1
  /\ UNCHANGED <<engineVars, jobVars, dispatcherVars>>

(* "Something started us before we got to the locked part"                   *)
AlreadyOperative(c) ==
  /\ at[c] = "start" /\ Holds(c) /\ started
  /\ Go(c, "idle") /\ ReleaseLock
  /\ UNCHANGED <<starts, engineVars, jobVars, dispatcherVars>>

(* An exception: the lock is released, and _stop_with_exc_info waits for it. *)
StartFails(c) == Go(c, "failed") /\ lock' = Append(Tail(lock), c) /\ odd' = TRUE

(* The consumers, report_shutdown and the clients of the REST services.      *)
EnterClients(c) ==
  /\ at[c] = "start" /\ Holds(c) /\ ~started
  /\ StartConsumers
  /\ \/ /\ stack' = stack \o <<"report", "clients">> /\ Go(c, "allocations")
        /\ UNCHANGED <<lock, odd>>
     \/ stack' = stack \o <<"report">> /\ StartFails(c)
  /\ UNCHANGED <<starts, started, awaiting, invoices, notes, raising, jobVars,
                 added, stopping, queue>>

Allocated == IF \E i \in DOMAIN stack : stack[i] = "allocation" THEN <<>> ELSE <<"allocation">>

(* _create_allocations, and the services that process payments.              *)
EnterAllocations(c) ==
  /\ at[c] = "allocations" /\ Holds(c)
  /\ \/ /\ stack' = stack \o Allocated /\ Go(c, "storage")
        /\ invoices' = "running" /\ notes' = "running"
        /\ UNCHANGED <<lock, odd>>
     \/ stack' \in {stack, stack \o Allocated} /\ StartFails(c) /\ UNCHANGED <<invoices, notes>>
  /\ UNCHANGED <<starts, started, awaiting, raising, jobVars, dispatcherVars>>

(* The gftp provider; if it cannot be started nobody cancels the services.   *)
EnterStorage(c) ==
  /\ at[c] = "storage" /\ Holds(c)
  /\ \/ /\ stack' = stack \o <<"storage", "shutdown">> /\ started' = TRUE
        /\ Go(c, "idle") /\ ReleaseLock /\ UNCHANGED odd
     \/ StartFails(c) /\ UNCHANGED <<stack, started>>
  /\ UNCHANGED <<starts, awaiting, invoices, notes, raising, jobVars, dispatcherVars>>

----------------------------------------------------------------------------
(* Jobs of the user                                                          *)

(* execute_tasks registers a job, run_service too, with a cluster on the     *)
(* stack that exits before _shutdown; both may happen while the engine stops.*)
JobStarts(j) ==
  /\ started /\ jobs[j] = "none" /\ jobs' = [jobs EXCEPT ![j] = "running"]
  /\ stack' \in {stack, Append(stack, "cluster")}
  /\ UNCHANGED <<at, lock, starts, started, awaiting, invoices, notes, raising, odd,
                 waitFor, dispatcherVars>>

(* The job emits an event, and goes on or ends.  An error of emit is one of  *)
(* the job.                                                                  *)
JobStep(j) ==
  /\ jobs[j] = "running"
  /\ \/ CanEmit /\ QueuesLeft /\ Emitted /\ jobs' \in {jobs, [jobs EXCEPT ![j] = "done"]}
     \/ ~CanEmit /\ jobs' = [jobs EXCEPT ![j] = "done"] /\ UNCHANGED queue
  /\ UNCHANGED <<at, lock, starts, engineVars, waitFor, added, open, stopping>>

(* _process_invoices ends by itself: it raises, or it is closing.            *)
InvoicesEnd ==
  /\ invoices = "running" /\ invoices' = "done"
  /\ UNCHANGED <<at, lock, starts, stack, started, awaiting, notes, raising, odd,
                 jobVars, dispatcherVars>>

----------------------------------------------------------------------------
(* Golem.stop and _Engine.stop                                               *)

CallStop(c) ==
  /\ at[c] = "idle" /\ stack # <<>>
  /\ Go(c, "stop") /\ Acquire(c)
  /\ UNCHANGED <<starts, engineVars, jobVars, dispatcherVars>>

(* With an exception stop emits ExecutionInterrupted, which raises if the    *)
(* dispatcher has been stopped meanwhile.                                    *)
StopBegins(c) ==
  /\ at[c] \in {"stop", "failed"} /\ Holds(c)
  /\ IF at[c] = "stop" THEN awaiting' \in BOOLEAN ELSE awaiting' = TRUE
  /\ \/ at[c] = "stop" /\ Go(c, "unwind") /\ UNCHANGED <<lock, queue, odd>>
     \/ at[c] = "failed" /\ CanEmit /\ QueuesLeft /\ Emitted /\ Go(c, "unwind")
        /\ UNCHANGED <<lock, odd>>
     \/ at[c] = "failed" /\ ~CanEmit /\ Go(c, "idle") /\ ReleaseLock /\ odd' = TRUE
        /\ UNCHANGED queue
  /\ UNCHANGED <<starts, stack, started, invoices, notes, raising, jobVars,
                 added, open, stopping>>

Top == stack[Len(stack)]
Pop == stack' = SubSeq(stack, 1, Len(stack) - 1)

(* The stack is unwound to the end, whatever an exit raises.  The release of *)
(* the allocation and the exit of a client are calls that may fail.          *)
Unwind(c) ==
  /\ at[c] = "unwind" /\ stack # <<>> /\ Top # "shutdown" /\ Pop
  /\ \/ Top = "cluster" /\ UNCHANGED <<raising, queue>>
     \/ Top \in {"allocation", "clients", "storage"} /\ raising' \in {raising, TRUE}
        /\ UNCHANGED queue
     \/ Top = "report" /\ CanEmit /\ QueuesLeft /\ Emitted /\ UNCHANGED raising
     \/ Top = "report" /\ ~CanEmit /\ raising' = TRUE /\ UNCHANGED queue
  /\ UNCHANGED <<at, lock, starts, started, awaiting, invoices, notes, odd, jobVars,
                 added, open, stopping>>

EnterShutdown(c) ==
  /\ at[c] = "unwind" /\ stack # <<>> /\ Top = "shutdown" /\ Pop /\ Go(c, "generators")
  /\ UNCHANGED <<lock, starts, started, awaiting, invoices, notes, raising, odd, jobVars,
                 dispatcherVars>>

(* The generators of the executors are closed, which ends their jobs; one    *)
(* that is running raises, and the rest of _shutdown is skipped.             *)
CloseGenerators(c) ==
  /\ at[c] = "generators"
  /\ \/ Go(c, "jobs") /\ waitFor' = {j \in Jobs : jobs[j] # "none"} /\ UNCHANGED <<raising, odd>>
     \/ /\ \E j \in Jobs : jobs[j] = "running"
        /\ Go(c, "unwind") /\ raising' = TRUE /\ odd' = TRUE /\ UNCHANGED waitFor
  /\ UNCHANGED <<lock, starts, stack, started, awaiting, invoices, notes, jobs,
                 dispatcherVars>>

JobsFinished(c) ==
  /\ at[c] = "jobs" /\ \A j \in waitFor : jobs[j] = "done"
  /\ notes' = "done" /\ waitFor' = {}
  /\ Go(c, IF awaiting THEN "payments" ELSE "services")
  /\ UNCHANGED <<lock, starts, stack, started, awaiting, invoices, raising, odd, jobs,
                 dispatcherVars>>

(* The last invoices come, or the time for them runs out; the invoice        *)
(* service is cancelled then, but only if payments are awaited.  One that    *)
(* has died of an exception makes the wait for it raise that exception.      *)
PaymentsAwaited(c) ==
  /\ at[c] = "payments" /\ invoices' = "done"
  /\ \/ Go(c, "services") /\ UNCHANGED <<raising, odd>>
     \/ invoices = "done" /\ Go(c, "unwind") /\ raising' = TRUE /\ odd' = TRUE
  /\ UNCHANGED <<lock, starts, stack, started, awaiting, notes, jobVars,
                 dispatcherVars>>

(* Mutated form: the wait for the services is left out.                      *)
MutServicesEnded == TRUE

ServicesEnded == invoices # "running" /\ notes # "running"

(* asyncio.wait: all of the services, or ten seconds.                        *)
ServicesDone(c) ==
  /\ at[c] = "services"
  /\ \/ ServicesEnded /\ UNCHANGED odd
     \/ ~awaiting /\ odd' = TRUE
  /\ Go(c, "unwind")
  /\ UNCHANGED <<lock, starts, stack, started, awaiting, invoices, notes, raising,
                 jobVars, dispatcherVars>>

(* The stack is empty: the exception leaves stop(), or the dispatcher stops: *)
(* all consumers are closed at once, and each then waits for its queue.      *)
StackEmpty(c) ==
  /\ at[c] = "unwind" /\ stack = <<>>
  /\ raising' = FALSE
  /\ IF raising THEN Go(c, "idle") /\ ReleaseLock /\ odd' = TRUE /\ UNCHANGED <<open, stopping>>
     ELSE Go(c, "dispatcher") /\ stopping' = open /\ open' = {} /\ UNCHANGED <<lock, odd>>
  /\ UNCHANGED <<starts, stack, started, awaiting, invoices, notes, jobVars, added, queue>>

Drained == \A k \in stopping : queue[k] = 0

DispatcherStopped(c) ==
  /\ at[c] = "dispatcher" /\ Drained
  /\ stopping' = {} /\ Go(c, "idle") /\ ReleaseLock /\ NewEngine
  /\ UNCHANGED <<starts, added, open, queue>>

Starts(c) == AlreadyOperative(c) \/ EnterClients(c) \/ EnterAllocations(c) \/ EnterStorage(c)
Stops(c) ==
  \/ StopBegins(c) \/ Unwind(c) \/ EnterShutdown(c) \/ CloseGenerators(c) \/ JobsFinished(c)
  \/ PaymentsAwaited(c) \/ ServicesDone(c) \/ StackEmpty(c) \/ DispatcherStopped(c)

GolemNext ==
  \/ \E c \in Callers : CallStart(c) \/ CallStop(c) \/ Starts(c) \/ Stops(c)
  \/ \E k \in Consumers : Handle(k) \/ AddConsumer(k)
  \/ \E j \in Jobs : JobStarts(j) \/ JobStep(j)
  \/ InvoicesEnd

(* Fairness: calls of the API return or fail, jobs end (JobEnds of Executor, *)
(* ExitCompletes of Services), the callables of consumers return.            *)
JobEnds(j) == JobStep(j) /\ jobs'[j] = "done"
GolemFairness ==
  /\ \A c \in Callers : WF_golemVars(Starts(c)) /\ SF_golemVars(Stops(c))
  /\ \A k \in Consumers : WF_golemVars(Handle(k))
  /\ \A j \in Jobs : SF_golemVars(JobEnds(j))

GolemSpec == GolemInit /\ [][GolemNext]_golemVars /\ GolemFairness

----------------------------------------------------------------------------
(* Properties                                                                *)

(* Payments are accepted from the allocation: it is not released while the   *)
(* invoice service runs.  The order of the exit stack and the waits of       *)
(* _shutdown (engine.py:236-347) give that, except to an engine whose start  *)
(* failed, whose stop raised, or that does not wait for payments.            *)
AllocationOutlivesPayments ==
  invoices = "running" /\ ~odd => \E i \in DOMAIN stack : stack[i] = "allocation"

(* "process queued calls but do not accept any new ones" (utils.py:65):      *)
(* an event that emit has taken is handled, whenever consumers are stopped.  *)
QueuedEventsHandled == \A k \in added \ (open \cup stopping) : queue[k] = 0

(* A call of stop() returns or raises, whatever starts and stops are waiting *)
(* for the lock and whatever fails.                                          *)
StopReturns == \A c \in Callers : at[c] \in {"stop", "failed"} ~> at[c] = "idle"
=============================================================================
