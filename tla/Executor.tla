------------------------------ MODULE Executor ------------------------------
(* One job of an Executor: yapapi/executor/__init__.py (_submit,             *)
(* run_worker, worker_starter, _create_task_generator) over the task queue   *)
(* of SmartQueue.tla and the worker tasks of yapapi/engine.py (start_worker).*)
(*                                                                           *)
(* The main loop of _submit multiplexes the service tasks (find_offers,      *)
(* wait_until_done, worker_starter, get_done) and the worker tasks with      *)
(* asyncio.wait, yields accepted tasks to the user, and cleans up.  A worker *)
(* task stands for its Consumer: run_worker makes one consumer and leaves it *)
(* when it ends.                                                             *)
EXTENDS Naturals, Sequences, FiniteSets

CONSTANTS Items, Consumers, NoConsumer,
          MaxWorkers  \* max_workers of the Executor

ASSUME MaxWorkersAssumption == MaxWorkers \in Nat \ {0}
ASSUME NoConsumerAssumption == NoConsumer \notin Consumers

VARIABLES incoming, source, held, buffer, rescheduled, inProgress, prevConsumers,
          consumer, status, cstate, waitDone, spawned  \* see SmartQueue

VARIABLES
  wtask,      \* the worker task of each consumer: see WorkerState
  workers,    \* `workers`: the worker tasks the main loop knows of
  services,   \* `services`, by name
  offers,     \* find_offers_task: "running", "failed", "cancelled"
  starter,    \* worker_starter_task: "sleeping", "starting", "cancelled"
  doneQueue,  \* done_queue
  getDone,    \* get_done_task: "none", "pending", "ready", "cancelled"
  got,        \* the result of get_done_task, a set of at most one item
  yielded,    \* what _submit has yielded, in order
  main,       \* where _submit (and _create_task_generator around it) is
  waitSet,    \* the tasks handed to asyncio.wait
  outcome     \* why the main loop ended: see Outcome

queueVars == <<incoming, source, held, buffer, rescheduled, inProgress, prevConsumers,
               consumer, status, cstate, waitDone, spawned>>
resultVars == <<doneQueue, getDone, got, yielded>>
mainVars == <<main, waitSet, outcome>>
execVars == <<wtask, workers, services, offers, starter, resultVars, mainVars>>
vars == <<queueVars, execVars>>

Q == INSTANCE SmartQueue

(* "created": creating the activity; "running": in run_worker; "ending":     *)
(* destroying the activity, releasing the agreement; "cancelling": cancelled *)
(* and in its finally clause (accept_payments_for_agreement).                *)
WorkerState == {"none", "created", "running", "ending", "cancelling", "done", "cancelled"}
TaskDone == {"done", "cancelled"}
(* "cancelled": a worker task's CancelledError came out of "await task";     *)
(* "user_stopped": the user closed the generator or its task was cancelled.  *)
Outcome == {"none", "finished", "timeout", "service_error", "cancelled", "user_stopped"}
Service == {"find_offers", "wait_until_done", "worker_starter", "get_done"}

(* No worker task is one of the service tasks. *)
ASSUME TaskAssumption == Consumers \cap Service = {}

TypeOK ==
  /\ Q!TypeOK
  /\ wtask \in [Consumers -> WorkerState]
  /\ workers \subseteq Consumers
  /\ services \subseteq Service
  /\ offers \in {"running", "failed", "cancelled"}
  /\ starter \in {"sleeping", "starting", "cancelled"}
  /\ doneQueue \in Seq(Items)
  /\ getDone \in {"none", "pending", "ready", "cancelled"}
  /\ got \subseteq Items /\ Cardinality(got) = (IF getDone = "ready" THEN 1 ELSE 0)
  /\ yielded \in Seq(Items)
  /\ main \in {"check", "waiting", "yielding", "closing", "stopping", "draining",
               "gathering", "finalizing", "finalized"}
  /\ waitSet \subseteq Service \cup Consumers
  /\ outcome \in Outcome

Init ==
  /\ Q!Init
  /\ wtask = [c \in Consumers |-> "none"]
  /\ workers = {}
  /\ services = {"find_offers", "wait_until_done", "worker_starter"}
  /\ offers = "running"
  /\ starter = "sleeping"
  /\ doneQueue = <<>>
  /\ getDone = "none"
  /\ got = {}
  /\ yielded = <<>>
  /\ main = "check"
  /\ waitSet = {}
  /\ outcome = "none"

-----------------------------------------------------------------------------
(* Queue coroutines that belong to no worker *)

QueueStep ==
  /\ \/ Q!FillBuffer
     \/ Q!RunSpawned
     \/ Q!WaitUntilDone /\ "wait_until_done" \in services
     \/ \E c \in Consumers : wtask[c] = "running" /\ Q!WakeUp(c)
  /\ UNCHANGED execVars

-----------------------------------------------------------------------------
(* Worker tasks *)

SetTask(c, state) == wtask' = [wtask EXCEPT ![c] = state]

(* create_activity() succeeds and run_worker enters its consumer. *)
EnterRunWorker(c) ==
  /\ wtask[c] = "created"
  /\ SetTask(c, "running")
  /\ Q!NewConsumer(c)
  /\ UNCHANGED <<workers, services, offers, starter, resultVars, mainVars>>

ActivityFails(c) ==
  /\ wtask[c] = "created"
  /\ SetTask(c, "done")
  /\ UNCHANGED <<queueVars, workers, services, offers, starter, resultVars, mainVars>>

(* The user's worker asks for a task, once it has settled the one it has,    *)
(* rejects it, or closes its task generator.                                 *)
Work(c) ==
  /\ wtask[c] = "running"
  /\ \/ (\A i \in Q!HeldBy(c) : status[i] # "running") /\ Q!Anext(c)
     \/ Q!CloseTasks(c)
     \/ \E i \in Items, retry \in BOOLEAN : Q!Reject(i, c, retry)
  /\ UNCHANGED execVars

(* accept_result(): the callback on_task_done puts the task in done_queue.   *)
AcceptResult(i, c) ==
  /\ wtask[c] = "running"
  /\ Q!Accept(i, c)
  /\ doneQueue' = Append(doneQueue, i)
  /\ UNCHANGED <<wtask, workers, services, offers, starter, getDone, got, yielded, mainVars>>

(* run_worker returns or raises; its consumer is left. *)
LeaveRunWorker(c) ==
  /\ wtask[c] = "running"
  /\ Q!Exit(c)
  /\ SetTask(c, "ending")
  /\ UNCHANGED <<workers, services, offers, starter, resultVars, mainVars>>

WorkerEnds(c) ==
  /\ wtask[c] = "ending"
  /\ SetTask(c, "done")
  /\ UNCHANGED <<queueVars, workers, services, offers, starter, resultVars, mainVars>>

(* Task.cancel() for each worker task of S that is not done *)
Cancelled(S) == [c \in Consumers |-> IF c \in S /\ wtask[c] \in {"created", "running", "ending"}
                                     THEN "cancelling" ELSE wtask[c]]

(* _enforce_debit_note_intervals terminates the agreement of a worker whose  *)
(* provider sends debit notes too often; _terminate_agreement cancels it.    *)
EnforceDebitNotes(c) ==
  /\ wtask[c] \in {"running", "ending"}
  /\ wtask' = Cancelled({c})
  /\ UNCHANGED <<queueVars, workers, services, offers, starter, resultVars, mainVars>>

(* CancelledError has passed through run_worker and the worker task; but the *)
(* finally clause of run_worker replaces it with StopAsyncIteration when     *)
(* finish() was called, and then the worker task goes on to its end.         *)
CancelCompletes(c) ==
  /\ wtask[c] = "cancelling"
  /\ SetTask(c, IF cstate[c] = "finished" THEN "ending" ELSE "cancelled")
  /\ IF cstate[c] \in {"new", "exited"} THEN UNCHANGED queueVars ELSE Q!Exit(c)
  /\ UNCHANGED <<workers, services, offers, starter, resultVars, mainVars>>

-----------------------------------------------------------------------------
(* Service tasks *)

(* Mutated form: one worker too many. *)
StarterTickOffByOne ==
  /\ starter = "sleeping"
  /\ Cardinality(workers) <= MaxWorkers
  /\ Q!HasUnassignedItems
  /\ starter' = "starting"
  /\ UNCHANGED <<queueVars, wtask, workers, services, offers, resultVars, mainVars>>

(* worker_starter, every 2 s: cycle() the pool, then start_worker(). *)
StarterTick ==
  /\ starter = "sleeping"
  /\ Cardinality(workers) < MaxWorkers
  /\ Q!HasUnassignedItems
  /\ starter' = "starting"
  /\ UNCHANGED <<queueVars, wtask, workers, services, offers, resultVars, mainVars>>

(* cycle() asks a cancelled worker task, whose agreement is still being      *)
(* terminated, for its exception(): the CancelledError ends worker_starter.  *)
CycleRaises ==
  /\ starter = "sleeping"
  /\ \E c \in Consumers : wtask[c] = "cancelled"
  /\ starter' = "cancelled"
  /\ UNCHANGED <<queueVars, wtask, workers, services, offers, resultVars, mainVars>>

(* Mutated form: the new task is not added to `workers`. *)
StarterStartsUntracked(c) ==
  /\ starter = "starting"
  /\ wtask[c] = "none"
  /\ SetTask(c, "created")
  /\ starter' = "sleeping"
  /\ UNCHANGED <<queueVars, workers, services, offers, resultVars, mainVars>>

StarterStarts(c) ==
  /\ starter = "starting"
  /\ wtask[c] = "none"
  /\ SetTask(c, "created")
  /\ workers' = workers \cup {c}
  /\ starter' = "sleeping"
  /\ UNCHANGED <<queueVars, services, offers, resultVars, mainVars>>

(* No agreement to use, or getting one failed. *)
StarterGivesUp ==
  /\ starter = "starting"
  /\ starter' = "sleeping"
  /\ UNCHANGED <<queueVars, wtask, workers, services, offers, resultVars, mainVars>>

(* done_queue.get() in get_done_task *)
GetDoneTask ==
  /\ getDone = "pending"
  /\ doneQueue # <<>>
  /\ getDone' = "ready"
  /\ got' = {Head(doneQueue)}
  /\ doneQueue' = Tail(doneQueue)
  /\ UNCHANGED <<queueVars, wtask, workers, services, offers, starter, yielded, mainVars>>

-----------------------------------------------------------------------------
(* The main loop *)

End(why) == outcome' = why /\ main' = "closing"

(* Mutated form: done_queue is not looked at. *)
AllDeliveredIgnoringQueue(remaining) == "wait_until_done" \notin remaining

AllDelivered(remaining) == "wait_until_done" \notin remaining /\ doneQueue = <<>>

LeaveLoop(remaining, why) ==
  /\ End(why)
  /\ services' = remaining
  /\ waitSet' = {}
  /\ UNCHANGED getDone

CallWait(remaining, live) ==
  /\ getDone' = IF getDone = "none" THEN "pending" ELSE getDone
  /\ services' = remaining \cup {"get_done"}
  /\ waitSet' = services' \cup live
  /\ main' = "waiting"
  /\ UNCHANGED outcome

(* From the evaluation of the loop's condition, "while wait_until_done in    *)
(* services or not done_queue.empty()", to the call of asyncio.wait: one     *)
(* step, together with what comes before it, for nothing suspends.  At any   *)
(* iteration the job's expiration_time may turn out to have passed.          *)
Loop(remaining, live) ==
  IF AllDelivered(remaining) THEN LeaveLoop(remaining, "finished")
  ELSE LeaveLoop(remaining, "timeout") \/ CallWait(remaining, live)

Start ==
  /\ main = "check"
  /\ Loop(services, workers)
  /\ UNCHANGED <<queueVars, wtask, workers, offers, starter, doneQueue, got, yielded>>

(* What asyncio.wait returns as done, a failed find_offers aside.            *)
Done == {s \in waitSet : \/ s = "wait_until_done" /\ waitDone = "done"
                         \/ s = "worker_starter" /\ starter = "cancelled"
                         \/ s = "get_done" /\ getDone = "ready"
                         \/ s \in Consumers /\ wtask[s] \in TaskDone}

WorkerCancelled == \E c \in Done \cap Consumers : wtask[c] = "cancelled"

(* Mutated form: get_done_task is not reset after its result is yielded. *)
YieldDoneKeep ==
  /\ \E i \in got : yielded' = Append(yielded, i)
  /\ main' = "yielding"
  /\ services' = services \ Done
  /\ waitSet' = {}
  /\ UNCHANGED <<got, getDone, outcome>>

(* Mutated form: the task is reset, its result is not. *)
YieldDoneStale ==
  /\ \E i \in got : yielded' = Append(yielded, i)
  /\ getDone' = "none"
  /\ main' = "yielding"
  /\ services' = services \ Done
  /\ waitSet' = {}
  /\ UNCHANGED <<got, outcome>>

YieldDone ==
  /\ \E i \in got : yielded' = Append(yielded, i)
  /\ got' = {}
  /\ getDone' = "none"
  /\ main' = "yielding"
  /\ services' = services \ Done
  /\ waitSet' = {}
  /\ UNCHANGED outcome

(* Mutated form: asyncio.wait without its timeout. *)
WaitReturnsWhenDone == Done # {}

(* asyncio.wait returns with what is done, or after 10 s with nothing.       *)
WaitReturns == TRUE

Resume ==
  /\ main = "waiting" /\ WaitReturns
  /\ ~WorkerCancelled
  /\ workers' = workers \ Done
  /\ \/ getDone = "ready" /\ YieldDone
     \/ getDone # "ready" /\ Loop(services \ Done, workers \ Done) /\ UNCHANGED <<got, yielded>>
  /\ UNCHANGED <<queueVars, wtask, offers, starter, doneQueue>>

(* find_offers has failed; the main loop raises its exception. *)
ServiceRaises ==
  /\ main = "waiting"
  /\ offers = "running" /\ offers' = "failed"
  /\ End("service_error")
  /\ waitSet' = {}
  /\ UNCHANGED <<queueVars, wtask, workers, services, starter, resultVars>>

(* Awaiting a cancelled worker task raises CancelledError, which             *)
(* "except Exception" does not catch.                                        *)
WorkerRaises ==
  /\ main = "waiting"
  /\ WorkerCancelled
  /\ End("cancelled")
  /\ waitSet' = {}
  /\ UNCHANGED <<queueVars, wtask, workers, services, offers, starter, resultVars>>

(* The user takes the yielded task and asks for the next. *)
UserNext ==
  /\ main = "yielding"
  /\ Loop(services, workers)
  /\ UNCHANGED <<queueVars, wtask, workers, offers, starter, doneQueue, got, yielded>>

(* The user leaves its loop, or its own task is cancelled. *)
UserStops ==
  /\ main \in {"waiting", "yielding"}
  /\ waitSet' = {}
  /\ End("user_stopped")
  /\ UNCHANGED <<queueVars, wtask, workers, services, offers, starter, resultVars>>

-----------------------------------------------------------------------------
(* The finally clauses of _submit and of _create_task_generator *)

(* work_queue.close(); the exception of a failed data iterator comes out     *)
(* here and skips the rest of the first clause.                              *)
CloseQueue ==
  /\ main = "closing"
  /\ main' = IF source = "failed" THEN "gathering" ELSE "stopping"
  /\ IF source = "running" THEN Q!Close ELSE UNCHANGED queueVars
  /\ UNCHANGED <<wtask, workers, services, offers, starter, resultVars, waitSet, outcome>>

CancelServices ==
  /\ offers' = IF offers = "running" THEN "cancelled" ELSE offers
  /\ starter' = "cancelled"
  /\ getDone' = IF getDone = "pending" THEN "cancelled" ELSE getDone

StopServices ==
  /\ main = "stopping"
  /\ main' = "draining"
  /\ CancelServices
  /\ wtask' = IF outcome = "finished" THEN wtask ELSE Cancelled(workers)
  /\ UNCHANGED <<queueVars, workers, services, doneQueue, got, yielded, waitSet, outcome>>

(* The workers had up to 10 s; terminate_all() then cancels those that still *)
(* have their agreement (a worker that is ending may have released it).      *)
TerminateAgreements ==
  /\ main = "draining"
  /\ main' = "gathering"
  /\ \E S \in SUBSET Consumers :
       /\ {c \in Consumers : wtask[c] \in {"created", "running"}} \subseteq S
       /\ wtask' = Cancelled(S)
  /\ UNCHANGED <<queueVars, workers, services, offers, starter, resultVars, waitSet, outcome>>

(* all_tasks are cancelled, gathered, and the job is finalized.              *)
GatherCancels ==
  /\ main = "gathering"
  /\ main' = "finalizing"
  /\ CancelServices
  /\ wtask' = Cancelled(workers)
  /\ UNCHANGED <<queueVars, workers, services, doneQueue, got, yielded, waitSet, outcome>>

Finalize ==
  /\ main = "finalizing"
  /\ offers # "running" /\ starter = "cancelled" /\ getDone # "pending"
  /\ \A c \in workers : wtask[c] \in TaskDone
  /\ main' = "finalized"
  /\ UNCHANGED <<queueVars, wtask, workers, services, offers, starter, resultVars, waitSet,
                 outcome>>

-----------------------------------------------------------------------------
WorkerStep(c) ==
  \/ EnterRunWorker(c) \/ ActivityFails(c) \/ Work(c) \/ LeaveRunWorker(c)
  \/ WorkerEnds(c) \/ EnforceDebitNotes(c) \/ CancelCompletes(c)
  \/ \E i \in Items : AcceptResult(i, c)

ServiceStep ==
  \/ StarterTick \/ CycleRaises \/ StarterGivesUp \/ GetDoneTask
  \/ \E c \in Consumers : StarterStarts(c)

MainStep ==
  \/ Start \/ Resume \/ ServiceRaises \/ WorkerRaises \/ UserNext \/ UserStops
  \/ CloseQueue \/ StopServices \/ TerminateAgreements \/ GatherCancels \/ Finalize

Next == QueueStep \/ ServiceStep \/ MainStep \/ \E c \in Consumers : WorkerStep(c)

Spec == Init /\ [][Next]_vars

(* The expiration_time passes: the wait that ends after it ends the loop. *)
TimesOut == Resume /\ outcome' = "timeout"

(* The event loop resumes what is ready, REST calls return, time passes, and *)
(* the user goes on iterating.                                               *)
Fairness ==
  /\ WF_vars(Start) /\ WF_vars(Resume) /\ WF_vars(TimesOut) /\ WF_vars(WorkerRaises)
  /\ WF_vars(UserNext) /\ WF_vars(CloseQueue) /\ WF_vars(StopServices)
  /\ WF_vars(TerminateAgreements) /\ WF_vars(GatherCancels) /\ WF_vars(Finalize)
  /\ \A c \in Consumers : WF_vars(WorkerEnds(c)) /\ WF_vars(CancelCompletes(c))

FairSpec == Spec /\ Fairness

-----------------------------------------------------------------------------
(* Correctness *)

Yielded == {yielded[k] : k \in DOMAIN yielded}

(* When the loop ends by itself, every task has been settled and every task  *)
(* whose result was accepted has been yielded: none is left in done_queue or *)
(* in get_done_task, in whatever order wait_until_done and they complete.    *)
FinishedMeansAllYielded ==
  outcome = "finished" => /\ \A i \in Items : status[i] \in Q!Settled
                          /\ \A i \in Items : status[i] = "accepted" => i \in Yielded

(* A task is on its way to the user at most once, and only if accepted.      *)
YieldedOnce ==
  LET way == yielded \o doneQueue
  IN /\ \A k, l \in DOMAIN way : way[k] = way[l] => k = l
     /\ \A k \in DOMAIN way : way[k] \notin got /\ status[way[k]] = "accepted"

(* max_workers bounds the worker tasks that are alive, although the check    *)
(* and the start are separated by the negotiation of an agreement.           *)
WorkerLimit ==
  Cardinality({c \in Consumers : wtask[c] \notin {"none", "done", "cancelled"}}) <= MaxWorkers

(* Nothing of a job outlives it: when it is finalized no worker and no       *)
(* service task is alive, however the loop ended.                            *)
FinalizedIsQuiet ==
  main = "finalized" => /\ \A c \in Consumers : wtask[c] \in {"none"} \cup TaskDone
                        /\ offers # "running" /\ starter = "cancelled" /\ getDone # "pending"

(* A job ends, whatever workers, providers and the data iterator do.         *)
JobEnds == <>(main = "finalized")

(* "CancelledError is an 'external' error, not caused by the Executor        *)
(* internals": the main loop is only ever cancelled by its user.             *)
CancelledIsExternal == outcome # "cancelled"
=============================================================================
