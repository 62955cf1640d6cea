----------------------------- MODULE SmartQueue -----------------------------
(* The task queue of an Executor: yapapi/executor/_smartq.py (SmartQueue,    *)
(* Handle, Consumer) with the part of yapapi/executor/task.py that drives it *)
(* (Task.for_handle, accept_result, reject_result, _stop).                   *)
(*                                                                           *)
(* One step of the model is what one asyncio task does between two           *)
(* suspension points.  No section of the queue suspends while it holds       *)
(* _lock (Condition.wait releases it), so each section is one step.  A       *)
(* coroutine given to create_task() runs later: the queue operations a task  *)
(* or a consumer leaves behind are kept in `spawned`, in call order, and the *)
(* event loop runs them in that order.                                       *)
(*                                                                           *)
(* A Handle is created once for an item and lives as long as it, so an item  *)
(* stands for its handle.                                                    *)
EXTENDS Naturals, Sequences

CONSTANTS Items,      \* the Task objects the data iterator yields
          Consumers,  \* the Consumer objects new_consumer() may create
          NoConsumer  \* the consumer of a handle that does not exist yet

ASSUME NoConsumerAssumption == NoConsumer \notin Consumers

VARIABLES
  incoming,       \* items the data iterator has not yielded yet
  source,         \* state of _buffer_task: "running", "finished", "failed", "cancelled"
  held,           \* the item _fill_buffer waits to put, as a set of at most one
  buffer,         \* _buffer, an asyncio.Queue(maxsize=1)
  rescheduled,    \* _rescheduled_items
  inProgress,     \* _in_progress
  prevConsumers,  \* Handle._prev_consumers
  consumer,       \* Handle._consumer
  status,         \* Task._status
  cstate,         \* where each Consumer, and the worker that iterates it, is
  waitDone,       \* where the wait_until_done() task is
  spawned         \* create_task()ed queue operations that have not run yet

sourceVars == <<incoming, source, held>>
handleVars == <<prevConsumers, consumer>>
vars == <<incoming, source, held, buffer, rescheduled, inProgress, prevConsumers,
          consumer, status, cstate, waitDone, spawned>>

TaskStatus == {"waiting", "running", "accepted", "rejected"}
Settled == {"accepted", "rejected"}

(* "idle": the worker runs its own code; "waiting": blocked in               *)
(* _new_items.wait(); "woken": notified, not resumed yet; "finished":        *)
(* Consumer.finish() was called; "drained": its task generator ended without *)
(* it, as when get() raises StopAsyncIteration; "exited": __exit__ ran.      *)
ConsumerState == {"new", "idle", "waiting", "woken", "finished", "drained", "exited"}

MarkDone(i) == [op |-> "mark_done", arg |-> i]
Reschedule(i) == [op |-> "reschedule", arg |-> i]
RescheduleAll(c) == [op |-> "reschedule_all", arg |-> c]

ItemOps == [op : {"mark_done", "reschedule"}, arg : Items]
Ops == ItemOps \cup [op : {"reschedule_all"}, arg : Consumers]

AtMostOne(S) == \A x, y \in S : x = y

TypeOK ==
  /\ incoming \subseteq Items
  /\ source \in {"running", "finished", "failed", "cancelled"}
  /\ held \subseteq Items /\ AtMostOne(held)
  /\ buffer \subseteq Items /\ AtMostOne(buffer)
  /\ rescheduled \subseteq Items
  /\ inProgress \subseteq Items
  /\ prevConsumers \in [Items -> SUBSET Consumers]
  /\ consumer \in [Items -> Consumers \cup {NoConsumer}]
  /\ status \in [Items -> TaskStatus]
  /\ cstate \in [Consumers -> ConsumerState]
  /\ waitDone \in {"waiting", "woken", "done"}
  /\ spawned \in Seq(Ops)

Init ==
  /\ incoming = Items
  /\ source = "running"
  /\ held = {}
  /\ buffer = {}
  /\ rescheduled = {}
  /\ inProgress = {}
  /\ prevConsumers = [i \in Items |-> {}]
  /\ consumer = [i \in Items |-> NoConsumer]
  /\ status = [i \in Items |-> "waiting"]
  /\ cstate = [c \in Consumers |-> "new"]
  /\ waitDone = "woken"
  /\ spawned = <<>>

-----------------------------------------------------------------------------
(* The queue's own predicates and notifications *)

HasUnassignedItems == rescheduled # {} \/ buffer # {}

Finished == ~HasUnassignedItems /\ inProgress = {} /\ source = "finished"

(* _new_items.notify_all(): every consumer in the condition's wait set *)
NotifyNewItems == cstate' = [c \in Consumers |-> IF cstate[c] = "waiting" THEN "woken"
                                                                          ELSE cstate[c]]

(* _eof.notify_all() *)
NotifyEof == waitDone' = IF waitDone = "waiting" THEN "woken" ELSE waitDone

-----------------------------------------------------------------------------
(* _fill_buffer *)

(* Mutated form: the buffer has no maxsize. *)
PullUnbounded(i) ==
  /\ source = "running" /\ held = {}
  /\ i \in incoming
  /\ incoming' = incoming \ {i}
  /\ buffer' = buffer \cup {i}
  /\ NotifyNewItems
  /\ UNCHANGED <<source, held, rescheduled, inProgress, handleVars, status, waitDone, spawned>>

(* The data iterator yields `i`; put() suspends when the buffer is full. *)
Pull(i) ==
  /\ source = "running" /\ held = {}
  /\ i \in incoming
  /\ incoming' = incoming \ {i}
  /\ \/ buffer = {} /\ buffer' = {i} /\ NotifyNewItems /\ UNCHANGED held
     \/ buffer # {} /\ held' = {i} /\ UNCHANGED <<buffer, cstate>>
  /\ UNCHANGED <<source, rescheduled, inProgress, handleVars, status, waitDone, spawned>>

(* The suspended put() completes once a consumer has emptied the buffer. *)
Put ==
  /\ source = "running" /\ held # {}
  /\ buffer = {}
  /\ buffer' = held
  /\ held' = {}
  /\ NotifyNewItems
  /\ UNCHANGED <<incoming, source, rescheduled, inProgress, handleVars, status, waitDone, spawned>>

EndOfInput ==
  /\ source = "running" /\ held = {} /\ incoming = {}
  /\ source' = "finished"
  /\ NotifyEof
  /\ NotifyNewItems
  /\ UNCHANGED <<incoming, held, buffer, rescheduled, inProgress, handleVars, status, spawned>>

(* The data iterator raises: the exception ends _buffer_task, unnoticed      *)
(* until close() awaits it, and _incoming_finished stays False.              *)
SourceFails ==
  /\ source = "running" /\ held = {}
  /\ source' = "failed"
  /\ UNCHANGED <<incoming, held, buffer, rescheduled, inProgress, handleVars, status, cstate,
                 waitDone, spawned>>

(* close(): cancels _buffer_task; an item it was about to put is dropped. *)
Close ==
  /\ source = "running"
  /\ source' = "cancelled"
  /\ UNCHANGED <<incoming, held, buffer, rescheduled, inProgress, handleVars, status, cstate,
                 waitDone, spawned>>

-----------------------------------------------------------------------------
(* SmartQueue.get and Consumer.__anext__ *)

(* new_consumer(), entered by run_worker *)
NewConsumer(c) ==
  /\ cstate[c] = "new"
  /\ cstate' = [cstate EXCEPT ![c] = "idle"]
  /\ UNCHANGED <<sourceVars, buffer, rescheduled, inProgress, handleVars, status, waitDone, spawned>>

(* Mutated form: any rescheduled handle will do. *)
FindRescheduledAny(c) == rescheduled

(* __find_rescheduled_item: the handles it may return (it walks a set). *)
FindRescheduled(c) == {i \in rescheduled : c \notin prevConsumers[i]}

(* assign_consumer (or the constructor of a new Handle), _in_progress.add    *)
(* and Task.for_handle, which follows the return of get() at once.           *)
Assign(i, c) ==
  /\ inProgress' = inProgress \cup {i}
  /\ prevConsumers' = [prevConsumers EXCEPT ![i] = @ \cup {c}]
  /\ consumer' = [consumer EXCEPT ![i] = c]
  /\ status' = [status EXCEPT ![i] = "running"]

GetRescheduled(c) ==
  \E i \in FindRescheduled(c) :
    /\ rescheduled' = rescheduled \ {i}
    /\ Assign(i, c)
    /\ cstate' = [cstate EXCEPT ![c] = "idle"]
    /\ UNCHANGED buffer

GetBuffered(c) ==
  /\ FindRescheduled(c) = {}
  /\ \E i \in buffer :
       /\ buffer' = buffer \ {i}
       /\ Assign(i, c)
       /\ cstate' = [cstate EXCEPT ![c] = "idle"]
       /\ UNCHANGED rescheduled

WaitForItems(c) ==
  /\ FindRescheduled(c) = {} /\ buffer = {}
  /\ cstate' = [cstate EXCEPT ![c] = "waiting"]
  /\ UNCHANGED <<buffer, rescheduled, inProgress, handleVars, status>>

(* The queue is finished: wake the others and raise StopAsyncIteration. *)
StopIteration(c) ==
  /\ cstate' = [d \in Consumers |-> IF d = c THEN "drained"
                                    ELSE IF cstate[d] = "waiting" THEN "woken" ELSE cstate[d]]
  /\ UNCHANGED <<buffer, rescheduled, inProgress, handleVars, status>>

(* The body of get()'s loop, run on entry and after every wake-up. *)
Get(c) ==
  /\ \/ Finished /\ StopIteration(c)
     \/ ~Finished /\ (GetRescheduled(c) \/ GetBuffered(c) \/ WaitForItems(c))
  /\ UNCHANGED <<sourceVars, waitDone, spawned>>

(* The worker asks its task generator for the next task. *)
Anext(c) == cstate[c] = "idle" /\ Get(c)

(* A notified consumer re-acquires the lock and evaluates the loop again. *)
WakeUp(c) == cstate[c] = "woken" /\ Get(c)

(* The worker closes its task generator.  GeneratorExit reaches the handler  *)
(* that calls finish() only in a generator that has yielded a task.          *)
CloseTasks(c) ==
  /\ cstate[c] = "idle"
  /\ cstate' = [cstate EXCEPT ![c] = IF \E i \in Items : c \in prevConsumers[i]
                                       THEN "finished" ELSE "drained"]
  /\ UNCHANGED <<sourceVars, buffer, rescheduled, inProgress, handleVars, status, waitDone, spawned>>

-----------------------------------------------------------------------------
(* Task.accept_result, Task.reject_result and Consumer.__exit__ *)

Spawn(op) == spawned' = Append(spawned, op)

(* The worker that runs a task settles it, once (the assertion on _status):  *)
(* a worker settles its own tasks and only while it runs its own code.       *)
CanSettle(i, c) ==
  /\ cstate[c] \in {"idle", "finished", "drained"}
  /\ i \in inProgress
  /\ consumer[i] = c
  /\ status[i] = "running"

Accept(i, c) ==
  /\ CanSettle(i, c)
  /\ status' = [status EXCEPT ![i] = "accepted"]
  /\ Spawn(MarkDone(i))
  /\ UNCHANGED <<sourceVars, buffer, rescheduled, inProgress, handleVars, cstate, waitDone>>

Reject(i, c, retry) ==
  /\ CanSettle(i, c)
  /\ status' = [status EXCEPT ![i] = "rejected"]
  /\ Spawn(IF retry THEN Reschedule(i) ELSE MarkDone(i))
  /\ UNCHANGED <<sourceVars, buffer, rescheduled, inProgress, handleVars, cstate, waitDone>>

HeldBy(c) == {i \in inProgress : consumer[i] = c}

(* Mutated form: __exit__ reschedules at once, before what is spawned. *)
ExitSynchronous(c) ==
  /\ cstate[c] \notin {"new", "exited"}
  /\ inProgress' = inProgress \ HeldBy(c)
  /\ rescheduled' = rescheduled \cup HeldBy(c)
  /\ cstate' = [d \in Consumers |-> IF d = c THEN "exited"
                                    ELSE IF cstate[d] = "waiting" THEN "woken" ELSE cstate[d]]
  /\ UNCHANGED <<sourceVars, buffer, handleVars, status, waitDone, spawned>>

(* Mutated form: a consumer that finish() was called on reschedules nothing. *)
ExitDrop(c) ==
  /\ cstate[c] \notin {"new", "exited"}
  /\ cstate' = [cstate EXCEPT ![c] = "exited"]
  /\ IF cstate[c] = "finished" THEN UNCHANGED spawned ELSE Spawn(RescheduleAll(c))
  /\ UNCHANGED <<sourceVars, buffer, rescheduled, inProgress, handleVars, status, waitDone>>

(* The worker ends: it returns, raises, or is cancelled where it waits. *)
Exit(c) ==
  /\ cstate[c] \notin {"new", "exited"}
  /\ cstate' = [cstate EXCEPT ![c] = "exited"]
  /\ Spawn(RescheduleAll(c))
  /\ UNCHANGED <<sourceVars, buffer, rescheduled, inProgress, handleVars, status, waitDone>>

-----------------------------------------------------------------------------
(* The spawned coroutines.  mark_done and reschedule begin with              *)
(* "assert handle in self._in_progress": when it fails they change nothing.  *)

(* Mutated form: _eof is not notified. *)
RunMarkDoneSilent(i) ==
  /\ inProgress' = inProgress \ {i}
  /\ NotifyNewItems
  /\ UNCHANGED <<rescheduled, waitDone>>

RunMarkDone(i) ==
  IF i \in inProgress
    THEN /\ inProgress' = inProgress \ {i}
         /\ NotifyEof
         /\ NotifyNewItems
         /\ UNCHANGED rescheduled
    ELSE UNCHANGED <<inProgress, rescheduled, cstate, waitDone>>

(* Mutated form: the handle is added to one set and not removed from the other. *)
RunRescheduleKeep(i) ==
  /\ rescheduled' = rescheduled \cup {i}
  /\ NotifyNewItems
  /\ UNCHANGED <<inProgress, waitDone>>

(* Mutated form: no notification. *)
RunRescheduleSilent(i) ==
  /\ inProgress' = inProgress \ {i}
  /\ rescheduled' = rescheduled \cup {i}
  /\ UNCHANGED <<cstate, waitDone>>

RunReschedule(i) ==
  IF i \in inProgress
    THEN /\ inProgress' = inProgress \ {i}
         /\ rescheduled' = rescheduled \cup {i}
         /\ NotifyNewItems
         /\ UNCHANGED waitDone
    ELSE UNCHANGED <<inProgress, rescheduled, cstate, waitDone>>

RunRescheduleAll(c) ==
  /\ inProgress' = inProgress \ HeldBy(c)
  /\ rescheduled' = rescheduled \cup HeldBy(c)
  /\ NotifyNewItems
  /\ UNCHANGED waitDone

RunSpawned ==
  /\ spawned # <<>>
  /\ \/ Head(spawned).op = "mark_done" /\ RunMarkDone(Head(spawned).arg)
     \/ Head(spawned).op = "reschedule" /\ RunReschedule(Head(spawned).arg)
     \/ Head(spawned).op = "reschedule_all" /\ RunRescheduleAll(Head(spawned).arg)
  /\ spawned' = Tail(spawned)
  /\ UNCHANGED <<sourceVars, buffer, handleVars, status>>

(* wait_until_done(): first run, and every time _eof wakes it *)
WaitUntilDone ==
  /\ waitDone = "woken"
  /\ waitDone' = IF Finished THEN "done" ELSE "waiting"
  /\ UNCHANGED <<sourceVars, buffer, rescheduled, inProgress, handleVars, status, cstate, spawned>>

-----------------------------------------------------------------------------
FillBuffer == Put \/ EndOfInput \/ SourceFails \/ \E i \in Items : Pull(i)

Worker(c) ==
  \/ NewConsumer(c)
  \/ Anext(c)
  \/ CloseTasks(c)
  \/ Exit(c)
  \/ \E i \in Items : Accept(i, c) \/ \E retry \in BOOLEAN : Reject(i, c, retry)

Next ==
  \/ FillBuffer
  \/ Close
  \/ \E c \in Consumers : Worker(c) \/ WakeUp(c)
  \/ RunSpawned
  \/ WaitUntilDone

Spec == Init /\ [][Next]_vars

(* The event loop resumes every coroutine that is ready; workers, the data   *)
(* iterator and the caller of close() owe nothing.                           *)
LoopFairness == /\ WF_vars(Put)
                /\ WF_vars(RunSpawned)
                /\ WF_vars(WaitUntilDone)
                /\ \A c \in Consumers : WF_vars(WakeUp(c))

FairSpec == Spec /\ LoopFairness

-----------------------------------------------------------------------------
(* Correctness *)

Unassigned == incoming \cup held \cup buffer \cup rescheduled

(* No item is in two places at once, whatever consumers, the buffer task and *)
(* the spawned coroutines do to _buffer, _rescheduled_items, _in_progress;   *)
(* and an item that is nowhere has been settled by a worker: none is lost.   *)
ItemInOnePlace ==
  /\ incoming \cap (held \cup buffer \cup rescheduled \cup inProgress) = {}
  /\ held \cap (buffer \cup rescheduled \cup inProgress) = {}
  /\ buffer \cap (rescheduled \cup inProgress) = {}
  /\ rescheduled \cap inProgress = {}
  /\ \A i \in Items : i \in Unassigned \cup inProgress \/ status[i] \in Settled

(* The assertions of mark_done and reschedule: when the coroutine spawned by *)
(* accept_result or reject_result runs, its handle is still in _in_progress, *)
(* although the worker may have left, and reschedule_all run, in between.    *)
HandleInProgress ==
  \A k \in DOMAIN spawned :
    spawned[k].op # "reschedule_all" => spawned[k].arg \in inProgress

(* A coroutine blocked on _new_items or _eof has nothing to do: every change *)
(* that would let it proceed has notified it.                                *)
NoMissedWakeUp ==
  /\ \A c \in Consumers :
       cstate[c] = "waiting" => ~Finished /\ FindRescheduled(c) = {} /\ buffer = {}
  /\ waitDone = "waiting" => ~Finished

(* Nothing stays in _in_progress for ever: a task there is being run by a    *)
(* worker that has not left, or the coroutine that removes it is spawned.    *)
NoOrphan ==
  \A i \in inProgress :
    /\ status[i] = "running" =>
         \/ cstate[consumer[i]] # "exited"
         \/ \E k \in DOMAIN spawned : spawned[k] = RescheduleAll(consumer[i])
    /\ status[i] \in Settled =>
         \E k \in DOMAIN spawned : spawned[k] \in {MarkDone(i), Reschedule(i)}

(* A task whose result was accepted is never run again, by anyone.           *)
AcceptedIsFinal == [][\A i \in Items : status[i] = "accepted" => status'[i] = "accepted"]_vars

(* The inductive invariant behind the four properties above: what the        *)
(* pending operations, taken in the order they will run, say of the sets.    *)
HandleOK ==
  /\ \A i \in incoming \cup held \cup buffer : status[i] = "waiting" /\ prevConsumers[i] = {}
  /\ \A i \in inProgress : status[i] # "waiting"
  /\ \A i \in rescheduled : status[i] \in {"running", "rejected"}
  /\ \A i \in inProgress : consumer[i] \in Consumers

SpawnedOK ==
  \A k \in DOMAIN spawned :
    /\ spawned[k].op = "mark_done" => status[spawned[k].arg] \in Settled
    /\ spawned[k].op = "reschedule" => status[spawned[k].arg] = "rejected"
    /\ spawned[k].op = "reschedule_all" => cstate[spawned[k].arg] = "exited"

SpawnOrder ==
  \A k, l \in DOMAIN spawned :
    k < l /\ spawned[l].op # "reschedule_all" =>
      IF spawned[k].op = "reschedule_all" THEN consumer[spawned[l].arg] # spawned[k].arg
                                          ELSE spawned[l].arg # spawned[k].arg

QueueInv == /\ TypeOK /\ ItemInOnePlace /\ HandleInProgress /\ NoOrphan
            /\ HandleOK /\ SpawnedOK /\ SpawnOrder

(* The view of a task a user of the Executor has: a verdict counts from the  *)
(* call of accept_result or reject_result, before its coroutine has run.     *)
Phase(i) ==
  IF i \in inProgress
    THEN IF status[i] = "running" THEN "assigned"
         ELSE IF \E k \in DOMAIN spawned : spawned[k] = MarkDone(i) THEN "done" ELSE "free"
    ELSE IF i \in Unassigned THEN "free" ELSE "done"

Pool == INSTANCE TaskPool WITH phase <- [i \in Items |-> Phase(i)], tried <- prevConsumers

(* The queue implements TaskPool: a task goes to a worker that has not had   *)
(* it, comes back when that worker leaves or rejects it with retry, and is   *)
(* done, for good, exactly when it is accepted or rejected without retry.    *)
ImplementsTaskPool == Pool!Spec

(* When the last item is done, wait_until_done() returns and every consumer  *)
(* blocked in get() is released, however many were waiting.                  *)
FinishedIsNoticed ==
  /\ Finished ~> waitDone = "done"
  /\ \A c \in Consumers : Finished ~> cstate[c] \notin {"waiting", "woken"}
=============================================================================
