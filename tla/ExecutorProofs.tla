--------------------------- MODULE ExecutorProofs ---------------------------
(* Theorems about Executor for every set of tasks and of workers and every   *)
(* max_workers.                                                              *)
(*                                                                           *)
(* A job changes its queue by steps of SmartQueue only, so what is proved of *)
(* the queue holds in every job; QP names those theorems, which are about    *)
(* the queue's variables as the job has them.  On top of the queue's         *)
(* inductive invariant, JobInv says where the result of an accepted task is, *)
(* why the main loop may end by itself, which workers are alive, and that    *)
(* nothing is started once everything has been cancelled.                    *)
EXTENDS Executor, FiniteSetTheorems, TLAPS

QP == INSTANCE SmartQueueProofs

-----------------------------------------------------------------------------
(* A job uses its queue as the queue's specification says *)

(* Q, the queue of the job, and QP, the queue that SmartQueueProofs is       *)
(* about, are the same specification over the same variables.                *)
LEMMA SameGet ==
  ASSUME NEW c, Q!Get(c)
  PROVE  QP!Get(c)
  BY DEF Q!Get, QP!Get, Q!Finished, QP!Finished, Q!HasUnassignedItems, QP!HasUnassignedItems,
         Q!StopIteration, QP!StopIteration, Q!GetRescheduled, QP!GetRescheduled,
         Q!FindRescheduled, QP!FindRescheduled, Q!GetBuffered, QP!GetBuffered, Q!WaitForItems,
         QP!WaitForItems, Q!Assign, QP!Assign, Q!handleVars, QP!handleVars, Q!sourceVars,
         QP!sourceVars

LEMMA SameLoopStep ==
  /\ Q!FillBuffer => QP!FillBuffer
  /\ Q!RunSpawned => QP!RunSpawned
  /\ Q!WaitUntilDone => QP!WaitUntilDone
  /\ Q!Close => QP!Close
<1>1. Q!FillBuffer => QP!FillBuffer
  BY DEF Q!FillBuffer, QP!FillBuffer, Q!Put, QP!Put, Q!EndOfInput, QP!EndOfInput,
         Q!SourceFails, QP!SourceFails, Q!Pull, QP!Pull, Q!NotifyNewItems, QP!NotifyNewItems,
         Q!NotifyEof, QP!NotifyEof, Q!handleVars, QP!handleVars
<1>2. Q!RunSpawned => QP!RunSpawned
  BY DEF Q!RunSpawned, QP!RunSpawned, Q!RunMarkDone, QP!RunMarkDone, Q!RunReschedule,
         QP!RunReschedule, Q!RunRescheduleAll, QP!RunRescheduleAll, Q!HeldBy, QP!HeldBy,
         Q!NotifyNewItems, QP!NotifyNewItems, Q!NotifyEof, QP!NotifyEof, Q!handleVars,
         QP!handleVars, Q!sourceVars, QP!sourceVars
<1>3. (Q!WaitUntilDone => QP!WaitUntilDone) /\ (Q!Close => QP!Close)
  BY DEF Q!WaitUntilDone, QP!WaitUntilDone, Q!Close, QP!Close, Q!Finished, QP!Finished,
         Q!HasUnassignedItems, QP!HasUnassignedItems, Q!handleVars, QP!handleVars,
         Q!sourceVars, QP!sourceVars
<1> QED
  BY <1>1, <1>2, <1>3

LEMMA SameWorkerStep ==
  ASSUME NEW c, NEW i, NEW retry
  PROVE  /\ Q!Accept(i, c) => QP!Accept(i, c)
         /\ Q!Reject(i, c, retry) => QP!Reject(i, c, retry)
         /\ Q!NewConsumer(c) => QP!NewConsumer(c)
         /\ Q!Exit(c) => QP!Exit(c)
         /\ Q!CloseTasks(c) => QP!CloseTasks(c)
         /\ Q!Anext(c) => QP!Anext(c)
         /\ Q!WakeUp(c) => QP!WakeUp(c)
  BY SameGet
     DEF Q!Accept, QP!Accept, Q!Reject, QP!Reject, Q!NewConsumer, QP!NewConsumer, Q!Exit,
         QP!Exit, Q!CloseTasks, QP!CloseTasks, Q!Anext, QP!Anext, Q!WakeUp, QP!WakeUp,
         Q!CanSettle, QP!CanSettle, Q!Spawn, QP!Spawn, Q!MarkDone, QP!MarkDone, Q!Reschedule,
         QP!Reschedule, Q!RescheduleAll, QP!RescheduleAll, Q!handleVars, QP!handleVars,
         Q!sourceVars, QP!sourceVars

(* What a step of the job does to the queue. *)
QueueMoves ==
  \/ UNCHANGED queueVars
  \/ QueueStep
  \/ \E c \in Consumers : Q!NewConsumer(c) \/ Q!Exit(c) \/ Q!Anext(c) \/ Q!CloseTasks(c)
  \/ \E c \in Consumers, i \in Items :
       Q!Accept(i, c) \/ \E retry \in BOOLEAN : Q!Reject(i, c, retry)
  \/ Q!Close

LEMMA NextMovesQueue == [Next]_vars => QueueMoves
<1>1. ASSUME NEW c \in Consumers, WorkerStep(c) PROVE QueueMoves
  BY <1>1
     DEF WorkerStep, EnterRunWorker, ActivityFails, Work, LeaveRunWorker, WorkerEnds,
         EnforceDebitNotes, CancelCompletes, AcceptResult, QueueMoves
<1>2. CASE ServiceStep
  BY <1>2
     DEF ServiceStep, StarterTick, CycleRaises, StarterGivesUp, GetDoneTask, StarterStarts,
         QueueMoves
<1>3. CASE MainStep
  BY <1>3
     DEF MainStep, Start, Resume, ServiceRaises, WorkerRaises, UserNext, UserStops,
         CloseQueue, StopServices, TerminateAgreements, GatherCancels, Finalize, QueueMoves
<1>4. CASE QueueStep \/ UNCHANGED vars
  BY <1>4 DEF QueueMoves, vars
<1> QED
  BY <1>1, <1>2, <1>3, <1>4 DEF Next

LEMMA MovesOfQueue ==
  ASSUME QueueMoves
  PROVE  [QP!Next]_(QP!vars)
<1>1. CASE UNCHANGED queueVars
  BY <1>1 DEF queueVars, QP!vars
<1>2. CASE QueueStep
  BY <1>2, SameLoopStep, SameWorkerStep DEF QueueStep, QP!Next
<1>3. CASE Q!Close
  BY <1>3, SameLoopStep DEF QP!Next
<1>4. ASSUME NEW c \in Consumers,
             Q!NewConsumer(c) \/ Q!Exit(c) \/ Q!Anext(c) \/ Q!CloseTasks(c)
      PROVE  [QP!Next]_(QP!vars)
  BY <1>4, SameWorkerStep DEF QP!Next, QP!Worker
<1>5. ASSUME NEW c \in Consumers, NEW i \in Items, Q!Accept(i, c)
      PROVE  [QP!Next]_(QP!vars)
  BY <1>5, SameWorkerStep DEF QP!Next, QP!Worker
<1>6. ASSUME NEW c \in Consumers, NEW i \in Items, NEW retry \in BOOLEAN,
             Q!Reject(i, c, retry)
      PROVE  [QP!Next]_(QP!vars)
  BY <1>6, SameWorkerStep DEF QP!Next, QP!Worker
<1> QED
  BY <1>1, <1>2, <1>3, <1>4, <1>5, <1>6 DEF QueueMoves

LEMMA QueueInit == Init => QP!Init
  BY DEF Init, Q!Init, QP!Init

(* Whatever workers, the main loop and its service tasks do, a job uses its  *)
(* task queue as the queue's specification allows: every behaviour of the    *)
(* job is one of SmartQueue.                                                 *)
THEOREM JobUsesQueue == Spec => QP!Spec
<1>1. [Next]_vars => [QP!Next]_(QP!vars)
  BY NextMovesQueue, MovesOfQueue
<1> QED
  BY <1>1, QueueInit, PTL DEF Spec, QP!Spec

LEMMA QueueKeeps ==
  ASSUME QP!QueueInv, QP!EndOK, [Next]_vars
  PROVE  QP!QueueInv' /\ QP!EndOK'
<1>1. [QP!Next]_(QP!vars)
  BY NextMovesQueue, MovesOfQueue
<1>2. QP!QueueInv'
  BY <1>1, NoConsumerAssumption, QP!QueueInvNext DEF QP!vars
<1>3. QP!EndOK'
  BY <1>1, NoConsumerAssumption, QP!EndNext DEF QP!vars, QP!QueueInv
<1> QED
  BY <1>2, <1>3

-----------------------------------------------------------------------------
(* The inductive invariant *)

(* The types of the loop's variables, *)
Types ==
  /\ wtask \in [Consumers -> WorkerState]
  /\ workers \subseteq Consumers
  /\ services \subseteq Service
  /\ offers \in {"running", "failed", "cancelled"}
  /\ starter \in {"sleeping", "starting", "cancelled"}
  /\ main \in {"check", "waiting", "yielding", "closing", "stopping", "draining",
               "gathering", "finalizing", "finalized"}
  /\ waitSet \subseteq Service \cup Consumers
  /\ outcome \in Outcome

(* and of those that hold results: get_done_task has one only when ready.    *)
ResultTypes ==
  /\ doneQueue \in Seq(Items)
  /\ yielded \in Seq(Items)
  /\ getDone \in {"none", "pending", "ready", "cancelled"}
  /\ got \subseteq Items
  /\ IF getDone = "ready" THEN \E i \in Items : got = {i} ELSE got = {}

(* A result is in one place only: done_queue, get_done_task or what has been *)
(* yielded, and there once.                                                  *)
Delivery ==
  /\ \A k, l \in DOMAIN yielded : yielded[k] = yielded[l] => k = l
  /\ \A k, l \in DOMAIN doneQueue : doneQueue[k] = doneQueue[l] => k = l
  /\ \A k \in DOMAIN yielded : /\ yielded[k] \notin got
                               /\ \A l \in DOMAIN doneQueue : yielded[k] # doneQueue[l]
  /\ \A k \in DOMAIN doneQueue : doneQueue[k] \notin got

(* The result of task i is in get_done_task, yielded or in done_queue. *)
OnTheWay(i) == \/ i \in got
               \/ \E k \in DOMAIN yielded : yielded[k] = i
               \/ \E k \in DOMAIN doneQueue : doneQueue[k] = i

(* Exactly the accepted results are on their way: none is dropped between    *)
(* accept_result and the user.                                               *)
Accepted == \A i \in Items : status[i] = "accepted" <=> OnTheWay(i)

(* wait_until_done leaves `services` only when it has returned, and a loop   *)
(* that has ended by itself has left no result behind.                       *)
LoopOK ==
  /\ main \in {"check", "yielding"} => getDone = "none"
  /\ "wait_until_done" \notin services => waitDone = "done"
  /\ outcome = "finished" => waitDone = "done" /\ doneQueue = <<>> /\ got = {}

(* The workers that are alive are known to the loop, and there is room for   *)
(* the one whose agreement is being negotiated.                              *)
Alive(c) == wtask[c] \notin {"none", "done", "cancelled"}
WorkersOK ==
  /\ IsFiniteSet(workers) /\ Cardinality(workers) <= MaxWorkers
  /\ starter = "starting" => Cardinality(workers) < MaxWorkers
  /\ \A c \in Consumers : Alive(c) => c \in workers

(* Once everything is cancelled, no service task runs again. *)
QuietOK ==
  /\ main \in {"finalizing", "finalized"} =>
       offers # "running" /\ starter = "cancelled" /\ getDone # "pending"
  /\ main = "finalized" => \A c \in Consumers : ~Alive(c)

(* The properties are not inductive by themselves: AllYielded needs to know   *)
(* where results are and that a finished queue stays finished; WorkerLimit,  *)
(* which workers the loop has been told of.                                  *)
JobInv == /\ QP!QueueInv /\ QP!EndOK
          /\ Types /\ ResultTypes /\ Delivery /\ Accepted /\ LoopOK /\ WorkersOK /\ QuietOK

-----------------------------------------------------------------------------
(* What the queue does to the status of a task *)

LEMMA QueueFacts ==
  ASSUME QP!QueueInv
  PROVE  /\ status \in [Items -> {"waiting", "running", "accepted", "rejected"}]
         /\ rescheduled \subseteq Items /\ buffer \subseteq Items
         /\ \A i \in rescheduled \cup buffer : status[i] # "accepted"
  BY DEF QP!QueueInv, QP!TypeOK, QP!HandleOK, QP!TaskStatus

(* Only accept_result makes a task accepted, and nothing takes it back.      *)
LEMMA SameAccepted ==
  ASSUME QP!QueueInv,
         \/ QueueStep \/ Q!Close \/ UNCHANGED queueVars
         \/ \E c \in Consumers : Q!NewConsumer(c) \/ Q!Exit(c) \/ Work(c)
  PROVE  \A i \in Items : status'[i] = "accepted" <=> status[i] = "accepted"
<1> DEFINE Same == \A i \in Items : status'[i] = "accepted" <=> status[i] = "accepted"
<1>1. CASE UNCHANGED status
  BY <1>1
<1>2. ASSUME NEW c \in Consumers, Q!Get(c) PROVE Same
  BY <1>1, <1>2, QueueFacts
     DEF Q!Get, Q!GetRescheduled, Q!FindRescheduled, Q!GetBuffered, Q!WaitForItems,
         Q!StopIteration, Q!Assign
<1>3. ASSUME NEW c \in Consumers, NEW i \in Items, NEW retry \in BOOLEAN,
             Q!Reject(i, c, retry)
      PROVE  Same
  BY <1>3, QueueFacts DEF Q!Reject, Q!CanSettle
<1>4. CASE QueueStep
  BY <1>1, <1>2, <1>4
     DEF QueueStep, Q!FillBuffer, Q!Put, Q!EndOfInput, Q!SourceFails, Q!Pull, Q!RunSpawned,
         Q!WaitUntilDone, Q!WakeUp
<1>5. ASSUME NEW c \in Consumers, Work(c) PROVE Same
  BY <1>1, <1>2, <1>3, <1>5 DEF Work, Q!Anext, Q!CloseTasks
<1> QED
  BY <1>1, <1>4, <1>5 DEF Q!Close, Q!NewConsumer, Q!Exit, queueVars

(* wait_until_done returns once. *)
LEMMA QuietQueue ==
  ASSUME waitDone = "done", [Next]_vars
  PROVE  waitDone' = "done"
<1>1. QueueMoves
  BY NextMovesQueue
<1> QED
  BY <1>1
     DEF QueueMoves, QueueStep, Q!FillBuffer, Q!Put, Q!EndOfInput, Q!SourceFails, Q!Pull,
         Q!RunSpawned, Q!WaitUntilDone, Q!WakeUp, Q!Get, Q!RunMarkDone, Q!RunReschedule,
         Q!RunRescheduleAll, Q!NotifyEof, Q!Anext, Q!CloseTasks, Q!NewConsumer, Q!Exit,
         Q!Close, Q!Accept, Q!Reject, queueVars

-----------------------------------------------------------------------------
(* What the parts of several actions do *)

LEMMA LoopFacts ==
  ASSUME NEW remaining, NEW live, Loop(remaining, live)
  PROVE  /\ services' = remaining \/ services' = remaining \cup {"get_done"}
         /\ waitSet' \subseteq remaining \cup {"get_done"} \cup live
         /\ main' \in {"closing", "waiting"}
         /\ \/ getDone' = getDone
            \/ getDone = "none" /\ getDone' = "pending"
         /\ \/ outcome' \in {outcome, "timeout"}
            \/ /\ outcome' = "finished" /\ getDone' = getDone
               /\ "wait_until_done" \notin remaining /\ doneQueue = <<>>
  BY DEF Loop, LeaveLoop, CallWait, AllDelivered, End

LEMMA CancelledType ==
  ASSUME wtask \in [Consumers -> WorkerState], NEW S
  PROVE  Cancelled(S) \in [Consumers -> WorkerState]
  BY DEF Cancelled, WorkerState

LEMMA DoneFacts ==
  ASSUME Types
  PROVE  /\ "wait_until_done" \in Done => waitDone = "done"
         /\ \A c \in Consumers : c \in Done => ~Alive(c)
  BY TaskAssumption DEF Done, Service, TaskDone, Alive

-----------------------------------------------------------------------------
(* Types *)

LEMMA TypesNext ==
  ASSUME Types, [Next]_vars
  PROVE  Types'
<1>1. ASSUME NEW c \in Consumers, WorkerStep(c) PROVE Types'
  BY <1>1, CancelledType
     DEF Types, WorkerStep, EnterRunWorker, ActivityFails, Work, LeaveRunWorker, WorkerEnds,
         EnforceDebitNotes, CancelCompletes, AcceptResult, SetTask, execVars, mainVars,
         WorkerState
<1>2. CASE ServiceStep
  BY <1>2
     DEF Types, ServiceStep, StarterTick, CycleRaises, StarterGivesUp, GetDoneTask,
         StarterStarts, SetTask, mainVars, WorkerState
<1>3. ASSUME NEW remaining \in SUBSET Service, NEW live \in SUBSET Consumers,
             Loop(remaining, live),
         workers' \subseteq workers, UNCHANGED <<wtask, offers, starter>>
      PROVE Types'
  <2>1. /\ services' = remaining \/ services' = remaining \cup {"get_done"}
        /\ waitSet' \subseteq remaining \cup {"get_done"} \cup live
        /\ main' \in {"closing", "waiting"}
        /\ outcome' \in {outcome, "timeout", "finished"}
    BY <1>3, LoopFacts
  <2>2. "get_done" \in Service
    BY DEF Service
  <2>3. services' \in SUBSET Service /\ waitSet' \in SUBSET (Service \cup Consumers)
    BY <2>1, <2>2
  <2> QED
    BY <1>3, <2>1, <2>3 DEF Types, Outcome
<1>4. CASE MainStep
  <2>1. CASE Start \/ UserNext
    BY <1>3, <2>1 DEF Start, UserNext, Types
  <2>2. CASE Resume
    <3>1. services \ Done \in SUBSET Service /\ workers \ Done \in SUBSET Consumers
      BY DEF Types
    <3>2. CASE YieldDone
      BY <2>2, <3>1, <3>2 DEF Resume, YieldDone, Types
    <3>3. CASE Loop(services \ Done, workers \ Done)
      BY <1>3, <2>2, <3>1, <3>3 DEF Resume
    <3> QED
      BY <2>2, <3>2, <3>3 DEF Resume
  <2>3. CASE ServiceRaises \/ WorkerRaises \/ UserStops
    BY <2>3 DEF ServiceRaises, WorkerRaises, UserStops, Types, resultVars, End, Outcome
  <2>4. CASE CloseQueue \/ StopServices \/ TerminateAgreements \/ GatherCancels \/ Finalize
    BY <2>4, CancelledType
       DEF CloseQueue, StopServices, TerminateAgreements, GatherCancels, Finalize, Types,
           resultVars, CancelServices
  <2> QED
    BY <1>4, <2>1, <2>2, <2>3, <2>4 DEF MainStep
<1>5. CASE QueueStep \/ UNCHANGED vars
  BY <1>5 DEF QueueStep, vars, execVars, mainVars, Types
<1> QED
  BY <1>1, <1>2, <1>4, <1>5 DEF Next

-----------------------------------------------------------------------------
(* Results on their way to the user *)

LEMMA AppendFacts ==
  ASSUME NEW S, NEW s \in Seq(S), NEW e \in S
  PROVE  /\ Append(s, e) \in Seq(S)
         /\ DOMAIN Append(s, e) = DOMAIN s \cup {Len(s) + 1}
         /\ Len(s) + 1 \notin DOMAIN s
         /\ \A k \in DOMAIN s : Append(s, e)[k] = s[k] /\ s[k] \in S
         /\ Append(s, e)[Len(s) + 1] = e
  OBVIOUS

LEMMA TailFacts ==
  ASSUME NEW S, NEW s \in Seq(S), s # <<>>
  PROVE  /\ Tail(s) \in Seq(S)
         /\ 1 \in DOMAIN s /\ Head(s) = s[1] /\ Head(s) \in S
         /\ \A k \in DOMAIN Tail(s) : k + 1 \in DOMAIN s /\ k + 1 # 1 /\ Tail(s)[k] = s[k + 1]
         /\ \A k \in DOMAIN s : k = 1 \/ \E l \in DOMAIN Tail(s) : k = l + 1
<1>1. /\ Tail(s) \in Seq(S)
      /\ 1 \in DOMAIN s /\ Head(s) = s[1] /\ Head(s) \in S
      /\ \A k \in DOMAIN Tail(s) : k + 1 \in DOMAIN s /\ k + 1 # 1 /\ Tail(s)[k] = s[k + 1]
  OBVIOUS
<1>2. ASSUME NEW k \in DOMAIN s, k # 1 PROVE k - 1 \in DOMAIN Tail(s) /\ k = (k - 1) + 1
  BY <1>2
<1> QED
  BY <1>1, <1>2

(* The four ways a step treats the results. *)
ResultsStay ==
  /\ UNCHANGED <<doneQueue, got, yielded>>
  /\ \/ getDone' = getDone
     \/ getDone # "ready" /\ getDone' \in {"pending", "cancelled"}
  /\ \A i \in Items : status'[i] = "accepted" <=> status[i] = "accepted"

Accepts(i) ==
  /\ doneQueue' = Append(doneQueue, i)
  /\ UNCHANGED <<getDone, got, yielded>>
  /\ status[i] # "accepted"
  /\ \A j \in Items : status'[j] = "accepted" <=> status[j] = "accepted" \/ j = i

Takes == GetDoneTask /\ UNCHANGED status

Yields ==
  /\ getDone = "ready" /\ getDone' = "none" /\ got' = {}
  /\ \E i \in got : yielded' = Append(yielded, i)
  /\ UNCHANGED <<doneQueue, status>>

LEMMA ResultMoves ==
  ASSUME QP!QueueInv, ResultTypes, [Next]_vars
  PROVE  ResultsStay \/ Takes \/ Yields \/ \E i \in Items : Accepts(i)
<1>1. ASSUME NEW c \in Consumers, NEW i \in Items, AcceptResult(i, c)
      PROVE  Accepts(i)
  BY <1>1, QueueFacts DEF Accepts, AcceptResult, Q!Accept, Q!CanSettle
<1>2. ASSUME NEW c \in Consumers, WorkerStep(c), ~ \E i \in Items : AcceptResult(i, c)
      PROVE  ResultsStay
  BY <1>2, SameAccepted
     DEF WorkerStep, EnterRunWorker, ActivityFails, Work, LeaveRunWorker, WorkerEnds,
         EnforceDebitNotes, CancelCompletes, ResultsStay, execVars, resultVars, queueVars
<1>3. CASE GetDoneTask
  BY <1>3 DEF GetDoneTask, Takes, queueVars
<1>4. CASE ServiceStep /\ ~GetDoneTask
  BY <1>4
     DEF ServiceStep, StarterTick, CycleRaises, StarterGivesUp, StarterStarts, ResultsStay,
         resultVars, queueVars
<1>5. CASE QueueStep \/ UNCHANGED vars
  BY <1>5, SameAccepted DEF QueueStep, vars, execVars, resultVars, ResultsStay, queueVars
<1>6. CASE Start \/ UserNext
  BY <1>6, LoopFacts DEF Start, UserNext, ResultsStay, queueVars
<1>7. CASE Resume
  <2>1. CASE Loop(services \ Done, workers \ Done) /\ UNCHANGED <<got, yielded>>
    BY <1>7, <2>1, LoopFacts DEF Resume, ResultsStay, queueVars
  <2>2. CASE getDone = "ready" /\ YieldDone
    BY <1>7, <2>2 DEF Resume, YieldDone, Yields, queueVars
  <2> QED
    BY <1>7, <2>1, <2>2 DEF Resume
<1>8. CASE CloseQueue
  BY <1>8, SameAccepted DEF CloseQueue, ResultsStay, resultVars
<1>9. CASE StopServices \/ GatherCancels
  BY <1>9 DEF StopServices, GatherCancels, CancelServices, ResultsStay, queueVars
<1>10. CASE ServiceRaises \/ WorkerRaises \/ UserStops \/ TerminateAgreements \/ Finalize
  BY <1>10
     DEF ServiceRaises, WorkerRaises, UserStops, TerminateAgreements, Finalize, ResultsStay,
         resultVars, queueVars
<1> QED
  BY <1>1, <1>2, <1>3, <1>4, <1>5, <1>6, <1>7, <1>8, <1>9, <1>10 DEF Next, MainStep

LEMMA ResultTypesNext ==
  ASSUME QP!QueueInv, ResultTypes, [Next]_vars
  PROVE  ResultTypes'
<1>1. CASE ResultsStay
  BY <1>1 DEF ResultsStay, ResultTypes
<1>2. ASSUME NEW i \in Items, Accepts(i) PROVE ResultTypes'
  BY <1>2, AppendFacts DEF Accepts, ResultTypes
<1>3. CASE Takes
  BY <1>3, TailFacts DEF Takes, GetDoneTask, ResultTypes
<1>4. CASE Yields
  BY <1>4, AppendFacts DEF Yields, ResultTypes
<1> QED
  BY <1>1, <1>2, <1>3, <1>4, ResultMoves

LEMMA DeliveryNext ==
  ASSUME QP!QueueInv, ResultTypes, Delivery, Accepted, [Next]_vars
  PROVE  Delivery' /\ Accepted'
<1>1. CASE ResultsStay
  BY <1>1 DEF ResultsStay, Delivery, Accepted, OnTheWay
<1>2. ASSUME NEW i \in Items, Accepts(i) PROVE Delivery' /\ Accepted'
  <2>1. ~OnTheWay(i)
    BY <1>2 DEF OnTheWay, Accepted, Accepts
  <2>2. /\ DOMAIN doneQueue' = DOMAIN doneQueue \cup {Len(doneQueue) + 1}
        /\ \A k \in DOMAIN doneQueue : doneQueue'[k] = doneQueue[k]
        /\ doneQueue'[Len(doneQueue) + 1] = i
    BY <1>2, AppendFacts DEF Accepts, ResultTypes
  <2>3. Delivery'
    BY <1>2, <2>1, <2>2 DEF Delivery, OnTheWay, Accepts
  <2>4. Accepted'
    BY <1>2, <2>1, <2>2 DEF Accepted, OnTheWay, Accepts
  <2> QED
    BY <2>3, <2>4
<1>3. CASE Takes
  <2>1. /\ 1 \in DOMAIN doneQueue /\ got = {} /\ got' = {doneQueue[1]}
        /\ \A k \in DOMAIN doneQueue' :
             k + 1 \in DOMAIN doneQueue /\ k + 1 # 1 /\ doneQueue'[k] = doneQueue[k + 1]
        /\ \A k \in DOMAIN doneQueue : k = 1 \/ \E l \in DOMAIN doneQueue' : k = l + 1
        /\ UNCHANGED <<yielded, status>>
    BY <1>3, TailFacts DEF Takes, GetDoneTask, ResultTypes
  <2>2. \A k \in DOMAIN doneQueue' : k \in Nat
    BY <1>3, TailFacts DEF Takes, GetDoneTask, ResultTypes
  <2>3. Delivery'
    BY <2>1, <2>2 DEF Delivery
  <2>4. Accepted'
    BY <2>1, <2>2 DEF Accepted, OnTheWay
  <2> QED
    BY <2>3, <2>4
<1>4. CASE Yields
  <2>1. PICK i \in Items : got = {i} /\ yielded' = Append(yielded, i)
    BY <1>4 DEF Yields, ResultTypes
  <2>2. /\ DOMAIN yielded' = DOMAIN yielded \cup {Len(yielded) + 1}
        /\ \A k \in DOMAIN yielded : yielded'[k] = yielded[k]
        /\ yielded'[Len(yielded) + 1] = i
    BY <2>1, AppendFacts DEF ResultTypes
  <2>3. got' = {} /\ UNCHANGED <<doneQueue, status>>
    BY <1>4 DEF Yields
  <2>4. Delivery'
    BY <2>1, <2>2, <2>3 DEF Delivery
  <2>5. Accepted'
    BY <2>1, <2>2, <2>3 DEF Accepted, OnTheWay
  <2> QED
    BY <2>4, <2>5
<1> QED
  BY <1>1, <1>2, <1>3, <1>4, ResultMoves

-----------------------------------------------------------------------------
(* The main loop *)

(* When wait_until_done() has returned no worker holds a task any more. *)
LEMMA NothingToAccept ==
  ASSUME QP!EndOK, waitDone = "done", NEW c, NEW i
  PROVE  ~AcceptResult(i, c)
  BY DEF QP!EndOK, QP!Finished, AcceptResult, Q!Accept, Q!CanSettle

LEMMA LoopNext ==
  ASSUME QP!QueueInv, QP!EndOK, Types, ResultTypes, LoopOK, [Next]_vars
  PROVE  LoopOK'
<1>1. waitDone = "done" => waitDone' = "done"
  BY QuietQueue
<1>2. ASSUME UNCHANGED <<main, services, outcome, doneQueue, got>>,
             getDone' = getDone \/ main \notin {"check", "yielding"}
      PROVE  LoopOK'
  BY <1>1, <1>2 DEF LoopOK
<1>3. ASSUME NEW c \in Consumers, WorkerStep(c) PROVE LoopOK'
  <2>1. ASSUME NEW i \in Items, AcceptResult(i, c) PROVE LoopOK'
    BY <1>1, <2>1, NothingToAccept DEF LoopOK, AcceptResult, mainVars
  <2> QED
    BY <1>2, <1>3, <2>1
       DEF WorkerStep, EnterRunWorker, ActivityFails, Work, LeaveRunWorker, WorkerEnds,
           EnforceDebitNotes, CancelCompletes, execVars, resultVars, mainVars
<1>4. CASE GetDoneTask
  BY <1>1, <1>4 DEF GetDoneTask, mainVars, LoopOK
<1>5. CASE ServiceStep
  BY <1>2, <1>4, <1>5
     DEF ServiceStep, StarterTick, CycleRaises, StarterGivesUp, StarterStarts, resultVars,
         mainVars
<1>6. CASE QueueStep \/ UNCHANGED vars
  BY <1>2, <1>6 DEF QueueStep, vars, execVars, resultVars, mainVars
<1>7. ASSUME NEW remaining \in SUBSET services, NEW live, Loop(remaining, live),
             "wait_until_done" \in services \ remaining => waitDone = "done",
             getDone # "ready", UNCHANGED <<doneQueue, got>>
      PROVE  LoopOK'
  <2>1. got = {}
    BY <1>7 DEF ResultTypes
  <2>2. /\ services' = remaining \/ services' = remaining \cup {"get_done"}
        /\ main' \in {"closing", "waiting"}
        /\ \/ outcome' \in {outcome, "timeout"}
           \/ outcome' = "finished" /\ "wait_until_done" \notin remaining /\ doneQueue = <<>>
    BY <1>7, LoopFacts
  <2>3. "wait_until_done" \notin remaining => waitDone = "done"
    BY <1>7 DEF LoopOK
  <2> QED
    BY <1>1, <1>7, <2>1, <2>2, <2>3 DEF LoopOK
<1>8. CASE Start \/ UserNext
  <2>1. getDone # "ready"
    BY <1>8 DEF Start, UserNext, LoopOK
  <2> QED
    BY <1>7, <1>8, <2>1 DEF Start, UserNext
<1>9. CASE Resume
  <2>1. "wait_until_done" \in Done => waitDone = "done"
    BY DoneFacts
  <2>2. CASE /\ getDone # "ready" /\ Loop(services \ Done, workers \ Done)
             /\ UNCHANGED <<got, yielded>>
    BY <1>7, <1>9, <2>1, <2>2 DEF Resume
  <2>3. CASE getDone = "ready" /\ YieldDone
    BY <1>1, <1>9, <2>1, <2>3 DEF Resume, YieldDone, LoopOK
  <2> QED
    BY <1>9, <2>2, <2>3 DEF Resume
<1>10. CASE ServiceRaises \/ WorkerRaises \/ UserStops
  BY <1>1, <1>10 DEF ServiceRaises, WorkerRaises, UserStops, End, resultVars, LoopOK
<1>11. CASE CloseQueue \/ StopServices \/ TerminateAgreements \/ GatherCancels \/ Finalize
  BY <1>1, <1>11
     DEF CloseQueue, StopServices, TerminateAgreements, GatherCancels, Finalize, resultVars,
         LoopOK
<1> QED
  BY <1>3, <1>5, <1>6, <1>8, <1>9, <1>10, <1>11 DEF Next, MainStep

LEMMA FinishedAll ==
  ASSUME QP!QueueInv, QP!EndOK, Accepted, LoopOK
  PROVE  FinishedMeansAllYielded
<1>1. ASSUME outcome = "finished" PROVE \A i \in Items : status[i] \in QP!Settled
  BY <1>1, NoConsumerAssumption, QP!EndSettled DEF LoopOK
<1>2. ASSUME outcome = "finished"
      PROVE  \A i \in Items : status[i] = "accepted" => i \in Yielded
  BY <1>2 DEF LoopOK, Accepted, OnTheWay, Yielded
<1> QED
  BY <1>1, <1>2 DEF FinishedMeansAllYielded, Q!Settled, QP!Settled

-----------------------------------------------------------------------------
(* Workers *)

LEMMA CancelledAlive ==
  ASSUME Types, NEW S, wtask' = Cancelled(S)
  PROVE  \A c \in Consumers : Alive(c)' => Alive(c)
  BY DEF Types, Cancelled, Alive

(* Only worker_starter makes a worker task. *)
LEMMA AliveShrinks ==
  ASSUME Types, [Next]_vars, ~ \E c \in Consumers : StarterStarts(c)
  PROVE  \A c \in Consumers : Alive(c)' => Alive(c)
<1>1. ASSUME NEW d \in Consumers, WorkerStep(d)
      PROVE  \A c \in Consumers : Alive(c)' => Alive(c)
  <2>1. CASE EnforceDebitNotes(d)
    BY <2>1, CancelledAlive DEF EnforceDebitNotes
  <2>2. CASE ~EnforceDebitNotes(d)
    BY <1>1, <2>2
       DEF WorkerStep, EnterRunWorker, ActivityFails, Work, LeaveRunWorker, WorkerEnds,
           CancelCompletes, AcceptResult, SetTask, execVars, Alive, Types
  <2> QED
    BY <2>1, <2>2
<1>2. CASE ServiceStep
  BY <1>2 DEF ServiceStep, StarterTick, CycleRaises, StarterGivesUp, GetDoneTask, Alive
<1>3. CASE MainStep
  <2>1. wtask' = wtask \/ \E S : wtask' = Cancelled(S)
    BY <1>3
       DEF MainStep, Start, Resume, ServiceRaises, WorkerRaises, UserNext, UserStops,
           CloseQueue, StopServices, TerminateAgreements, GatherCancels, Finalize
  <2> QED
    BY <2>1, CancelledAlive DEF Alive
<1>4. CASE QueueStep \/ UNCHANGED vars
  BY <1>4 DEF QueueStep, vars, execVars, Alive
<1> QED
  BY <1>1, <1>2, <1>3, <1>4 DEF Next

LEMMA WorkersNext ==
  ASSUME Types, WorkersOK, [Next]_vars
  PROVE  WorkersOK'
<1>1. ASSUME UNCHANGED workers, ~ \E c \in Consumers : StarterStarts(c),
             starter' = "starting" => Cardinality(workers) < MaxWorkers
      PROVE  WorkersOK'
  BY <1>1, AliveShrinks DEF WorkersOK
<1>2. ASSUME NEW c \in Consumers, StarterStarts(c)
      PROVE  WorkersOK'
  <2>1. /\ IsFiniteSet(workers \cup {c})
        /\ Cardinality(workers \cup {c}) <= Cardinality(workers) + 1
        /\ Cardinality(workers) \in Nat /\ Cardinality(workers \cup {c}) \in Nat
    <3>1. IsFiniteSet(workers) /\ IsFiniteSet(workers \cup {c})
      BY FS_AddElement DEF WorkersOK
    <3>2. Cardinality(workers) \in Nat /\ Cardinality(workers \cup {c}) \in Nat
      BY <3>1, FS_CardinalityType
    <3>3. Cardinality(workers \cup {c})
            = IF c \in workers THEN Cardinality(workers) ELSE Cardinality(workers) + 1
      BY <3>1, FS_AddElement
    <3> QED
      BY <3>1, <3>2, <3>3
  <2>2. Cardinality(workers) < MaxWorkers
    BY <1>2 DEF StarterStarts, WorkersOK
  <2>3. Cardinality(workers \cup {c}) <= MaxWorkers
    BY <2>1, <2>2, MaxWorkersAssumption
  <2>4. \A d \in Consumers : Alive(d)' => d \in workers'
    BY <1>2 DEF StarterStarts, SetTask, WorkersOK, Alive, Types
  <2> QED
    BY <1>2, <2>1, <2>3, <2>4 DEF WorkersOK, StarterStarts
<1>3. CASE Resume
  <2>1. /\ IsFiniteSet(workers \ Done) /\ Cardinality(workers \ Done) <= Cardinality(workers)
        /\ Cardinality(workers) \in Nat /\ Cardinality(workers \ Done) \in Nat
    BY FS_Subset, FS_CardinalityType DEF WorkersOK
  <2>2. /\ Cardinality(workers \ Done) <= MaxWorkers
        /\ Cardinality(workers) < MaxWorkers => Cardinality(workers \ Done) < MaxWorkers
    BY <2>1, MaxWorkersAssumption DEF WorkersOK
  <2>3. \A d \in Consumers : Alive(d)' => d \in workers \ Done
    BY <1>3, DoneFacts DEF Resume, WorkersOK, Alive
  <2> QED
    BY <1>3, <2>1, <2>2, <2>3 DEF WorkersOK, Resume
<1>4. ASSUME NEW c \in Consumers, WorkerStep(c)
      PROVE  UNCHANGED <<workers, starter>>
  BY <1>4
     DEF WorkerStep, EnterRunWorker, ActivityFails, Work, LeaveRunWorker, WorkerEnds,
         EnforceDebitNotes, CancelCompletes, AcceptResult, execVars
<1>5. CASE ServiceStep /\ ~ \E c \in Consumers : StarterStarts(c)
  BY <1>1, <1>5
     DEF ServiceStep, StarterTick, CycleRaises, StarterGivesUp, GetDoneTask, WorkersOK
<1>6. ASSUME MainStep, ~Resume
      PROVE  UNCHANGED workers /\ starter' \in {starter, "cancelled"}
  BY <1>6
     DEF MainStep, Start, ServiceRaises, WorkerRaises, UserNext, UserStops, CloseQueue,
         StopServices, TerminateAgreements, GatherCancels, Finalize, CancelServices
<1>7. CASE QueueStep \/ UNCHANGED vars
  <2>1. UNCHANGED <<workers, starter>>
    BY <1>7 DEF QueueStep, vars, execVars
  <2> QED
    BY <1>1, <1>2, <2>1 DEF WorkersOK
<1> QED
  BY <1>1, <1>2, <1>3, <1>4, <1>5, <1>6, <1>7 DEF Next, WorkersOK

LEMMA QuietNext ==
  ASSUME Types, WorkersOK, QuietOK, [Next]_vars
  PROVE  QuietOK'
<1>1. ASSUME UNCHANGED <<main, offers, starter, getDone>>,
             ~ \E c \in Consumers : StarterStarts(c)
      PROVE  QuietOK'
  BY <1>1, AliveShrinks DEF QuietOK
<1>2. ASSUME NEW c \in Consumers, StarterStarts(c)
      PROVE  QuietOK'
  BY <1>2 DEF StarterStarts, QuietOK, mainVars
<1>3. CASE ServiceStep
  BY <1>2, <1>3, AliveShrinks
     DEF ServiceStep, StarterTick, CycleRaises, StarterGivesUp, GetDoneTask, QuietOK,
         mainVars, resultVars
<1>4. ASSUME NEW c \in Consumers, WorkerStep(c) PROVE QuietOK'
  <2>1. UNCHANGED <<main, offers, starter, getDone>>
    BY <1>4
       DEF WorkerStep, EnterRunWorker, ActivityFails, Work, LeaveRunWorker, WorkerEnds,
           EnforceDebitNotes, CancelCompletes, AcceptResult, execVars, mainVars, resultVars
  <2> QED
    BY <1>1, <1>2, <2>1
<1>5. CASE QueueStep \/ UNCHANGED vars
  <2>1. UNCHANGED <<main, offers, starter, getDone>>
    BY <1>5 DEF QueueStep, vars, execVars, mainVars, resultVars
  <2> QED
    BY <1>1, <1>2, <2>1
<1>6. CASE Start \/ UserNext \/ Resume
  <2>1. main' \notin {"finalizing", "finalized"}
    BY <1>6, LoopFacts DEF Start, UserNext, Resume, YieldDone
  <2> QED
    BY <2>1 DEF QuietOK
<1>7. CASE \/ ServiceRaises \/ WorkerRaises \/ UserStops
           \/ CloseQueue \/ StopServices \/ TerminateAgreements
  BY <1>7
     DEF ServiceRaises, WorkerRaises, UserStops, End, CloseQueue, StopServices,
         TerminateAgreements, QuietOK
<1>8. CASE GatherCancels
  BY <1>8 DEF GatherCancels, CancelServices, QuietOK, Types
<1>9. CASE Finalize
  BY <1>9 DEF Finalize, QuietOK, WorkersOK, Alive, TaskDone, resultVars
<1> QED
  BY <1>3, <1>4, <1>5, <1>6, <1>7, <1>8, <1>9 DEF Next, MainStep

-----------------------------------------------------------------------------
(* The invariant holds in every job *)

LEMMA JobInvInit == Init => JobInv
<1> SUFFICES ASSUME Init PROVE JobInv
  OBVIOUS
<1>1. QP!QueueInv /\ QP!EndOK
  BY QueueInit, NoConsumerAssumption, QP!QueueInvInit, QP!EndInit
<1>2. IsFiniteSet(workers) /\ Cardinality(workers) = 0
  BY FS_EmptySet DEF Init
<1>3. Types /\ ResultTypes
  BY DEF Init, Types, ResultTypes, WorkerState, Service, Outcome
<1>4. Delivery /\ Accepted
  BY DEF Init, Q!Init, Delivery, Accepted, OnTheWay
<1>5. LoopOK /\ WorkersOK /\ QuietOK
  BY <1>2, MaxWorkersAssumption DEF Init, LoopOK, WorkersOK, QuietOK, Alive
<1> QED
  BY <1>1, <1>3, <1>4, <1>5 DEF JobInv

LEMMA JobInvNext == JobInv /\ [Next]_vars => JobInv'
<1> SUFFICES ASSUME JobInv, [Next]_vars PROVE JobInv'
  OBVIOUS
<1> USE DEF JobInv
<1>1. QP!QueueInv' /\ QP!EndOK'
  BY QueueKeeps
<1>2. Types' /\ ResultTypes'
  BY TypesNext, ResultTypesNext
<1>3. Delivery' /\ Accepted'
  BY DeliveryNext
<1>4. LoopOK' /\ WorkersOK' /\ QuietOK'
  BY LoopNext, WorkersNext, QuietNext
<1> QED
  BY <1>1, <1>2, <1>3, <1>4

(* JobInv holds in every state of every job. *)
THEOREM JobInvariant == Spec => []JobInv
  BY JobInvInit, JobInvNext, PTL DEF Spec

LEMMA SameTypes == QP!TypeOK => Q!TypeOK
  BY DEF Q!TypeOK, QP!TypeOK, Q!AtMostOne, QP!AtMostOne, Q!Ops, QP!Ops, Q!ItemOps, QP!ItemOps,
         Q!TaskStatus, QP!TaskStatus, Q!ConsumerState, QP!ConsumerState

(* Every variable of the job, and of its queue, keeps its type. *)
THEOREM TypeCorrect == Spec => []TypeOK
<1>1. JobInv => TypeOK
  <2> SUFFICES ASSUME JobInv PROVE TypeOK
    OBVIOUS
  <2>1. Cardinality(got) = (IF getDone = "ready" THEN 1 ELSE 0)
    BY FS_EmptySet, FS_Singleton DEF JobInv, ResultTypes
  <2>2. Q!TypeOK
    BY SameTypes DEF JobInv, QP!QueueInv
  <2> QED
    BY <2>1, <2>2 DEF JobInv, Types, ResultTypes, TypeOK
<1> QED
  BY <1>1, JobInvariant, PTL

(* For every number of tasks and workers: when the main loop of _submit ends *)
(* by itself, every task is settled and every accepted result has been       *)
(* yielded to the user, in whatever order wait_until_done, the queue of      *)
(* results and get_done complete.                                            *)
THEOREM AllYielded == Spec => []FinishedMeansAllYielded
<1>1. JobInv => FinishedMeansAllYielded
  BY FinishedAll DEF JobInv
<1> QED
  BY <1>1, JobInvariant, PTL

LEMMA ConcatFacts ==
  ASSUME NEW S, NEW s \in Seq(S), NEW t \in Seq(S)
  PROVE  \A k \in DOMAIN (s \o t) :
           \/ k \in DOMAIN s /\ (s \o t)[k] = s[k]
           \/ k - Len(s) \in DOMAIN t /\ (s \o t)[k] = t[k - Len(s)]
  OBVIOUS

(* No result reaches the user twice, and no task that was not accepted does. *)
THEOREM YieldedAtMostOnce == Spec => []YieldedOnce
<1>1. JobInv => YieldedOnce
  <2> SUFFICES ASSUME JobInv PROVE YieldedOnce
    OBVIOUS
  <2> DEFINE way == yielded \o doneQueue
             n == Len(yielded)
  <2>1. yielded \in Seq(Items) /\ doneQueue \in Seq(Items)
    BY DEF JobInv, ResultTypes
  <2>2. \A k \in DOMAIN way :
          \/ k \in DOMAIN yielded /\ way[k] = yielded[k]
          \/ k - n \in DOMAIN doneQueue /\ way[k] = doneQueue[k - n]
    BY <2>1, ConcatFacts
  <2>3. \A k \in DOMAIN way : k \in Nat /\ n \in Nat
    BY <2>1
  <2>4. \A k \in DOMAIN way : way[k] \in Items
    BY <2>1, <2>2
  <2> HIDE DEF way, n
  <2>5. ASSUME NEW k \in DOMAIN way, NEW l \in DOMAIN way, way[k] = way[l]
        PROVE  k = l
    BY <2>2, <2>3, <2>5 DEF JobInv, Delivery
  <2>6. ASSUME NEW k \in DOMAIN way PROVE way[k] \notin got /\ status[way[k]] = "accepted"
    BY <2>2, <2>4, <2>6 DEF JobInv, Delivery, Accepted, OnTheWay
  <2> QED
    BY <2>5, <2>6 DEF YieldedOnce, way
<1> QED
  BY <1>1, JobInvariant, PTL

(* There are never more than max_workers worker tasks alive, although an     *)
(* agreement is negotiated between the check and the start of a worker.      *)
THEOREM WorkersLimited == Spec => []WorkerLimit
<1>1. JobInv => WorkerLimit
  <2> SUFFICES ASSUME JobInv PROVE WorkerLimit
    OBVIOUS
  <2> DEFINE alive == {c \in Consumers : wtask[c] \notin {"none", "done", "cancelled"}}
  <2>1. alive \subseteq workers /\ IsFiniteSet(workers) /\ Cardinality(workers) <= MaxWorkers
    BY DEF JobInv, WorkersOK, Alive
  <2>2. IsFiniteSet(alive) /\ Cardinality(alive) <= Cardinality(workers)
    BY <2>1, FS_Subset
  <2>3. Cardinality(alive) \in Nat /\ Cardinality(workers) \in Nat
    BY <2>1, <2>2, FS_CardinalityType
  <2> QED
    BY <2>1, <2>2, <2>3, MaxWorkersAssumption DEF WorkerLimit
<1> QED
  BY <1>1, JobInvariant, PTL

(* No worker task and no service task outlives its job, however it ended.    *)
THEOREM NothingOutlivesJob == Spec => []FinalizedIsQuiet
<1>1. JobInv => FinalizedIsQuiet
  BY DEF JobInv, QuietOK, FinalizedIsQuiet, Alive, Types, WorkerState, TaskDone
<1> QED
  BY <1>1, JobInvariant, PTL

-----------------------------------------------------------------------------
(* What is proved of the queue, in a job *)

(* The tasks of a job are given out as TaskPool says: to no worker twice, and *)
(* back to the pool when a worker leaves, until they are done for good.       *)
THEOREM JobImplementsTaskPool == Spec => QP!ImplementsTaskPool
  BY JobUsesQueue, NoConsumerAssumption, QP!SmartQueueImplementsTaskPool

(* No worker and no wait_until_done of a job misses its notification.        *)
THEOREM JobMissesNoWakeUp == Spec => []QP!NoMissedWakeUp
  BY JobUsesQueue, NoConsumerAssumption, QP!NoMissedWakeUpAlways
=============================================================================
