---------------------------- MODULE SummaryLogger ----------------------------
(* The summary of a computation: SummaryLogger of yapapi/log.py, and the     *)
(* order in which the pool, the workers, the payments and the engine emit    *)
(* the events of yapapi/events.py.                                           *)
(*                                                                           *)
(* The logger learns the provider of an agreement from AgreementCreated and  *)
(* looks it up on most later events; an event it cannot handle puts it in an *)
(* invalid state, in which it ignores all events: the shutdown is not        *)
(* reported then, and its timer goes on for ever.                            *)
EXTENDS Naturals

CONSTANTS LogJobs,        \* jobs
          LogAgreements,  \* agreements: [id, job, provider, amount], the amount of the invoice
          MaxWork,        \* bound: workers and tasks started on an agreement
          MaxShutdowns    \* bound: engines that are shut down, one after another

ASSUME LogAgreementsAssumption ==
  \A a \in LogAgreements : a.job \in LogJobs /\ a.amount \in Nat
ASSUME LogBoundsAssumption == MaxWork \in Nat /\ MaxShutdowns \in Nat

LogProviders == {a.provider : a \in LogAgreements}

VARIABLES
  summary,    \* the attributes of the logger
  jobStage,   \* of each job
  agrStage,   \* of each agreement
  agrWork,    \* workers and tasks started on each agreement
  live,       \* agreements in the pool
  billed,     \* agreements whose invoice has been accepted
  shutdowns,  \* engines shut down
  spent       \* sums of the invoices accepted since the last shutdown, by provider (history)

programVars == <<jobStage, agrStage, agrWork, live, billed, shutdowns, spent>>
summaryVars == <<summary, programVars>>

----------------------------------------------------------------------------
(* The events, as in events.py: what kind, of which job and agreement, and   *)
(* the exception it carries.                                                 *)
Causes == {"none", "error", "cancelled"}
AgreementEvents == {"AgreementCreated", "AgreementConfirmed", "AgreementRejected",
                    "AgreementTerminated", "ActivityCreateFailed", "WorkerStarted"}
ActivityEvents == {"ActivityCreated", "TaskStarted", "TaskFinished", "ServiceFinished",
                   "ScriptSent", "ScriptFinished", "WorkerFinished"}
PaymentEvents == {"InvoiceReceived", "InvoiceAccepted", "PaymentFailed"}

AgreementEvent(kind, a, cause) == [kind |-> kind, agr |-> a, cause |-> cause]
JobEvent(kind, j, cause) == [kind |-> kind, job |-> j, cause |-> cause]
ProposalEvent(kind, p) == [kind |-> kind, provider |-> p]
EngineEvent(kind, cause) == [kind |-> kind, cause |-> cause]

(* Mutated form: a rejected agreement is reported like a confirmed one.      *)
MutLooksUp ==
  ActivityEvents \cup {"AgreementConfirmed", "AgreementRejected", "AgreementTerminated",
                       "WorkerStarted", "InvoiceAccepted", "PaymentFailed"}

(* Events whose agreement is looked up in agreement_provider_info; one that  *)
(* is terminated with "Success" is not, which none is here.                  *)
LooksUp ==
  (ActivityEvents \ {"ActivityCreated"}) \cup
  {"AgreementConfirmed", "AgreementTerminated", "WorkerStarted", "InvoiceAccepted", "PaymentFailed"}

(* What makes _handle raise: an unknown agreement, a job that has not        *)
(* started, a missing exception.                                             *)
Raises(s, e) ==
  \/ e.kind \in LooksUp /\ e.agr \notin s.info
  \/ e.kind = "JobFinished" /\ e.cause = "none" /\ e.job \notin s.startTime
  \/ e.kind \in {"PaymentFailed", "ExecutionInterrupted"} /\ e.cause = "none"

Handled(s, e) ==
  CASE e.kind = "JobStarted" -> [s EXCEPT !.startTime = @ \cup {e.job}]
    [] e.kind = "ProposalReceived" -> [s EXCEPT !.received = @ \cup {e.provider}]
    [] e.kind = "ProposalConfirmed" -> [s EXCEPT !.confirmed = @ \cup {e.provider}]
    [] e.kind = "AgreementCreated" -> [s EXCEPT !.info = @ \cup {e.agr}]
    [] e.kind = "AgreementConfirmed" -> [s EXCEPT !.agreements = @ \cup {e.agr}]
    [] e.kind = "TaskFinished" -> [s EXCEPT !.tasks = @ \cup {<<e.agr.job, e.agr.provider>>}]
    [] e.kind = "ServiceFinished" ->
         [s EXCEPT !.services = @ \cup {<<e.agr.job, e.agr.provider>>}]
    [] e.kind = "WorkerFinished" /\ e.cause # "none" /\ ~s.cancelled ->
         [s EXCEPT !.failures = @ \cup {<<e.agr.job, e.agr.provider>>}]
    [] e.kind = "InvoiceAccepted" -> [s EXCEPT !.cost[e.agr.provider] = @ + e.agr.amount]
    [] e.kind = "JobFinished" -> [s EXCEPT !.cancelled = @ \/ e.cause = "cancelled"]
    [] e.kind = "ShutdownFinished" ->
         [s EXCEPT !.cost = [p \in LogProviders |-> 0], !.shutdown = TRUE]
    [] OTHER -> s

Logged(s, e) == IF s.error THEN s ELSE IF Raises(s, e) THEN [s EXCEPT !.error = TRUE]
                ELSE Handled(s, e)
Log(e) == summary' = Logged(summary, e)

(* (The number of tasks, services and failures is left out: which job and    *)
(* provider have any.)                                                       *)

(* _print_confirmed_providers, every so often until the shutdown.            *)
PrintConfirmedProviders ==
  /\ summary.timer
  /\ summary' = [summary EXCEPT !.timer = ~summary.shutdown]
  /\ UNCHANGED programVars

SummaryTypeOK ==
  /\ summary.info \cup summary.agreements \subseteq LogAgreements
  /\ summary.startTime \subseteq LogJobs
  /\ summary.received \cup summary.confirmed \subseteq LogProviders
  /\ summary.cost \in [LogProviders -> Nat]
  /\ summary.tasks \cup summary.services \cup summary.failures \subseteq LogJobs \X LogProviders
  /\ {summary.cancelled, summary.error, summary.shutdown, summary.timer} \subseteq BOOLEAN
  /\ agrWork \in [LogAgreements -> 0..MaxWork]
  /\ live \cup billed \subseteq LogAgreements /\ shutdowns \in 0..MaxShutdowns
  /\ spent \in [LogProviders -> Nat]

(* _reset_counters; the constructor prints once, which starts the timer.     *)
NewSummary ==
  [startTime |-> {}, received |-> {}, confirmed |-> {}, info |-> {}, agreements |-> {},
   cost |-> [p \in LogProviders |-> 0],
   tasks |-> {}, services |-> {}, failures |-> {},
   cancelled |-> FALSE, error |-> FALSE, shutdown |-> FALSE, timer |-> TRUE]

SummaryInit ==
  /\ summary = NewSummary
  /\ jobStage = [j \in LogJobs |-> "none"] /\ agrStage = [a \in LogAgreements |-> "none"]
  /\ agrWork = [a \in LogAgreements |-> 0] /\ live = {} /\ billed = {}
  /\ shutdowns = 0 /\ spent = [p \in LogProviders |-> 0]

----------------------------------------------------------------------------
(* The program                                                               *)

StageOf(a, stage) == agrStage' = [agrStage EXCEPT ![a] = stage]
Running(a) == jobStage[a.job] = "running"

(* _Engine.add_job and finalize_job: a job may start only in an engine that  *)
(* has not been shut down, and all jobs finish before the shutdown.          *)
AddJob(j) ==
  /\ jobStage[j] = "none" /\ shutdowns < MaxShutdowns
  /\ jobStage' = [jobStage EXCEPT ![j] = "running"] /\ Log(JobEvent("JobStarted", j, "none"))
  /\ UNCHANGED <<agrStage, agrWork, live, billed, shutdowns, spent>>

FinalizeJob(j) ==
  /\ jobStage[j] = "running"
  /\ \A a \in LogAgreements : a.job = j => agrStage[a] \notin {"worker", "active", "task", "served"}
  /\ jobStage' = [jobStage EXCEPT ![j] = "over"]
  /\ \E cause \in Causes : Log(JobEvent("JobFinished", j, cause))
  /\ UNCHANGED <<agrStage, agrWork, live, billed, shutdowns, spent>>

(* Job._find_offers and _handle_proposal: a proposal is received and then    *)
(* confirmed; or nobody answers for a while.                                 *)
Negotiate(a) ==
  /\ Running(a) /\ agrStage[a] = "none"
  /\ \/ StageOf(a, "received") /\ Log(ProposalEvent("ProposalReceived", a.provider))
     \/ UNCHANGED agrStage /\ Log(JobEvent("NoProposalsConfirmed", a.job, "none"))
  /\ UNCHANGED <<jobStage, agrWork, live, billed, shutdowns, spent>>

Respond(a) ==
  /\ Running(a) /\ agrStage[a] = "received"
  /\ StageOf(a, "proposed") /\ Log(ProposalEvent("ProposalConfirmed", a.provider))
  /\ UNCHANGED <<jobStage, agrWork, live, billed, shutdowns, spent>>

(* AgreementsPool._prepare_agreement; without details there is a rejection   *)
(* of an agreement nobody has heard of.                                      *)
PrepareAgreement(a) ==
  /\ Running(a)
  /\ \/ /\ agrStage[a] = "proposed" /\ UNCHANGED live
        /\ \/ StageOf(a, "created") /\ Log(AgreementEvent("AgreementCreated", a, "none"))
           \/ StageOf(a, "rejected") /\ Log(AgreementEvent("AgreementRejected", a, "none"))
     \/ /\ agrStage[a] = "created"
        /\ \/ /\ StageOf(a, "ready") /\ live' = live \cup {a}
              /\ Log(AgreementEvent("AgreementConfirmed", a, "none"))
           \/ /\ StageOf(a, "rejected") /\ UNCHANGED live
              /\ Log(AgreementEvent("AgreementRejected", a, "none"))
  /\ UNCHANGED <<jobStage, agrWork, billed, shutdowns, spent>>

(* The worker of an agreement, of an executor or a cluster: worker_task,     *)
(* run_worker and _worker.  One that is cancelled ends without an event, and *)
(* the agreement may be used again.                                          *)
WorkerEmits(a) ==
  /\ \/ /\ agrStage[a] \in {"ready", "ended"} /\ a \in live /\ Running(a)
        /\ agrWork[a] < MaxWork /\ agrWork' = [agrWork EXCEPT ![a] = @ + 1]
        /\ StageOf(a, "worker") /\ Log(AgreementEvent("WorkerStarted", a, "none"))
     \/ /\ agrStage[a] = "worker" /\ UNCHANGED agrWork
        /\ \/ StageOf(a, "active") /\ Log(AgreementEvent("ActivityCreated", a, "none"))
           \/ StageOf(a, "ended") /\ Log(AgreementEvent("ActivityCreateFailed", a, "error"))
     \/ /\ agrStage[a] = "active" /\ agrWork[a] < MaxWork
        /\ agrWork' = [agrWork EXCEPT ![a] = @ + 1]
        /\ StageOf(a, "task") /\ Log(AgreementEvent("TaskStarted", a, "none"))
     \/ /\ agrStage[a] \in {"active", "task"} /\ UNCHANGED <<agrStage, agrWork>>
        /\ \E kind \in {"ScriptSent", "ScriptFinished"} : Log(AgreementEvent(kind, a, "none"))
     \/ /\ agrStage[a] = "task" /\ UNCHANGED agrWork
        /\ StageOf(a, "active") /\ Log(AgreementEvent("TaskFinished", a, "none"))
     \/ /\ agrStage[a] = "active" /\ UNCHANGED agrWork
        /\ StageOf(a, "served") /\ Log(AgreementEvent("ServiceFinished", a, "none"))
     \/ /\ agrStage[a] \in {"active", "task", "served"} /\ StageOf(a, "ended")
        /\ UNCHANGED agrWork
        /\ \/ \E cause \in {"none", "error"} : Log(AgreementEvent("WorkerFinished", a, cause))
           \/ UNCHANGED summary
  /\ UNCHANGED <<jobStage, live, billed, shutdowns, spent>>

(* An agreement is terminated at the end, or early by the pacing of debit    *)
(* notes, while its worker is still at work.                                 *)
PoolTerminates(a) ==
  /\ Running(a) /\ a \in live /\ live' = live \ {a}
  /\ Log(AgreementEvent("AgreementTerminated", a, "none"))
  /\ UNCHANGED <<jobStage, agrStage, agrWork, billed, shutdowns, spent>>

(* InvoiceManager.attempt_payment and the debit notes: the agreement is known*)
(* once its worker has started; the job may be over.                         *)
Pay(a) ==
  /\ agrStage[a] \in {"worker", "active", "task", "served", "ended"} /\ a \notin billed
  /\ \/ /\ billed' = billed \cup {a} /\ spent' = [spent EXCEPT ![a.provider] = @ + a.amount]
        /\ Log(AgreementEvent("InvoiceAccepted", a, "none"))
     \/ UNCHANGED <<billed, spent>> /\ Log(AgreementEvent("PaymentFailed", a, "error"))
     \/ UNCHANGED <<billed, spent>> /\ Log(AgreementEvent("InvoiceReceived", a, "none"))
  /\ UNCHANGED <<jobStage, agrStage, agrWork, live, shutdowns>>

(* report_shutdown, the last exit of the stack of an engine.                 *)
ReportShutdown ==
  /\ \A j \in LogJobs : jobStage[j] # "running"
  /\ shutdowns < MaxShutdowns /\ shutdowns' = shutdowns + 1
  /\ spent' = [p \in LogProviders |-> 0]
  /\ \E cause \in Causes : Log(EngineEvent("ShutdownFinished", cause))
  /\ UNCHANGED <<jobStage, agrStage, agrWork, live, billed>>

Interrupt == Log(EngineEvent("ExecutionInterrupted", "error")) /\ UNCHANGED programVars

SummaryNext ==
  \/ \E j \in LogJobs : AddJob(j) \/ FinalizeJob(j)
  \/ \E a \in LogAgreements :
       \/ Negotiate(a) \/ Respond(a) \/ PrepareAgreement(a) \/ WorkerEmits(a)
       \/ PoolTerminates(a) \/ Pay(a)
  \/ ReportShutdown \/ Interrupt \/ PrintConfirmedProviders

SummarySpec == SummaryInit /\ [][SummaryNext]_summaryVars

----------------------------------------------------------------------------
(* Properties                                                                *)

(* Whatever order the parts of the program emit their events in, the logger  *)
(* can handle them (log.py:404-415), also the ones of an agreement that was  *)
(* rejected, terminated early or invoiced after its job; and what it adds up *)
(* to the total cost are, for each provider, the accepted invoices of the    *)
(* engine that is shut down (log.py:374-379, 565-567).                       *)
SummaryCorrect ==
  /\ ~summary.error
  /\ summary.confirmed \subseteq summary.received
  /\ summary.cost = spent
=============================================================================
