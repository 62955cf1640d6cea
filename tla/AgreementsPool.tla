--------------------------- MODULE AgreementsPool ---------------------------
(* The agreements of a job: yapapi/agreements_pool.py, with what its clients *)
(* do to it: the worker task of engine.py (start_worker), worker_starter of  *)
(* executor/__init__.py, _enforce_debit_note_intervals of engine.py, and the *)
(* end of a job (the finally clause of _submit, ServiceRunner.__aexit__).    *)
(*                                                                           *)
(* use_agreement, release_agreement and terminate_all hold _lock while they  *)
(* wait for the market; _enforce_debit_note_intervals terminates an          *)
(* agreement without it.  A step is what one task does between two           *)
(* suspension points.  A task that waits for _lock has not started.          *)
(* A suspended service, which keeps its agreement, is not modelled.          *)
EXTENDS Naturals, FiniteSets

CONSTANTS Providers,    \* issuers of proposals
          Agreements,   \* the agreements the market may create
          Workers,      \* the worker tasks that may be started
          NoAgreement, NoWorker

ASSUME NoAssumption == NoAgreement \notin Agreements /\ NoWorker \notin Workers

VARIABLES
  offers,     \* keys of _offer_buffer
  pool,       \* keys of _agreements
  user,       \* BufferedAgreement.worker_task of the agreements in the pool
  multi,      \* agreements with has_multi_activity
  made,       \* agreements created on the market so far
  refused,    \* agreements released with allow_reuse=False (history)
  wstate,     \* the worker tasks: see WorkerState
  worksOn,    \* the agreement a worker task was started with
  reuse,      \* allow_agreement_reuse of a worker task
  starter,    \* worker_starter: "idle", "cycling", "dead"
  cycleTodo,  \* agreement ids cycle() has not looked at yet
  releasing,  \* the release_agreement() call cycle() is in, a set of at most one
  lock,       \* who holds _lock and what it waits for: see Locks
  enforcing,  \* agreements _enforce_debit_note_intervals is terminating
  todo,       \* agreement ids terminate_all() has not looked at yet
  closing,    \* the end of the job: see Closing
  raised      \* has terminate() raised an exception it does not handle? (history)

poolVars == <<pool, user>>
workerVars == <<wstate, worksOn, reuse>>
starterVars == <<starter, cycleTodo, releasing>>
closeVars == <<todo, closing, raised>>
vars == <<offers, poolVars, multi, made, refused, workerVars, starterVars, lock, enforcing,
          closeVars>>

(* "created": creating its activity; "running": in run_worker; "destroying": *)
(* in activity.destroy(); "releasing": at release_agreement, its last call;  *)
(* "interrupted": cancelled in run_worker; "cancelling": cancelled elsewhere.*)
WorkerState == {"none", "created", "running", "destroying", "releasing", "interrupted",
                "cancelling", "done", "failed", "cancelled"}
TaskDone == {"done", "failed", "cancelled"}
Live == {w \in Workers : wstate[w] \notin TaskDone \cup {"none"}}

(* What the holder of _lock waits for.  "creating": create_agreement();      *)
(* "preparing", "fetching": get_details(), for a new or an existing          *)
(* agreement; "confirming": confirm(); "releasing": terminate() called by    *)
(* release_agreement, for the worker `by` or, when it is NoWorker, for       *)
(* cycle(); "closing": terminate_all().                                      *)
LockOp == {"free", "creating", "preparing", "fetching", "confirming", "releasing", "closing"}
Locks == [op : LockOp, agr : Agreements \cup {NoAgreement}, by : Workers \cup {NoWorker}]
Holds(op, a, w) == [op |-> op, agr |-> a, by |-> w]
Free == Holds("free", NoAgreement, NoWorker)

(* "stopping": services and, unless all is done, workers are cancelled;      *)
(* "aborted": terminate_all() raised.                                        *)
Closing == {"open", "stopping", "closed", "aborted"}

TypeOK ==
  /\ offers \subseteq Providers
  /\ pool \subseteq made /\ made \subseteq Agreements
  /\ user \in [Agreements -> Workers \cup {NoWorker}]
  /\ multi \subseteq made /\ refused \subseteq made
  /\ wstate \in [Workers -> WorkerState]
  /\ worksOn \in [Workers -> Agreements \cup {NoAgreement}]
  /\ reuse \in [Workers -> BOOLEAN]
  /\ starter \in {"idle", "cycling", "dead"}
  /\ cycleTodo \subseteq made
  /\ releasing \subseteq [agr : made, allow : BOOLEAN]
  /\ lock \in Locks
  /\ enforcing \subseteq multi
  /\ todo \subseteq made /\ (todo # {} => lock.op = "closing")
  /\ closing \in Closing
  /\ raised \in BOOLEAN

Init ==
  /\ offers = {} /\ pool = {} /\ multi = {} /\ made = {} /\ refused = {}
  /\ user = [a \in Agreements |-> NoWorker]
  /\ wstate = [w \in Workers |-> "none"]
  /\ worksOn = [w \in Workers |-> NoAgreement]
  /\ reuse = [w \in Workers |-> TRUE]
  /\ starter = "idle" /\ cycleTodo = {} /\ releasing = {}
  /\ lock = Free
  /\ enforcing = {}
  /\ todo = {} /\ closing = "open"
  /\ raised = FALSE

-----------------------------------------------------------------------------
(* add_proposal; a proposal of the same issuer is replaced *)
AddProposal(p) ==
  /\ lock = Free
  /\ offers' = offers \cup {p}
  /\ UNCHANGED <<poolVars, multi, made, refused, workerVars, starterVars, lock, enforcing, closeVars>>

-----------------------------------------------------------------------------
(* use_agreement *)

(* cbk() creates the worker task and _set_worker stores it. *)
StartWorker(a) ==
  \E w \in Workers :
    /\ wstate[w] = "none"
    /\ wstate' = [wstate EXCEPT ![w] = "created"]
    /\ worksOn' = [worksOn EXCEPT ![w] = a]
    /\ user' = [user EXCEPT ![a] = w]

CanUse == closing = "open" /\ starter = "idle" /\ lock = Free

(* Mutated form: the pool is not searched for an unused agreement. *)
ReusableAny == pool

Reusable == {a \in pool : user[a] = NoWorker}

Reuse(a) ==
  /\ CanUse
  /\ a \in Reusable
  /\ StartWorker(a)
  /\ UNCHANGED <<offers, pool, multi, made, refused, reuse, starterVars, lock, enforcing, closeVars>>

(* No agreement to reuse: the best offer is taken (scores are abstracted).   *)
(* With a given agreement_id, of an earlier session, there is no offer.      *)
TakeOffer(p) ==
  /\ CanUse
  /\ Reusable = {}
  /\ p \in offers
  /\ offers' = offers \ {p}
  /\ lock' = Holds("creating", NoAgreement, NoWorker)
  /\ UNCHANGED <<poolVars, multi, made, refused, workerVars, starterVars, enforcing, closeVars>>

FetchExisting(a) ==
  /\ CanUse
  /\ a \notin made
  /\ made' = made \cup {a}
  /\ lock' = Holds("fetching", a, NoWorker)
  /\ UNCHANGED <<offers, poolVars, multi, refused, workerVars, starterVars, enforcing, closeVars>>

AgreementCreated(a) ==
  /\ lock.op = "creating"
  /\ a \notin made
  /\ made' = made \cup {a}
  /\ lock' = Holds("preparing", a, NoWorker)
  /\ UNCHANGED <<offers, poolVars, multi, refused, workerVars, starterVars, enforcing, closeVars>>

Confirm ==
  /\ lock.op = "preparing"
  /\ lock' = [lock EXCEPT !.op = "confirming"]
  /\ UNCHANGED <<offers, poolVars, multi, made, refused, workerVars, starterVars, enforcing,
                 closeVars>>

(* confirm() returns True, or the details of an existing agreement arrive:   *)
(* the agreement enters the pool and gets its worker at once.                *)
AgreementReady(multiActivity) ==
  /\ lock.op \in {"confirming", "fetching"}
  /\ pool' = pool \cup {lock.agr}
  /\ multi' = IF multiActivity THEN multi \cup {lock.agr} ELSE multi
  /\ StartWorker(lock.agr)
  /\ lock' = Free
  /\ UNCHANGED <<offers, made, refused, reuse, starterVars, enforcing, closeVars>>

(* create_agreement() or get_details() fails, or confirm() returns False.    *)
(* The proposal is dropped, or recycled: then it may come back by            *)
(* AddProposal.                                                              *)
NoAgreementReady ==
  /\ lock.op \in {"creating", "preparing", "fetching", "confirming"}
  /\ lock' = Free
  /\ UNCHANGED <<offers, poolVars, multi, made, refused, workerVars, starterVars, enforcing,
                 closeVars>>

-----------------------------------------------------------------------------
(* _terminate_agreement *)

(* Task.cancel() for the worker tasks of S *)
Cancelled(S) ==
  [w \in Workers |-> IF w \in S \cap Live
                       THEN IF wstate[w] = "running" THEN "interrupted" ELSE "cancelling"
                       ELSE wstate[w]]

Remove(a) == /\ pool' = pool \ {a}
             /\ user' = [user EXCEPT ![a] = NoWorker]

(* Mutated form: the worker of the agreement is left alone. *)
TerminateSilently(a, request) ==
  /\ IF a \in multi THEN request /\ UNCHANGED poolVars
                     ELSE Remove(a) /\ UNCHANGED <<lock, enforcing>>
  /\ UNCHANGED wstate

(* Up to its suspension point, for an agreement in the pool: the worker is   *)
(* cancelled; only a multi-activity agreement is terminated on the market,   *)
(* and leaves the pool when that call (`request`) has returned.              *)
Terminate(a, request) ==
  /\ wstate' = Cancelled({user[a]})
  /\ IF a \in multi THEN request /\ UNCHANGED poolVars
                     ELSE Remove(a) /\ UNCHANGED <<lock, enforcing>>

-----------------------------------------------------------------------------
(* release_agreement *)

(* Mutated form: _lock is not held while terminate() is awaited. *)
ReleaseUnlocked(a, allowReuse, w) ==
  /\ user' = [user EXCEPT ![a] = NoWorker]
  /\ refused' = IF allowReuse THEN refused ELSE refused \cup {a}
  /\ IF allowReuse /\ a \in multi THEN UNCHANGED <<pool, lock, enforcing>>
     ELSE IF a \in multi
       THEN enforcing' = enforcing \cup {a} /\ UNCHANGED <<pool, lock>>
       ELSE pool' = pool \ {a} /\ UNCHANGED <<lock, enforcing>>

(* For an agreement in the pool: it gets unused, and unless it may be reused *)
(* it is terminated.                                                         *)
Release(a, allowReuse, w) ==
  /\ user' = [user EXCEPT ![a] = NoWorker]
  /\ refused' = IF allowReuse THEN refused ELSE refused \cup {a}
  /\ IF allowReuse /\ a \in multi THEN UNCHANGED <<pool, lock>>
     ELSE IF a \in multi
       THEN lock' = Holds("releasing", a, w) /\ UNCHANGED pool
       ELSE pool' = pool \ {a} /\ UNCHANGED lock
  /\ UNCHANGED enforcing

(* A worker task calls it at its end, and is done when it has returned. *)
WorkerReleases(w) ==
  LET a == worksOn[w]
  IN /\ wstate[w] = "releasing"
     /\ lock = Free
     /\ IF a \in pool THEN Release(a, reuse[w], w) ELSE UNCHANGED <<poolVars, refused, lock, enforcing>>
     /\ wstate' = IF lock' = Free THEN [wstate EXCEPT ![w] = "done"] ELSE wstate
     /\ UNCHANGED <<offers, multi, made, worksOn, reuse, starterVars, closeVars>>

(* The end of the release that waits for terminate() *)
ReleaseEnds(workerState, starterState) ==
  /\ lock.op = "releasing"
  /\ lock.by # NoWorker => wstate[lock.by] = "releasing"
  /\ wstate' = [w \in Workers |-> IF w = lock.by THEN workerState ELSE wstate[w]]
  /\ starter' = IF lock.by = NoWorker THEN starterState ELSE starter
  /\ releasing' = IF lock.by = NoWorker THEN {} ELSE releasing
  /\ lock' = Free
  /\ UNCHANGED <<offers, multi, made, refused, worksOn, reuse, cycleTodo, enforcing, todo, closing>>

(* terminate() has returned, True or False: the agreement leaves the pool,   *)
(* unless it was removed meanwhile.                                          *)
ReleaseReturns ==
  /\ ReleaseEnds("done", "cycling")
  /\ Remove(lock.agr)
  /\ UNCHANGED raised

(* terminate() has raised, as when the server closes the connection: the     *)
(* exception ends the worker task; worker_starter does not handle it either. *)
ReleaseRaises ==
  /\ ReleaseEnds("failed", "dead")
  /\ raised' = TRUE
  /\ UNCHANGED poolVars

-----------------------------------------------------------------------------
(* Worker tasks *)

SetWorker(w, from, to, allowReuse) ==
  /\ wstate[w] = from
  /\ wstate' = [wstate EXCEPT ![w] = to]
  /\ reuse' = [reuse EXCEPT ![w] = allowReuse]
  /\ UNCHANGED <<offers, poolVars, multi, made, refused, worksOn, starterVars, lock, enforcing,
                 closeVars>>

ActivityCreated(w) == SetWorker(w, "created", "running", TRUE)

(* create_activity() or activity.destroy() raises: the agreement is not      *)
(* released by its worker.                                                   *)
WorkerFails(w) == \E from \in {"created", "destroying"} : SetWorker(w, from, "failed", reuse[w])

(* run_worker returns or raises. *)
RunWorkerEnds(w, allowReuse) == SetWorker(w, "running", "destroying", allowReuse)

ActivityDestroyed(w) == SetWorker(w, "destroying", "releasing", reuse[w])

(* The worker of a service releases its agreement inside run_worker; the     *)
(* release after activity.destroy() then finds it gone.                      *)
ServiceReleases(w) ==
  \E from \in {"running", "interrupted"} : SetWorker(w, from, "releasing", FALSE)

(* Mutated form: the lock is not freed. *)
CancelKeepsLock(w) ==
  /\ wstate[w] \in {"interrupted", "cancelling"}
  /\ wstate' = [wstate EXCEPT ![w] = "cancelled"]
  /\ UNCHANGED <<offers, poolVars, multi, made, refused, worksOn, reuse, starterVars, lock,
                 enforcing, closeVars>>

(* CancelledError ends the worker task and frees the lock if it has it.      *)
CancelCompletes(w) ==
  /\ wstate[w] \in {"interrupted", "cancelling"}
  /\ wstate' = [wstate EXCEPT ![w] = "cancelled"]
  /\ lock' = IF lock.by = w THEN Free ELSE lock
  /\ UNCHANGED <<offers, poolVars, multi, made, refused, worksOn, reuse, starterVars, enforcing,
                 closeVars>>

(* The finally clause of run_worker replaces CancelledError, when finish()   *)
(* was called on its consumer.                                               *)
CancelReplaced(w) == SetWorker(w, "interrupted", "destroying", FALSE)

-----------------------------------------------------------------------------
(* cycle, which worker_starter calls every 2 s *)

CycleStarts ==
  /\ closing = "open" /\ starter = "idle" /\ lock = Free
  /\ starter' = "cycling"
  /\ cycleTodo' = pool
  /\ UNCHANGED <<offers, poolVars, multi, made, refused, workerVars, releasing, lock, enforcing,
                 closeVars>>

UserDone(a) == a \in pool /\ user[a] # NoWorker /\ wstate[user[a]] \in TaskDone

CycleSkips(a) ==
  /\ starter = "cycling" /\ releasing = {} /\ a \in cycleTodo
  /\ ~UserDone(a)
  /\ cycleTodo' = cycleTodo \ {a}
  /\ UNCHANGED <<offers, poolVars, multi, made, refused, workerVars, starter, releasing, lock,
                 enforcing, closeVars>>

(* A worker task that is done: release_agreement, with a flag computed now,  *)
(* before the lock is acquired.                                              *)
CycleReleases(a) ==
  /\ starter = "cycling" /\ releasing = {} /\ a \in cycleTodo
  /\ UserDone(a) /\ wstate[user[a]] # "cancelled"
  /\ cycleTodo' = cycleTodo \ {a}
  /\ releasing' = {[agr |-> a, allow |-> wstate[user[a]] = "done"]}
  /\ UNCHANGED <<offers, poolVars, multi, made, refused, workerVars, starter, lock, enforcing,
                 closeVars>>

CycleAcquires ==
  /\ lock = Free
  /\ \E r \in releasing :
       IF r.agr \in pool THEN Release(r.agr, r.allow, NoWorker)
                         ELSE UNCHANGED <<poolVars, refused, lock, enforcing>>
  /\ releasing' = IF lock' = Free THEN {} ELSE releasing
  /\ UNCHANGED <<offers, multi, made, workerVars, starter, cycleTodo, closeVars>>

(* task.exception() of a cancelled task raises: worker_starter ends. *)
CycleRaises(a) ==
  /\ starter = "cycling" /\ releasing = {} /\ a \in cycleTodo
  /\ UserDone(a) /\ wstate[user[a]] = "cancelled"
  /\ starter' = "dead" /\ cycleTodo' = {}
  /\ UNCHANGED <<offers, poolVars, multi, made, refused, workerVars, releasing, lock, enforcing,
                 closeVars>>

CycleEnds ==
  /\ starter = "cycling" /\ releasing = {} /\ cycleTodo = {}
  /\ starter' = "idle"
  /\ UNCHANGED <<offers, poolVars, multi, made, refused, workerVars, cycleTodo, releasing, lock,
                 enforcing, closeVars>>

-----------------------------------------------------------------------------
(* _enforce_debit_note_intervals: too many notes for the activity of a       *)
(* worker; one call at a time for an agreement.  It does not take _lock.     *)

(* The activity of the worker is known to it (_activity_created_at).  A worker *)
(* of the engine forgets it before it releases the agreement, one of a service *)
(* after; a release without reuse may be either.                               *)
HasActivity(w) == wstate[w] \in {"running", "destroying"} \/ (wstate[w] = "releasing" /\ ~reuse[w])

EnforceDebitNotes(a) ==
  /\ a \in pool \ enforcing
  /\ \E w \in Workers : worksOn[w] = a /\ HasActivity(w)
  /\ Terminate(a, enforcing' = enforcing \cup {a} /\ UNCHANGED lock)
  /\ UNCHANGED <<offers, multi, made, refused, worksOn, reuse, starterVars, closeVars>>

EnforceReturns(a) ==
  /\ a \in enforcing
  /\ enforcing' = enforcing \ {a}
  /\ \/ Remove(a) /\ UNCHANGED raised
     \/ raised' = TRUE /\ UNCHANGED poolVars
  /\ UNCHANGED <<offers, multi, made, refused, workerVars, starterVars, lock, todo, closing>>

-----------------------------------------------------------------------------
(* The end of the job *)

(* The services are cancelled, and with them what worker_starter awaits;     *)
(* the workers are cancelled too unless the job finished by itself.          *)
Stop(cancelled) ==
  /\ closing = "open"
  /\ closing' = "stopping"
  /\ starter' = "dead" /\ cycleTodo' = {} /\ releasing' = {}
  /\ lock' = IF lock.by = NoWorker THEN Free ELSE lock
  /\ wstate' = IF cancelled THEN Cancelled(Workers) ELSE wstate
  /\ UNCHANGED <<offers, poolVars, multi, made, refused, worksOn, reuse, enforcing, todo, raised>>

(* Mutated form: terminate_all() does not take the lock. *)
TerminateAllUnlocked ==
  /\ closing = "stopping" /\ lock.op # "closing"
  /\ todo = {}
  /\ todo' = pool
  /\ UNCHANGED <<offers, poolVars, multi, made, refused, workerVars, starterVars, lock, enforcing,
                 closing, raised>>

TerminateAll ==
  /\ closing = "stopping" /\ lock = Free
  /\ lock' = Holds("closing", NoAgreement, NoWorker)
  /\ todo' = pool
  /\ UNCHANGED <<offers, poolVars, multi, made, refused, workerVars, starterVars, enforcing, closing,
                 raised>>

Closes == lock.op = "closing" /\ lock.agr = NoAgreement

TerminateNext(a) ==
  /\ Closes /\ a \in todo
  /\ todo' = todo \ {a}
  /\ IF a \in pool
       THEN Terminate(a, lock' = [lock EXCEPT !.agr = a] /\ UNCHANGED enforcing)
       ELSE UNCHANGED <<poolVars, wstate, lock, enforcing>>
  /\ UNCHANGED <<offers, multi, made, refused, worksOn, reuse, starterVars, closing, raised>>

TerminateReturns ==
  /\ lock.op = "closing" /\ lock.agr # NoAgreement
  /\ Remove(lock.agr)
  /\ lock' = [lock EXCEPT !.agr = NoAgreement]
  /\ UNCHANGED <<offers, multi, made, refused, workerVars, starterVars, enforcing, closeVars>>

(* The exception of terminate() ends terminate_all(); it is only logged.     *)
TerminateRaises ==
  /\ lock.op = "closing" /\ lock.agr # NoAgreement
  /\ lock' = Free /\ todo' = {}
  /\ raised' = TRUE
  /\ closing' = "aborted"
  /\ UNCHANGED <<offers, poolVars, multi, made, refused, workerVars, starterVars, enforcing>>

AllTerminated ==
  /\ Closes /\ todo = {}
  /\ lock' = Free
  /\ closing' = "closed"
  /\ UNCHANGED <<offers, poolVars, multi, made, refused, workerVars, starterVars, enforcing, todo,
                 raised>>

-----------------------------------------------------------------------------
Starter ==
  \/ \E p \in Providers : TakeOffer(p)
  \/ \E a \in Agreements : Reuse(a) \/ FetchExisting(a)
  \/ CycleStarts \/ CycleAcquires \/ CycleEnds
  \/ \E a \in Agreements : CycleSkips(a) \/ CycleReleases(a) \/ CycleRaises(a)

(* The market answers the holder of the lock. *)
Market ==
  \/ \E a \in Agreements : AgreementCreated(a)
  \/ Confirm \/ NoAgreementReady
  \/ \E multiActivity \in BOOLEAN : AgreementReady(multiActivity)
  \/ ReleaseReturns \/ ReleaseRaises

Worker(w) ==
  \/ ActivityCreated(w) \/ WorkerFails(w) \/ ActivityDestroyed(w)
  \/ \E allowReuse \in BOOLEAN : RunWorkerEnds(w, allowReuse)
  \/ ServiceReleases(w) \/ WorkerReleases(w)
  \/ CancelCompletes(w) \/ CancelReplaced(w)

Enforcement == \E a \in Agreements : EnforceDebitNotes(a) \/ EnforceReturns(a)

Shutdown ==
  \/ TerminateAll \/ TerminateReturns \/ TerminateRaises \/ AllTerminated
  \/ \E a \in Agreements : TerminateNext(a)

Next ==
  \/ \E p \in Providers : AddProposal(p)
  \/ \E cancelled \in BOOLEAN : Stop(cancelled)
  \/ Starter \/ Market \/ Enforcement \/ Shutdown
  \/ \E w \in Workers : Worker(w)

Spec == Init /\ [][Next]_vars

(* Every call of the market API returns or fails, and the event loop         *)
(* delivers cancellations and resumes terminate_all().                       *)
Fairness ==
  /\ WF_vars(Market) /\ WF_vars(Shutdown)
  /\ \A w \in Workers : WF_vars(CancelCompletes(w))

FairSpec == Spec /\ Fairness

-----------------------------------------------------------------------------
(* Correctness *)

(* Two worker tasks never use one agreement at a time; and a worker that is  *)
(* at work, and not cancelled, is the one the pool knows for its agreement:  *)
(* no agreement leaves the pool, or is given away, under a running worker.   *)
(* The second part fails after an exception that terminate() lets through.   *)
ExclusiveUse ==
  /\ \A v, w \in Live : worksOn[v] = worksOn[w] => v = w
  /\ ~raised => \A w \in Live : wstate[w] \in {"created", "running"} =>
                                  worksOn[w] \in pool /\ user[worksOn[w]] = w

(* An agreement for which terminate() is pending, by whoever called it, is   *)
(* not given to a new worker, as long as terminate() has not raised.         *)
TerminatingNotReused ==
  [][\A a \in Agreements :
       ~raised /\ user[a] = NoWorker /\ user'[a] # NoWorker =>
         a \notin enforcing /\ ~(lock.op \in {"releasing", "closing"} /\ lock.agr = a)]_vars

(* When terminate_all() has returned, the pool is empty, and stays so, and   *)
(* no worker is left that was not told to stop.                              *)
ClosedIsEmpty ==
  closing = "closed" =>
    /\ pool = {}
    /\ ~raised => \A w \in Workers : wstate[w] \notin {"created", "running"}

(* The lock is not lost: whatever worker or service is cancelled while it    *)
(* holds _lock, terminate_all() gets it and completes.                       *)
PoolCloses == closing = "stopping" ~> closing \in {"closed", "aborted"}

(* "Otherwise it will be removed from the pool" (release_agreement): an      *)
(* agreement released without reuse is not left in the pool.                 *)
RefusedIsRemoved ==
  \A a \in refused \cap pool : lock.op \in {"releasing", "closing"} \/ a \in enforcing
=============================================================================
