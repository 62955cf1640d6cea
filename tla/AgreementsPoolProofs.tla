------------------------ MODULE AgreementsPoolProofs ------------------------
(* Theorems about AgreementsPool for every set of agreements and workers.    *)
(*                                                                           *)
(* None of the invariants is inductive, not even TypeOK (what the holder of  *)
(* _lock creates has to be an agreement): PoolInv below is.  It says what    *)
(* the holder of _lock may rely on while it waits, although                  *)
(* _enforce_debit_note_intervals, Task.cancel() and the worker tasks do not  *)
(* take the lock.                                                            *)
EXTENDS AgreementsPool, TLAPS

(* The parts of TypeOK *)
PoolTypes ==
  /\ offers \subseteq Providers
  /\ pool \subseteq made /\ made \subseteq Agreements
  /\ user \in [Agreements -> Workers \cup {NoWorker}]
  /\ multi \subseteq made /\ refused \subseteq made
  /\ enforcing \subseteq multi
WorkerTypes ==
  /\ wstate \in [Workers -> WorkerState]
  /\ worksOn \in [Workers -> Agreements \cup {NoAgreement}]
  /\ reuse \in [Workers -> BOOLEAN]
StarterTypes ==
  /\ starter \in {"idle", "cycling", "dead"}
  /\ cycleTodo \subseteq made
  /\ releasing \subseteq [agr : made, allow : BOOLEAN]
LockTypes == lock \in Locks /\ (todo # {} => lock.op = "closing")
CloseTypes == todo \subseteq made /\ closing \in Closing /\ raised \in BOOLEAN
Types == PoolTypes /\ WorkerTypes /\ StarterTypes /\ LockTypes /\ CloseTypes

(* The user of an agreement of the pool is a worker task that was started    *)
(* with it and has not released it: cycle() never finds one that returned.   *)
UserOK ==
  \A a \in Agreements : user[a] # NoWorker =>
    a \in pool /\ worksOn[user[a]] = a /\ wstate[user[a]] \notin {"none", "done"}

(* A worker that is alive is alone with its agreement, and is its user       *)
(* unless it holds the lock to release it, or the agreement has been removed;*)
(* it is not removed under a worker that is at work.                         *)
AtWork(w) == wstate[w] \in {"created", "running"}
Started == \A w \in Workers : wstate[w] # "none" => worksOn[w] \in made
Alone == \A v, w \in Live : worksOn[v] = worksOn[w] => v = w
LiveIsUser ==
  \A w \in Live : worksOn[w] \in pool =>
    \/ user[worksOn[w]] = w
    \/ user[worksOn[w]] = NoWorker /\ lock.op = "releasing" /\ lock.by = w
AtWorkInPool == ~raised => \A w \in Workers : AtWork(w) => worksOn[w] \in pool
UsersOK == UserOK /\ Started /\ Alone /\ LiveIsUser /\ AtWorkInPool

(* What the holder of the lock may rely on while it waits: worker_starter    *)
(* that its new agreement is known to nobody else; a release that the        *)
(* agreement is not given away; terminate_all() that it misses no agreement. *)
StarterHolds ==
  lock.op \in {"creating", "preparing", "fetching", "confirming"} =>
    closing = "open" /\ starter = "idle" /\ lock.by = NoWorker
NewHeld ==
  lock.op \in {"preparing", "fetching", "confirming"} =>
    /\ lock.agr \in made \ (pool \cup multi)
    /\ \A w \in Workers : wstate[w] # "none" => worksOn[w] # lock.agr
ReleaseHolds == lock.op = "releasing" => lock.agr \in Agreements /\ user[lock.agr] = NoWorker
WorkerHolds ==
  lock.by # NoWorker =>
    /\ lock.op = "releasing" /\ worksOn[lock.by] = lock.agr
    /\ \/ wstate[lock.by] = "releasing"
       \/ wstate[lock.by] = "cancelling" /\ closing # "open"
ClosingHolds ==
  lock.op = "closing" =>
    /\ closing = "stopping" /\ pool \subseteq todo \cup {lock.agr}
    /\ ~raised => \A w \in Workers : AtWork(w) => worksOn[w] # lock.agr
HoldersOK == StarterHolds /\ NewHeld /\ ReleaseHolds /\ WorkerHolds /\ ClosingHolds

(* cycle() releases agreements without reuse whose worker has ended.         *)
CycleOK ==
  \A r \in releasing :
    /\ starter = "cycling" /\ ~r.allow
    /\ r.agr \in pool => \A w \in Live : worksOn[w] # r.agr

(* The worker of an agreement that is being terminated is on its way out,    *)
(* and will not release it for reuse.                                        *)
EnforcingOK ==
  ~raised => \A a \in enforcing \cap pool :
    IF user[a] = NoWorker
      THEN (lock.op = "releasing" /\ lock.agr = a) \/ closing # "open"
      ELSE \/ wstate[user[a]] \in {"interrupted", "cancelling", "failed", "cancelled"}
           \/ wstate[user[a]] \in {"destroying", "releasing"} /\ ~reuse[user[a]]

ClosedOK == closing = "closed" => pool = {}
EndsOK == CycleOK /\ EnforcingOK /\ ClosedOK

PoolInv == TypeOK /\ UsersOK /\ HoldersOK /\ EndsOK

-----------------------------------------------------------------------------
(* Facts about locks, cancellation and the steps of a worker *)

LEMMA TypeParts == TypeOK <=> Types
  BY DEF TypeOK, Types, PoolTypes, WorkerTypes, StarterTypes, LockTypes, CloseTypes

LEMMA FreeFacts ==
  /\ Free \in Locks /\ Free.op = "free" /\ Free.agr = NoAgreement /\ Free.by = NoWorker
  /\ \A l \in Locks : l = Free <=> l.op = "free" /\ l.agr = NoAgreement /\ l.by = NoWorker
  BY DEF Free, Holds, Locks, LockOp

LEMMA HoldsFacts ==
  ASSUME NEW op, NEW a, NEW w
  PROVE  Holds(op, a, w).op = op /\ Holds(op, a, w).agr = a /\ Holds(op, a, w).by = w
  BY DEF Holds

LEMMA HoldsType ==
  ASSUME NEW op \in LockOp, NEW a \in Agreements \cup {NoAgreement},
         NEW w \in Workers \cup {NoWorker}
  PROVE  Holds(op, a, w) \in Locks
  BY DEF Holds, Locks

LEMMA ConfirmingFacts ==
  ASSUME NEW l \in Locks, NEW k, k = [l EXCEPT !.op = "confirming"]
  PROVE  k \in Locks /\ k.op = "confirming" /\ k.agr = l.agr /\ k.by = l.by
  BY DEF Locks, LockOp

LEMMA LockAgr ==
  ASSUME NEW l \in Locks, NEW a \in Agreements \cup {NoAgreement},
         NEW k, k = [l EXCEPT !.agr = a]
  PROVE  k \in Locks /\ k.op = l.op /\ k.agr = a /\ k.by = l.by
  BY DEF Locks

LEMMA CancelledFacts ==
  ASSUME WorkerTypes, NEW S
  PROVE  /\ Cancelled(S) \in [Workers -> WorkerState]
         /\ \A w \in Workers :
              /\ w \notin S \/ w \notin Live => Cancelled(S)[w] = wstate[w]
              /\ w \in S /\ w \in Live =>
                   Cancelled(S)[w] =
                     IF wstate[w] = "running" THEN "interrupted" ELSE "cancelling"
  BY DEF WorkerTypes, Cancelled, WorkerState, Live

(* What a worker task does on its own, other than releasing its agreement    *)
(* and being cancelled: it does not come back from its end, and a cancelled  *)
(* one releases without reuse.                                               *)
Moves(from, to, allowReuse, allowed) ==
  /\ from \in {"created", "running", "destroying", "interrupted"}
  /\ to \in {"running", "destroying", "releasing", "failed"}
  /\ to = "running" => from = "created"
  /\ from = "interrupted" => ~allowReuse
  /\ from = "destroying" => allowReuse = allowed
LEMMA WorkerMoves ==
  ASSUME TypeOK, NEW w \in Workers,
         \/ ActivityCreated(w) \/ WorkerFails(w) \/ ActivityDestroyed(w)
         \/ \E allowReuse \in BOOLEAN : RunWorkerEnds(w, allowReuse)
         \/ ServiceReleases(w) \/ CancelReplaced(w)
  PROVE  \E from, to \in WorkerState, b \in BOOLEAN :
           SetWorker(w, from, to, b) /\ Moves(from, to, b, reuse[w])
<1>1. reuse[w] \in BOOLEAN
  BY DEF TypeOK
<1> QED
  BY <1>1, Zenon
     DEF ActivityCreated, WorkerFails, ActivityDestroyed, RunWorkerEnds, ServiceReleases,
         CancelReplaced, Moves, WorkerState

-----------------------------------------------------------------------------
(* Every step preserves PoolInv *)

(* Only use_agreement gives an agreement a worker. *)
LEMMA UserSet ==
  ASSUME TypeOK, [Next]_vars, NEW a \in Agreements, user'[a] \notin {user[a], NoWorker}
  PROVE  \/ \E b \in Agreements : Reuse(b)
         \/ \E multiActivity \in BOOLEAN : AgreementReady(multiActivity)
<1> USE DEF poolVars
<1>0. user \in [Agreements -> Workers \cup {NoWorker}]
  BY DEF TypeOK
<1>1. ASSUME NEW p \in Providers, AddProposal(p) \/ TakeOffer(p)
      PROVE  FALSE
  BY <1>1 DEF AddProposal, TakeOffer
<1>2. ASSUME NEW cancelled \in BOOLEAN, Stop(cancelled)
      PROVE  FALSE
  BY <1>2 DEF Stop
<1>3. ASSUME NEW b \in Agreements,
             \/ FetchExisting(b) \/ AgreementCreated(b)
             \/ CycleSkips(b) \/ CycleReleases(b) \/ CycleRaises(b)
      PROVE  FALSE
  BY <1>3 DEF FetchExisting, AgreementCreated, CycleSkips, CycleReleases, CycleRaises
<1>4. ASSUME NEW b \in Agreements,
             EnforceDebitNotes(b) \/ EnforceReturns(b) \/ TerminateNext(b)
      PROVE  FALSE
  BY <1>0, <1>4 DEF EnforceDebitNotes, EnforceReturns, TerminateNext, Terminate, Remove
<1>5. CASE CycleStarts \/ CycleAcquires \/ CycleEnds \/ Confirm \/ NoAgreementReady
  BY <1>0, <1>5 DEF CycleStarts, CycleAcquires, CycleEnds, Confirm, NoAgreementReady, Release
<1>6. CASE ReleaseReturns \/ ReleaseRaises
  BY <1>0, <1>6 DEF ReleaseReturns, ReleaseRaises, Remove
<1>7. CASE TerminateAll \/ TerminateReturns \/ TerminateRaises \/ AllTerminated
  BY <1>0, <1>7 DEF TerminateAll, TerminateReturns, TerminateRaises, AllTerminated, Remove
<1>8. ASSUME NEW w \in Workers, Worker(w)
      PROVE  FALSE
  <2>1. CASE WorkerReleases(w) \/ CancelCompletes(w)
    BY <1>0, <2>1 DEF WorkerReleases, CancelCompletes, Release
  <2>2. CASE \E from, to \in WorkerState, b \in BOOLEAN : SetWorker(w, from, to, b)
    BY <2>2 DEF SetWorker
  <2> QED
    BY <1>8, <2>1, <2>2, WorkerMoves DEF Worker
<1>9. Next
  BY DEF vars
<1> QED
  BY <1>1, <1>2, <1>3, <1>4, <1>5, <1>6, <1>7, <1>8, <1>9, Zenon
     DEF Next, Starter, Market, Enforcement, Shutdown

LEMMA LockBy ==
  ASSUME TypeOK
  PROVE  lock.by \in Workers \cup {NoWorker} /\ lock.agr \in Agreements \cup {NoAgreement}
  BY DEF TypeOK, Locks

(* A worker that does not hold the lock leaves it alone when it is cancelled. *)
LEMMA CancelLock ==
  ASSUME NEW w, CancelCompletes(w), lock.by # w
  PROVE  lock' = lock
  BY DEF CancelCompletes

LEMMA Parts ==
  ASSUME Types', UsersOK', HoldersOK', EndsOK'
  PROVE  PoolInv'
  BY DEF PoolInv, TypeOK, Types, PoolTypes, WorkerTypes, StarterTypes, LockTypes, CloseTypes

USE NoAssumption, TypeParts DEF poolVars, workerVars, starterVars, closeVars, PoolInv,
                                Types, PoolTypes, WorkerTypes, StarterTypes, LockTypes,
                                CloseTypes, Live, TaskDone, UsersOK, HoldersOK, EndsOK

LEMMA TakeOfferInv ==
  ASSUME PoolInv, NEW p \in Providers, TakeOffer(p)
  PROVE  PoolInv'
<1> USE DEF TakeOffer, CanUse
<1>0. /\ lock.op = "free" /\ lock.by = NoWorker
      /\ lock'.op = "creating" /\ lock'.by = NoWorker /\ lock'.agr = NoAgreement
  BY FreeFacts, HoldsFacts, ConfirmingFacts, LockAgr
<1>1. Types'
  BY <1>0, FreeFacts, HoldsType, ConfirmingFacts, LockAgr
     DEF StarterHolds, NewHeld, LockOp, WorkerState, Closing, WorkerHolds, ClosingHolds
<1>2. UsersOK'
  BY <1>0 DEF UserOK, Started, Alone, LiveIsUser, AtWorkInPool, AtWork
<1>3. HoldersOK'
  BY <1>0 DEF StarterHolds, NewHeld, ReleaseHolds, WorkerHolds, ClosingHolds
<1>4. EndsOK'
  BY <1>0 DEF NewHeld, ReleaseHolds, WorkerHolds, ClosingHolds, CycleOK, EnforcingOK, ClosedOK
<1> QED
  BY <1>1, <1>2, <1>3, <1>4, Parts

LEMMA AddProposalInv ==
  ASSUME PoolInv, NEW p \in Providers, AddProposal(p)
  PROVE  PoolInv'
<1> USE DEF AddProposal
<1>1. Types'
  OBVIOUS
<1>2. UsersOK'
  BY DEF UserOK, Started, Alone, LiveIsUser, AtWorkInPool, AtWork
<1>3. HoldersOK'
  BY DEF UserOK, Started, LiveIsUser, AtWorkInPool, AtWork, StarterHolds, NewHeld,
         ReleaseHolds, WorkerHolds, ClosingHolds
<1>4. EndsOK'
  BY DEF NewHeld, ReleaseHolds, WorkerHolds, ClosingHolds, CycleOK, EnforcingOK, ClosedOK
<1> QED
  BY <1>1, <1>2, <1>3, <1>4, Parts

LEMMA StopInv ==
  ASSUME PoolInv, NEW cancelled \in BOOLEAN, Stop(cancelled)
  PROVE  PoolInv'
<1> USE DEF Stop
<1>0. \/ lock' = lock /\ lock.by # NoWorker
      \/ /\ lock'.op = "free" /\ lock'.by = NoWorker /\ lock'.agr = NoAgreement
         /\ lock.by = NoWorker
  BY FreeFacts, HoldsFacts, ConfirmingFacts, LockAgr
<1>1. Types'
  <2>1. PoolTypes'
    OBVIOUS
  <2>2. WorkerTypes'
    BY <1>0, FreeFacts, CancelledFacts
  <2>3. StarterTypes'
    OBVIOUS
  <2>4. LockTypes'
    BY <1>0, FreeFacts, CancelledFacts DEF ClosingHolds, Closing, WorkerState
  <2>5. CloseTypes'
    BY DEF ClosingHolds, Closing, WorkerState
  <2> QED
    BY <2>1, <2>2, <2>3, <2>4, <2>5
<1>2. UsersOK'
  BY <1>0, CancelledFacts
     DEF UserOK, Started, Alone, LiveIsUser, AtWorkInPool, AtWork, ClosingHolds, CycleOK,
         EnforcingOK, NewHeld, ReleaseHolds, WorkerHolds
<1>3. HoldersOK'
  <2>1. StarterHolds'
    BY <1>0, CancelledFacts DEF StarterHolds, NewHeld, ReleaseHolds, WorkerHolds, ClosingHolds
  <2>2. NewHeld'
    BY <1>0, CancelledFacts DEF StarterHolds, NewHeld, ReleaseHolds, WorkerHolds, ClosingHolds
  <2>3. ReleaseHolds'
    BY <1>0, CancelledFacts DEF StarterHolds, NewHeld, ReleaseHolds, WorkerHolds, ClosingHolds
  <2>4. WorkerHolds'
    <3>1. CASE lock.by = NoWorker
      BY <1>0, <3>1 DEF WorkerHolds
    <3>2. CASE lock.by # NoWorker
      <4>1. lock' = lock /\ lock.by \in Workers
        BY <3>2, LockBy
      <4>2. lock.op = "releasing" /\ worksOn[lock.by] = lock.agr
             /\ wstate'[lock.by] \in {"releasing", "cancelling"}
        BY <3>2, <4>1, CancelledFacts DEF WorkerHolds
      <4> QED
        BY <4>1, <4>2 DEF WorkerHolds
    <3> QED
      BY <3>1, <3>2
  <2>5. ClosingHolds'
    BY <1>0, CancelledFacts DEF StarterHolds, NewHeld, ReleaseHolds, WorkerHolds, ClosingHolds
  <2> QED
    BY <2>1, <2>2, <2>3, <2>4, <2>5
<1>4. EndsOK'
  BY <1>0, CancelledFacts
     DEF ReleaseHolds, WorkerHolds, ClosingHolds, CycleOK, EnforcingOK, ClosedOK
<1> QED
  BY <1>1, <1>2, <1>3, <1>4, Parts

LEMMA ReuseInv ==
  ASSUME PoolInv, NEW a \in Agreements, Reuse(a)
  PROVE  PoolInv'
<1> USE DEF Reuse, CanUse, Reusable, StartWorker
<1>0. lock' = lock /\ lock.op = "free" /\ lock.by = NoWorker
  BY FreeFacts, HoldsFacts, ConfirmingFacts, LockAgr
<1>1. Types'
  BY DEF StarterHolds, NewHeld, LockOp, WorkerState, Closing, WorkerHolds
<1>2. UsersOK'
  BY <1>0 DEF UserOK, Started, Alone, LiveIsUser, AtWorkInPool, AtWork
<1>3. HoldersOK'
  BY <1>0 DEF StarterHolds, NewHeld, ReleaseHolds, WorkerHolds, ClosingHolds
<1>4. EndsOK'
  BY <1>0 DEF NewHeld, ReleaseHolds, WorkerHolds, ClosingHolds, CycleOK, EnforcingOK, ClosedOK
<1> QED
  BY <1>1, <1>2, <1>3, <1>4, Parts

LEMMA FetchExistingInv ==
  ASSUME PoolInv, NEW a \in Agreements, FetchExisting(a)
  PROVE  PoolInv'
<1> USE DEF FetchExisting, CanUse
<1>0. /\ lock.op = "free" /\ lock.by = NoWorker
      /\ lock'.op = "fetching" /\ lock'.by = NoWorker /\ lock'.agr = a
  BY FreeFacts, HoldsFacts, ConfirmingFacts, LockAgr
<1>1. Types'
  BY <1>0, FreeFacts, HoldsType, ConfirmingFacts, LockAgr
     DEF StarterHolds, NewHeld, LockOp, WorkerState, Closing, WorkerHolds, ClosingHolds
<1>2. UsersOK'
  BY <1>0 DEF UserOK, Started, Alone, LiveIsUser, AtWorkInPool, AtWork
<1>3. HoldersOK'
  BY <1>0
     DEF UserOK, Started, LiveIsUser, AtWorkInPool, AtWork, StarterHolds, NewHeld,
         ReleaseHolds, WorkerHolds, ClosingHolds
<1>4. EndsOK'
  BY <1>0 DEF NewHeld, ReleaseHolds, WorkerHolds, ClosingHolds, CycleOK, EnforcingOK, ClosedOK
<1> QED
  BY <1>1, <1>2, <1>3, <1>4, Parts

LEMMA AgreementCreatedInv ==
  ASSUME PoolInv, NEW a \in Agreements, AgreementCreated(a)
  PROVE  PoolInv'
<1> USE DEF AgreementCreated
<1>0. lock.op = "creating" /\ lock'.op = "preparing" /\ lock'.by = NoWorker /\ lock'.agr = a
  BY FreeFacts, HoldsFacts, ConfirmingFacts, LockAgr
<1>1. Types'
  BY <1>0, FreeFacts, HoldsType, ConfirmingFacts, LockAgr
     DEF StarterHolds, NewHeld, LockOp, WorkerState, Closing, WorkerHolds, ClosingHolds
<1>2. UsersOK'
  BY <1>0 DEF UserOK, Started, Alone, LiveIsUser, AtWorkInPool, AtWork
<1>3. HoldersOK'
  BY <1>0
     DEF UserOK, Started, LiveIsUser, AtWorkInPool, AtWork, StarterHolds, NewHeld,
         ReleaseHolds, WorkerHolds, ClosingHolds
<1>4. EndsOK'
  BY <1>0 DEF NewHeld, ReleaseHolds, WorkerHolds, ClosingHolds, CycleOK, EnforcingOK, ClosedOK
<1> QED
  BY <1>1, <1>2, <1>3, <1>4, Parts

LEMMA CycleStartsInv ==
  ASSUME PoolInv, CycleStarts
  PROVE  PoolInv'
<1> USE DEF CycleStarts
<1>0. lock.op = "free"
  BY FreeFacts, HoldsFacts, ConfirmingFacts, LockAgr
<1>1. Types'
  OBVIOUS
<1>2. UsersOK'
  BY <1>0 DEF UserOK, Started, Alone, LiveIsUser, AtWorkInPool, AtWork
<1>3. HoldersOK'
  BY <1>0 DEF StarterHolds, NewHeld, ReleaseHolds, WorkerHolds, ClosingHolds
<1>4. EndsOK'
  BY <1>0 DEF NewHeld, ReleaseHolds, WorkerHolds, ClosingHolds, CycleOK, EnforcingOK, ClosedOK
<1> QED
  BY <1>1, <1>2, <1>3, <1>4, Parts

LEMMA CycleEndsInv ==
  ASSUME PoolInv, CycleEnds
  PROVE  PoolInv'
<1> USE DEF CycleEnds
<1>1. Types'
  OBVIOUS
<1>2. UsersOK'
  BY DEF UserOK, Started, Alone, LiveIsUser, AtWorkInPool, AtWork
<1>3. HoldersOK'
  BY DEF UserOK, Started, LiveIsUser, AtWorkInPool, AtWork, StarterHolds, NewHeld,
         ReleaseHolds, WorkerHolds, ClosingHolds
<1>4. EndsOK'
  BY DEF NewHeld, ReleaseHolds, WorkerHolds, ClosingHolds, CycleOK, EnforcingOK, ClosedOK
<1> QED
  BY <1>1, <1>2, <1>3, <1>4, Parts

LEMMA CycleAcquiresInv ==
  ASSUME PoolInv, CycleAcquires
  PROVE  PoolInv'
<1> USE DEF CycleAcquires, Release
<1>0. PICK r \in releasing :
        IF r.agr \in pool THEN Release(r.agr, r.allow, NoWorker)
                          ELSE UNCHANGED <<poolVars, refused, lock, enforcing>>
  BY Zenon
<1>a. /\ lock.op = "free" /\ lock.by = NoWorker /\ starter = "cycling"
      /\ r.agr \in made /\ ~r.allow
      /\ r.agr \in pool => \A w \in Live : worksOn[w] # r.agr
  BY FreeFacts DEF CycleOK
<1>b. \/ r.agr \notin pool' /\ lock' = lock
      \/ /\ r.agr \in pool /\ r.agr \in multi
         /\ lock'.op = "releasing" /\ lock'.by = NoWorker /\ lock'.agr = r.agr
         /\ user' = [user EXCEPT ![r.agr] = NoWorker]
  <2>1. CASE r.agr \notin pool
    BY <1>0, <2>1
  <2>2. CASE r.agr \in pool /\ r.agr \notin multi
    BY <1>0, <2>2
  <2>3. CASE r.agr \in pool /\ r.agr \in multi
    BY <1>0, <1>a, <2>3, HoldsFacts
  <2> QED
    BY <2>1, <2>2, <2>3
<1>1. Types'
  BY <1>0, <1>a, <1>b, FreeFacts, HoldsType DEF LockOp
<1>2. UsersOK'
  <2>1. CASE r.agr \notin pool
    BY <1>0, <2>1 DEF UserOK, Started, Alone, LiveIsUser, AtWorkInPool, AtWork
  <2>2. CASE r.agr \in pool
    <3>1. /\ pool' \subseteq pool /\ pool \ {r.agr} \subseteq pool'
          /\ user' = [user EXCEPT ![r.agr] = NoWorker]
          /\ UNCHANGED <<made, wstate, worksOn, raised>>
      BY <1>0, <2>2
    <3>2. \A w \in Live : worksOn[w] # r.agr
      BY <1>a, <2>2
    <3> QED
      BY <1>a, <1>b, <3>1, <3>2 DEF UserOK, Started, Alone, LiveIsUser, AtWorkInPool, AtWork
  <2> QED
    BY <2>1, <2>2
<1>3. HoldersOK'
  BY <1>0, <1>a, <1>b DEF StarterHolds, NewHeld, ReleaseHolds, WorkerHolds, ClosingHolds
<1>4. EndsOK'
  <2>1. CycleOK'
    BY <1>0 DEF CycleOK
  <2>2. EnforcingOK'
    BY <1>0, <1>a, <1>b DEF EnforcingOK
  <2>3. ClosedOK'
    BY DEF ClosedOK
  <2> QED
    BY <2>1, <2>2, <2>3
<1> QED
  BY <1>1, <1>2, <1>3, <1>4, Parts

LEMMA CycleSkipsInv ==
  ASSUME PoolInv, NEW a \in Agreements, CycleSkips(a)
  PROVE  PoolInv'
<1> USE DEF CycleSkips
<1>1. Types'
  OBVIOUS
<1>2. UsersOK'
  BY DEF UserOK, Started, Alone, LiveIsUser, AtWorkInPool, AtWork
<1>3. HoldersOK'
  BY DEF UserOK, Started, LiveIsUser, AtWorkInPool, AtWork, StarterHolds, NewHeld,
         ReleaseHolds, WorkerHolds, ClosingHolds
<1>4. EndsOK'
  BY DEF NewHeld, ReleaseHolds, WorkerHolds, ClosingHolds, CycleOK, EnforcingOK, ClosedOK
<1> QED
  BY <1>1, <1>2, <1>3, <1>4, Parts

LEMMA CycleReleasesInv ==
  ASSUME PoolInv, NEW a \in Agreements, CycleReleases(a)
  PROVE  PoolInv'
<1> USE DEF CycleReleases, UserDone
<1>1. Types'
  OBVIOUS
<1>2. UsersOK'
  BY DEF UserOK, Started, Alone, LiveIsUser, AtWorkInPool, AtWork
<1>3. HoldersOK'
  BY DEF UserOK, Started, LiveIsUser, AtWorkInPool, AtWork, StarterHolds, NewHeld,
         ReleaseHolds, WorkerHolds, ClosingHolds
<1>4. EndsOK'
  <2>1. /\ user[a] \in Workers /\ a \in pool
        /\ wstate[user[a]] \in TaskDone /\ wstate[user[a]] # "done"
    BY DEF UserOK
  <2>2. \A w \in Live : worksOn[w] # a
    BY DEF LiveIsUser
  <2>3. CycleOK'
    <3>1. releasing' = {[agr |-> a, allow |-> FALSE]} /\ starter' = "cycling"
      BY <2>1
    <3>2. \A w \in Workers : w \in Live' => worksOn'[w] # a
      BY <2>2
    <3> QED
      BY <3>1, <3>2 DEF CycleOK
  <2> QED
    BY <2>3 DEF EnforcingOK, ClosedOK
<1> QED
  BY <1>1, <1>2, <1>3, <1>4, Parts

LEMMA CycleRaisesInv ==
  ASSUME PoolInv, NEW a \in Agreements, CycleRaises(a)
  PROVE  PoolInv'
<1> USE DEF CycleRaises
<1>1. Types'
  OBVIOUS
<1>2. UsersOK'
  BY DEF UserOK, Started, Alone, LiveIsUser, AtWorkInPool, AtWork
<1>3. HoldersOK'
  BY DEF UserOK, Started, LiveIsUser, AtWorkInPool, AtWork, StarterHolds, NewHeld,
         ReleaseHolds, WorkerHolds, ClosingHolds
<1>4. EndsOK'
  BY DEF NewHeld, ReleaseHolds, WorkerHolds, ClosingHolds, CycleOK, EnforcingOK, ClosedOK
<1> QED
  BY <1>1, <1>2, <1>3, <1>4, Parts

LEMMA ConfirmInv ==
  ASSUME PoolInv, Confirm
  PROVE  PoolInv'
<1> USE DEF Confirm
<1>0. /\ lock.op = "preparing" /\ lock'.op = "confirming"
      /\ lock'.by = lock.by /\ lock'.agr = lock.agr
  OBVIOUS
<1>1. Types'
  BY <1>0, FreeFacts, HoldsType, ConfirmingFacts, LockAgr DEF ClosingHolds
<1>2. UsersOK'
  BY <1>0 DEF UserOK, Started, Alone, LiveIsUser, AtWorkInPool, AtWork
<1>3. HoldersOK'
  BY <1>0 DEF StarterHolds, NewHeld, ReleaseHolds, WorkerHolds, ClosingHolds
<1>4. EndsOK'
  BY <1>0 DEF NewHeld, ReleaseHolds, WorkerHolds, ClosingHolds, CycleOK, EnforcingOK, ClosedOK
<1> QED
  BY <1>1, <1>2, <1>3, <1>4, Parts

LEMMA NoAgreementReadyInv ==
  ASSUME PoolInv, NoAgreementReady
  PROVE  PoolInv'
<1> USE DEF NoAgreementReady
<1>0. lock'.op = "free" /\ lock'.by = NoWorker /\ lock'.agr = NoAgreement
  BY FreeFacts, HoldsFacts, ConfirmingFacts, LockAgr
<1>1. Types'
  BY <1>0, FreeFacts, HoldsType, ConfirmingFacts, LockAgr DEF ClosingHolds
<1>2. UsersOK'
  BY <1>0 DEF UserOK, Started, Alone, LiveIsUser, AtWorkInPool, AtWork
<1>3. HoldersOK'
  BY <1>0 DEF StarterHolds, NewHeld, ReleaseHolds, WorkerHolds, ClosingHolds
<1>4. EndsOK'
  BY <1>0 DEF NewHeld, ReleaseHolds, WorkerHolds, ClosingHolds, CycleOK, EnforcingOK, ClosedOK
<1> QED
  BY <1>1, <1>2, <1>3, <1>4, Parts

LEMMA AgreementReadyInv ==
  ASSUME PoolInv, NEW multiActivity \in BOOLEAN, AgreementReady(multiActivity)
  PROVE  PoolInv'
<1> USE DEF AgreementReady, StartWorker
<1>0. lock'.op = "free" /\ lock'.by = NoWorker /\ lock'.agr = NoAgreement
  BY FreeFacts, HoldsFacts, ConfirmingFacts, LockAgr
<1>1. Types'
  BY <1>0, FreeFacts, HoldsType, ConfirmingFacts, LockAgr
     DEF StarterHolds, NewHeld, LockOp, WorkerState, Closing, WorkerHolds, ClosingHolds
<1>2. UsersOK'
  BY <1>0
     DEF UserOK, Started, Alone, LiveIsUser, AtWorkInPool, AtWork, ClosingHolds, CycleOK,
         EnforcingOK, NewHeld, ReleaseHolds, WorkerHolds
<1>3. HoldersOK'
  BY <1>0 DEF StarterHolds, NewHeld, ReleaseHolds, WorkerHolds, ClosingHolds
<1>4. EndsOK'
  BY <1>0
     DEF UserOK, Started, Alone, LiveIsUser, AtWorkInPool, AtWork, StarterHolds, NewHeld,
         ReleaseHolds, WorkerHolds, ClosingHolds, CycleOK, EnforcingOK, ClosedOK
<1> QED
  BY <1>1, <1>2, <1>3, <1>4, Parts

LEMMA ReleaseReturnsInv ==
  ASSUME PoolInv, ReleaseReturns
  PROVE  PoolInv'
<1> USE DEF ReleaseReturns, ReleaseEnds, Remove
<1>0. lock'.op = "free" /\ lock'.by = NoWorker /\ lock'.agr = NoAgreement
  BY FreeFacts, HoldsFacts, ConfirmingFacts, LockAgr
<1>1. Types'
  BY <1>0, FreeFacts, HoldsType, ConfirmingFacts, LockAgr
     DEF StarterHolds, NewHeld, LockOp, WorkerState, Closing, WorkerHolds, ClosingHolds
<1>2. UsersOK'
  BY <1>0
     DEF UserOK, Started, Alone, LiveIsUser, AtWorkInPool, AtWork, ClosingHolds, CycleOK,
         EnforcingOK, NewHeld, ReleaseHolds, WorkerHolds
<1>3. HoldersOK'
  BY <1>0 DEF StarterHolds, NewHeld, ReleaseHolds, WorkerHolds, ClosingHolds
<1>4. EndsOK'
  BY <1>0
     DEF UserOK, Started, Alone, LiveIsUser, AtWorkInPool, AtWork, StarterHolds, NewHeld,
         ReleaseHolds, WorkerHolds, ClosingHolds, CycleOK, EnforcingOK, ClosedOK
<1> QED
  BY <1>1, <1>2, <1>3, <1>4, Parts

LEMMA ReleaseRaisesInv ==
  ASSUME PoolInv, ReleaseRaises
  PROVE  PoolInv'
<1> USE DEF ReleaseRaises, ReleaseEnds
<1>0. lock'.op = "free" /\ lock'.by = NoWorker /\ lock'.agr = NoAgreement
  BY FreeFacts, HoldsFacts, ConfirmingFacts, LockAgr
<1>1. Types'
  BY <1>0, FreeFacts, HoldsType, ConfirmingFacts, LockAgr
     DEF StarterHolds, NewHeld, LockOp, WorkerState, Closing, WorkerHolds, ClosingHolds
<1>2. UsersOK'
  BY <1>0 DEF UserOK, Started, Alone, LiveIsUser, AtWorkInPool, AtWork
<1>3. HoldersOK'
  BY <1>0 DEF StarterHolds, NewHeld, ReleaseHolds, WorkerHolds, ClosingHolds
<1>4. EndsOK'
  BY <1>0 DEF NewHeld, ReleaseHolds, WorkerHolds, ClosingHolds, CycleOK, EnforcingOK, ClosedOK
<1> QED
  BY <1>1, <1>2, <1>3, <1>4, Parts

LEMMA EnforceDebitNotesInv ==
  ASSUME PoolInv, NEW a \in Agreements, EnforceDebitNotes(a)
  PROVE  PoolInv'
<1> USE DEF EnforceDebitNotes, Terminate, Remove
<1>0. lock' = lock
  OBVIOUS
<1>1. Types'
  BY <1>0, CancelledFacts, FreeFacts, HoldsType, ConfirmingFacts, LockAgr DEF ClosingHolds
<1>2. UsersOK'
  BY <1>0, CancelledFacts
     DEF UserOK, Started, Alone, LiveIsUser, AtWorkInPool, AtWork, ClosingHolds, CycleOK,
         EnforcingOK, NewHeld, ReleaseHolds, WorkerHolds
<1>3. HoldersOK'
  <2>1. user[a] = NoWorker \/ user[a] # lock.by
    BY DEF UserOK, WorkerHolds, ReleaseHolds
  <2>2. StarterHolds'
    BY DEF UserOK, Started, Alone, LiveIsUser, AtWorkInPool, AtWork, StarterHolds
  <2>3. NewHeld'
    BY <1>0, <2>1, CancelledFacts DEF NewHeld, ReleaseHolds, WorkerHolds, ClosingHolds
  <2>4. ReleaseHolds'
    BY <1>0, <2>1, CancelledFacts DEF NewHeld, ReleaseHolds, WorkerHolds, ClosingHolds
  <2>5. WorkerHolds'
    <3>1. SUFFICES ASSUME lock.by # NoWorker
                   PROVE  wstate'[lock.by] = wstate[lock.by]
      BY DEF WorkerHolds
    <3>2. lock.by \in Workers \ {user[a]}
      BY <2>1, <3>1, LockBy
    <3> QED
      BY <3>2, CancelledFacts
  <2>6. ClosingHolds'
    BY <1>0, <2>1, CancelledFacts
       DEF UserOK, Started, Alone, LiveIsUser, AtWorkInPool, AtWork, StarterHolds, NewHeld,
           ReleaseHolds, WorkerHolds, ClosingHolds
  <2> QED
    BY <2>2, <2>3, <2>4, <2>5, <2>6
<1>4. EndsOK'
  <2>1. CycleOK'
    BY <1>0, CancelledFacts
       DEF ReleaseHolds, WorkerHolds, ClosingHolds, HasActivity, CycleOK, EnforcingOK,
           ClosedOK
  <2>2. EnforcingOK'
    BY <1>0, CancelledFacts
       DEF UserOK, Started, Alone, LiveIsUser, AtWorkInPool, AtWork, StarterHolds, NewHeld,
           ReleaseHolds, WorkerHolds, ClosingHolds, HasActivity, CycleOK, EnforcingOK,
           ClosedOK
  <2>3. ClosedOK'
    BY <1>0, CancelledFacts
       DEF ReleaseHolds, WorkerHolds, ClosingHolds, HasActivity, CycleOK, EnforcingOK,
           ClosedOK
  <2> QED
    BY <2>1, <2>2, <2>3
<1> QED
  BY <1>1, <1>2, <1>3, <1>4, Parts

LEMMA EnforceReturnsInv ==
  ASSUME PoolInv, NEW a \in Agreements, EnforceReturns(a)
  PROVE  PoolInv'
<1> USE DEF EnforceReturns, Remove
<1>1. Types'
  OBVIOUS
<1>2. UsersOK'
  BY DEF UserOK, Started, Alone, LiveIsUser, AtWorkInPool, AtWork, ClosingHolds, CycleOK,
         EnforcingOK, NewHeld, ReleaseHolds, WorkerHolds
<1>3. HoldersOK'
  BY DEF UserOK, Started, LiveIsUser, AtWorkInPool, AtWork, StarterHolds, NewHeld,
         ReleaseHolds, WorkerHolds, ClosingHolds
<1>4. EndsOK'
  BY DEF NewHeld, ReleaseHolds, WorkerHolds, ClosingHolds, CycleOK, EnforcingOK, ClosedOK
<1> QED
  BY <1>1, <1>2, <1>3, <1>4, Parts

LEMMA TerminateAllInv ==
  ASSUME PoolInv, TerminateAll
  PROVE  PoolInv'
<1> USE DEF TerminateAll
<1>0. /\ lock.op = "free" /\ lock.by = NoWorker
      /\ lock'.op = "closing" /\ lock'.by = NoWorker /\ lock'.agr = NoAgreement
  BY FreeFacts, HoldsFacts, ConfirmingFacts, LockAgr
<1>1. Types'
  BY <1>0, FreeFacts, HoldsType, ConfirmingFacts, LockAgr
     DEF StarterHolds, NewHeld, LockOp, WorkerState, Closing, WorkerHolds, ClosingHolds
<1>2. UsersOK'
  BY <1>0 DEF UserOK, Started, Alone, LiveIsUser, AtWorkInPool, AtWork
<1>3. HoldersOK'
  BY <1>0
     DEF UserOK, Started, LiveIsUser, AtWorkInPool, AtWork, StarterHolds, NewHeld,
         ReleaseHolds, WorkerHolds, ClosingHolds
<1>4. EndsOK'
  BY <1>0 DEF NewHeld, ReleaseHolds, WorkerHolds, ClosingHolds, CycleOK, EnforcingOK, ClosedOK
<1> QED
  BY <1>1, <1>2, <1>3, <1>4, Parts

LEMMA TerminateReturnsInv ==
  ASSUME PoolInv, TerminateReturns
  PROVE  PoolInv'
<1> USE DEF TerminateReturns, Remove
<1>0. lock'.op = "closing" /\ lock'.by = lock.by /\ lock'.agr = NoAgreement
  OBVIOUS
<1>1. Types'
  BY <1>0, FreeFacts, HoldsType, ConfirmingFacts, LockAgr DEF ClosingHolds
<1>2. UsersOK'
  BY <1>0
     DEF UserOK, Started, Alone, LiveIsUser, AtWorkInPool, AtWork, ClosingHolds, CycleOK,
         EnforcingOK, NewHeld, ReleaseHolds, WorkerHolds
<1>3. HoldersOK'
  BY <1>0
     DEF UserOK, Started, LiveIsUser, AtWorkInPool, AtWork, StarterHolds, NewHeld,
         ReleaseHolds, WorkerHolds, ClosingHolds
<1>4. EndsOK'
  BY <1>0 DEF NewHeld, ReleaseHolds, WorkerHolds, ClosingHolds, CycleOK, EnforcingOK, ClosedOK
<1> QED
  BY <1>1, <1>2, <1>3, <1>4, Parts

LEMMA TerminateRaisesInv ==
  ASSUME PoolInv, TerminateRaises
  PROVE  PoolInv'
<1> USE DEF TerminateRaises
<1>0. lock'.op = "free" /\ lock'.by = NoWorker /\ lock'.agr = NoAgreement
  BY FreeFacts, HoldsFacts, ConfirmingFacts, LockAgr
<1>1. Types'
  BY <1>0, FreeFacts, HoldsType, ConfirmingFacts, LockAgr
     DEF StarterHolds, NewHeld, LockOp, WorkerState, Closing, WorkerHolds, ClosingHolds
<1>2. UsersOK'
  BY <1>0 DEF UserOK, Started, Alone, LiveIsUser, AtWorkInPool, AtWork
<1>3. HoldersOK'
  BY <1>0 DEF StarterHolds, NewHeld, ReleaseHolds, WorkerHolds, ClosingHolds
<1>4. EndsOK'
  BY <1>0 DEF NewHeld, ReleaseHolds, WorkerHolds, ClosingHolds, CycleOK, EnforcingOK, ClosedOK
<1> QED
  BY <1>1, <1>2, <1>3, <1>4, Parts

LEMMA AllTerminatedInv ==
  ASSUME PoolInv, AllTerminated
  PROVE  PoolInv'
<1> USE DEF AllTerminated, Closes
<1>0. lock'.op = "free" /\ lock'.by = NoWorker /\ lock'.agr = NoAgreement
  BY FreeFacts, HoldsFacts, ConfirmingFacts, LockAgr
<1>1. Types'
  BY <1>0, FreeFacts, HoldsType, ConfirmingFacts, LockAgr
     DEF StarterHolds, NewHeld, LockOp, WorkerState, Closing, WorkerHolds, ClosingHolds
<1>2. UsersOK'
  BY <1>0 DEF UserOK, Started, Alone, LiveIsUser, AtWorkInPool, AtWork
<1>3. HoldersOK'
  BY <1>0 DEF StarterHolds, NewHeld, ReleaseHolds, WorkerHolds, ClosingHolds
<1>4. EndsOK'
  BY <1>0 DEF NewHeld, ReleaseHolds, WorkerHolds, ClosingHolds, CycleOK, EnforcingOK, ClosedOK
<1> QED
  BY <1>1, <1>2, <1>3, <1>4, Parts

LEMMA TerminateNextInv ==
  ASSUME PoolInv, NEW a \in Agreements, TerminateNext(a)
  PROVE  PoolInv'
<1>a. lock.op = "closing" /\ UNCHANGED <<made, multi, closing>> /\ todo' = todo \ {a}
  BY DEF TerminateNext, closeVars
<1>0. \/ lock' = lock
      \/ lock'.op = "closing" /\ lock'.by = lock.by /\ lock'.agr = a
  <2>1. lock' = lock \/ lock' = [lock EXCEPT !.agr = a]
    BY Zenon DEF TerminateNext, Terminate
  <2> QED
    BY <1>a, <2>1, LockAgr
<1> USE <1>a DEF TerminateNext, Terminate, Closes, Remove
<1>1. Types'
  BY <1>0, CancelledFacts, FreeFacts, HoldsType, ConfirmingFacts, LockAgr DEF ClosingHolds
<1>2. UsersOK'
  BY <1>0, CancelledFacts
     DEF UserOK, Started, Alone, LiveIsUser, AtWorkInPool, AtWork, ClosingHolds, CycleOK,
         EnforcingOK, NewHeld, ReleaseHolds, WorkerHolds
<1>3. HoldersOK'
  <2>1. StarterHolds'
    BY <1>0, CancelledFacts
       DEF UserOK, Started, LiveIsUser, AtWorkInPool, AtWork, StarterHolds, NewHeld,
           ReleaseHolds, WorkerHolds, ClosingHolds
  <2>2. NewHeld'
    BY <1>0, CancelledFacts DEF NewHeld, ReleaseHolds, WorkerHolds, ClosingHolds
  <2>3. ReleaseHolds'
    BY <1>0, CancelledFacts DEF NewHeld, ReleaseHolds, WorkerHolds, ClosingHolds
  <2>4. WorkerHolds'
    BY <1>0, CancelledFacts DEF NewHeld, ReleaseHolds, WorkerHolds, ClosingHolds
  <2>5. ClosingHolds'
    <3>1. pool' \subseteq todo' \cup {lock'.agr}
      <4>1. pool \subseteq todo \cup {NoAgreement}
        BY DEF ClosingHolds
      <4>2. CASE a \notin pool
        BY <4>1, <4>2
      <4>3. CASE a \in pool /\ a \in multi
        BY <4>1, LockAgr
      <4>4. CASE a \in pool /\ a \notin multi
        BY <4>1, <4>4
      <4> QED
        BY <4>2, <4>3, <4>4
    <3>2. ASSUME ~raised, NEW w \in Workers, wstate'[w] \in {"created", "running"}
          PROVE  worksOn[w] # lock'.agr
      <4>1. wstate[w] = wstate'[w]
        BY <3>2, CancelledFacts
      <4>2. worksOn[w] \in pool /\ worksOn[w] # lock.agr
        BY <3>2, <4>1 DEF AtWork, AtWorkInPool, ClosingHolds
      <4>3. user[worksOn[w]] = w
        BY <3>2, <4>1, <4>2 DEF LiveIsUser
      <4>4. a \in pool => worksOn[w] # a
        BY <3>2, <4>1, <4>3, CancelledFacts
      <4> QED
        BY <1>0, <4>2, <4>4
    <3> QED
      BY <1>0, <3>1, <3>2 DEF ClosingHolds, AtWork
  <2> QED
    BY <2>1, <2>2, <2>3, <2>4, <2>5
<1>4. EndsOK'
  BY <1>0, CancelledFacts
     DEF ReleaseHolds, WorkerHolds, ClosingHolds, CycleOK, EnforcingOK, ClosedOK
<1> QED
  BY <1>1, <1>2, <1>3, <1>4, Parts

LEMMA CancelCompletesInv ==
  ASSUME PoolInv, NEW w \in Workers, CancelCompletes(w)
  PROVE  PoolInv'
<1>0. \/ lock' = lock /\ lock.by # w
      \/ lock'.op = "free" /\ lock'.by = NoWorker /\ lock'.agr = NoAgreement /\ lock.by = w
  <2>1. CASE lock.by = w
    BY FreeFacts DEF CancelCompletes
  <2>2. CASE lock.by # w
    BY <2>2, CancelLock
  <2> QED
    BY <2>1, <2>2
<1> USE DEF CancelCompletes
<1>1. Types'
  BY <1>0, FreeFacts, HoldsType, ConfirmingFacts, LockAgr
     DEF StarterHolds, NewHeld, LockOp, WorkerState, Closing, WorkerHolds, ClosingHolds
<1>2. UsersOK'
  BY <1>0 DEF UserOK, Started, Alone, LiveIsUser, AtWorkInPool, AtWork
<1>3. HoldersOK'
  BY <1>0
     DEF UserOK, Started, LiveIsUser, AtWorkInPool, AtWork, StarterHolds, NewHeld,
         ReleaseHolds, WorkerHolds, ClosingHolds
<1>4. EndsOK'
  BY <1>0 DEF NewHeld, ReleaseHolds, WorkerHolds, ClosingHolds, CycleOK, EnforcingOK, ClosedOK
<1> QED
  BY <1>1, <1>2, <1>3, <1>4, Parts

LEMMA WorkerReleasesInv ==
  ASSUME PoolInv, NEW w \in Workers, WorkerReleases(w)
  PROVE  PoolInv'
<1> USE DEF WorkerReleases, Release
<1>0. /\ lock.op = "free" /\ lock.by = NoWorker
      /\ \/ lock' = lock
         \/ /\ lock'.op = "releasing" /\ lock'.by = w /\ lock'.agr = worksOn[w]
            /\ lock' # Free
  BY FreeFacts, HoldsFacts, ConfirmingFacts, LockAgr
<1>1. Types'
  <2>1. PoolTypes'
    OBVIOUS
  <2>2. WorkerTypes'
    BY HoldsType DEF LockOp, WorkerState
  <2>3. StarterTypes'
    OBVIOUS
  <2>4. LockTypes'
    BY <1>0, FreeFacts, HoldsType DEF LockOp, WorkerState
  <2>5. CloseTypes'
    OBVIOUS
  <2> QED
    BY <2>1, <2>2, <2>3, <2>4, <2>5
<1>2. UsersOK'
  BY <1>0 DEF UserOK, Started, Alone, LiveIsUser, AtWorkInPool, AtWork
<1>3. HoldersOK'
  BY <1>0 DEF StarterHolds, NewHeld, ReleaseHolds, WorkerHolds, ClosingHolds
<1>4. EndsOK'
  <2>1. CycleOK'
    BY <1>0
       DEF NewHeld, ReleaseHolds, WorkerHolds, ClosingHolds, CycleOK, EnforcingOK, ClosedOK
  <2>2. EnforcingOK'
    <3>1. ~raised /\ worksOn[w] \in enforcing \cap pool => ~reuse[w] /\ user[worksOn[w]] = w
      BY <1>0 DEF EnforcingOK, LiveIsUser
    <3>2. ~raised /\ worksOn[w] \in enforcing \cap pool' =>
             lock'.op = "releasing" /\ lock'.agr = worksOn[w]
      BY <3>1, HoldsFacts
    <3> QED
      BY <1>0, <3>1, <3>2 DEF EnforcingOK, UserOK
  <2>3. ClosedOK'
    BY <1>0
       DEF NewHeld, ReleaseHolds, WorkerHolds, ClosingHolds, CycleOK, EnforcingOK, ClosedOK
  <2> QED
    BY <2>1, <2>2, <2>3
<1> QED
  BY <1>1, <1>2, <1>3, <1>4, Parts

LEMMA MovesInv ==
  ASSUME PoolInv, NEW w \in Workers, NEW from \in WorkerState, NEW to \in WorkerState,
         NEW b \in BOOLEAN, SetWorker(w, from, to, b), Moves(from, to, b, reuse[w])
  PROVE  PoolInv'
<1> USE DEF SetWorker, Moves
<1>1. Types'
  OBVIOUS
<1>2. UsersOK'
  BY DEF UserOK, Started, Alone, LiveIsUser, AtWorkInPool, AtWork
<1>3. HoldersOK'
  BY DEF UserOK, Started, LiveIsUser, AtWorkInPool, AtWork, StarterHolds, NewHeld,
         ReleaseHolds, WorkerHolds, ClosingHolds
<1>4. EndsOK'
  BY DEF NewHeld, ReleaseHolds, WorkerHolds, ClosingHolds, CycleOK, EnforcingOK, ClosedOK
<1> QED
  BY <1>1, <1>2, <1>3, <1>4, Parts

LEMMA PoolInit == Init => PoolInv
<1> SUFFICES ASSUME Init PROVE PoolInv
  OBVIOUS
<1>1. Types
  BY FreeFacts DEF Init, Closing, WorkerState
<1>2. UsersOK /\ HoldersOK /\ EndsOK
  BY FreeFacts
     DEF Init, UserOK, Started, Alone, LiveIsUser, AtWorkInPool, AtWork, StarterHolds,
         NewHeld, ReleaseHolds, WorkerHolds, ClosingHolds, CycleOK, EnforcingOK, ClosedOK
<1> QED
  BY <1>1, <1>2

LEMMA PoolNext ==
  ASSUME PoolInv, [Next]_vars
  PROVE  PoolInv'
<1>1. ASSUME NEW p \in Providers, AddProposal(p) \/ TakeOffer(p)
      PROVE  PoolInv'
  BY <1>1, AddProposalInv, TakeOfferInv
<1>2. ASSUME NEW cancelled \in BOOLEAN, Stop(cancelled)
      PROVE  PoolInv'
  BY <1>2, StopInv
<1>3. ASSUME NEW a \in Agreements,
             \/ Reuse(a) \/ FetchExisting(a) \/ AgreementCreated(a)
             \/ CycleSkips(a) \/ CycleReleases(a) \/ CycleRaises(a)
             \/ EnforceDebitNotes(a) \/ EnforceReturns(a) \/ TerminateNext(a)
      PROVE  PoolInv'
  BY <1>3, ReuseInv, FetchExistingInv, AgreementCreatedInv, CycleSkipsInv, CycleReleasesInv,
     CycleRaisesInv, EnforceDebitNotesInv, EnforceReturnsInv, TerminateNextInv
<1>4. CASE CycleStarts \/ CycleAcquires \/ CycleEnds \/ Confirm \/ NoAgreementReady
  BY <1>4, CycleStartsInv, CycleAcquiresInv, CycleEndsInv, ConfirmInv, NoAgreementReadyInv
<1>5. CASE \/ \E multiActivity \in BOOLEAN : AgreementReady(multiActivity)
           \/ ReleaseReturns \/ ReleaseRaises
  BY <1>5, AgreementReadyInv, ReleaseReturnsInv, ReleaseRaisesInv
<1>6. CASE TerminateAll \/ TerminateReturns \/ TerminateRaises \/ AllTerminated
  BY <1>6, TerminateAllInv, TerminateReturnsInv, TerminateRaisesInv, AllTerminatedInv
<1>7. ASSUME NEW w \in Workers, Worker(w)
      PROVE  PoolInv'
  <2>1. CASE WorkerReleases(w) \/ CancelCompletes(w)
    BY <2>1, WorkerReleasesInv, CancelCompletesInv
  <2>2. CASE \E from, to \in WorkerState, b \in BOOLEAN :
               SetWorker(w, from, to, b) /\ Moves(from, to, b, reuse[w])
    BY <2>2, MovesInv
  <2> QED
    BY <1>7, <2>1, <2>2, WorkerMoves DEF Worker
<1>8. CASE UNCHANGED vars
  <2>1. Types'
    BY <1>8 DEF vars
  <2>2. UsersOK' /\ HoldersOK' /\ EndsOK'
    BY <1>8
       DEF vars, UserOK, Started, Alone, LiveIsUser, AtWorkInPool, AtWork, StarterHolds,
           NewHeld, ReleaseHolds, WorkerHolds, ClosingHolds, CycleOK, EnforcingOK, ClosedOK
  <2> QED
    BY <2>1, <2>2, Parts
<1> QED
  BY <1>1, <1>2, <1>3, <1>4, <1>5, <1>6, <1>7, <1>8, Zenon
     DEF Next, Starter, Market, Enforcement, Shutdown

-----------------------------------------------------------------------------
(* Theorems of the specification *)

(* The pool, the worker tasks and the holder of _lock agree with each other  *)
(* as PoolInv says, whatever the tasks that do not take the lock do          *)
(* meanwhile.                                                                *)
THEOREM PoolInvariant == Spec => []PoolInv
  BY PoolInit, PoolNext, PTL DEF Spec

(* The variables of the pool keep their types: what the holder of _lock      *)
(* waits for is an agreement it knows, and terminate_all() has agreements    *)
(* left to do only while it holds the lock.                                  *)
THEOREM TypeCorrect == Spec => []TypeOK
<1>1. PoolInv => TypeOK
  OBVIOUS
<1> QED
  BY PoolInvariant, PTL

(* use_agreement never gives an agreement to a worker while the one it was   *)
(* given before is alive, and, as long as terminate() has not raised, the    *)
(* pool knows every worker at work as the user of its agreement.             *)
THEOREM Exclusive == Spec => []ExclusiveUse
<1>1. PoolInv => ExclusiveUse
  BY DEF ExclusiveUse, UserOK, Alone, LiveIsUser, AtWorkInPool, AtWork, WorkerHolds
<1> QED
  BY <1>1, PoolInvariant, PTL

(* After terminate_all() has returned no agreement is left in the pool and,  *)
(* unless terminate() raised, no worker goes on with its work.               *)
THEOREM Closed == Spec => []ClosedIsEmpty
<1>1. PoolInv => ClosedIsEmpty
  BY DEF ClosedIsEmpty, ClosedOK, AtWorkInPool, AtWork
<1> QED
  BY <1>1, PoolInvariant, PTL

(* Where a worker is started, its agreement is not being terminated. *)
LEMMA StartsUnused ==
  ASSUME PoolInv, [Next]_vars, ~raised,
         NEW a \in Agreements, user[a] = NoWorker, user'[a] # NoWorker
  PROVE  a \notin enforcing /\ ~(lock.op \in {"releasing", "closing"} /\ lock.agr = a)
<1>1. ASSUME NEW b \in Agreements, Reuse(b)
      PROVE  a \notin enforcing /\ lock.op = "free"
  <2>1. a = b /\ a \in pool /\ closing = "open" /\ lock.op = "free"
    BY <1>1, FreeFacts DEF Reuse, CanUse, Reusable, StartWorker
  <2> QED
    BY <2>1 DEF EnforcingOK
<1>2. ASSUME NEW multiActivity \in BOOLEAN, AgreementReady(multiActivity)
      PROVE  a \notin enforcing /\ lock.op \in {"confirming", "fetching"}
  <2>1. a = lock.agr /\ lock.op \in {"confirming", "fetching"}
    BY <1>2 DEF AgreementReady, StartWorker
  <2> QED
    BY <2>1 DEF NewHeld
<1> QED
  BY <1>1, <1>2, UserSet

(* An agreement for which terminate() is pending, called by                  *)
(* release_agreement, by terminate_all or without _lock by                   *)
(* _enforce_debit_note_intervals, is not given to another worker.            *)
THEOREM NotReused == Spec => TerminatingNotReused
<1>1. PoolInv /\ [Next]_vars =>
        [\A a \in Agreements :
           ~raised /\ user[a] = NoWorker /\ user'[a] # NoWorker =>
             a \notin enforcing /\ ~(lock.op \in {"releasing", "closing"} /\ lock.agr = a)]_vars
  BY StartsUnused
<1> QED
  BY <1>1, PoolInvariant, PTL DEF Spec, TerminatingNotReused
=============================================================================
