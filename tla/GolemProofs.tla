---------------------------- MODULE GolemProofs ----------------------------
(* Theorems about Golem, for any number of callers, jobs and consumers.      *)
(*                                                                           *)
(* That the allocation outlives the payments is a matter of the exit stack:  *)
(* _shutdown lies above the allocation, and while the invoice service runs   *)
(* either _shutdown is still on the stack or somebody executes it.  This     *)
(* needs the lock (LockOK): two callers at work on one stack could each find *)
(* it in the middle of what the other does.                                  *)
EXTENDS Golem, TLAPS

(* Where a caller works on the engine and must have the lock *)
Working == {"allocations", "storage", "unwind", "generators", "jobs", "payments", "services",
            "dispatcher"}
LockOK == \A c \in Callers : at[c] \in Working => Holds(c)

OnStack(x) == \E i \in DOMAIN stack : stack[i] = x

(* What is entered first is left last. *)
Ordered ==
  \A i, j \in DOMAIN stack : stack[i] = "allocation" /\ stack[j] = "shutdown" => i < j

StackOK ==
  /\ Ordered
  /\ OnStack("shutdown") => started
  /\ \A c \in Callers : at[c] \in {"allocations", "storage"} => ~started

(* Who is going to end the invoice service, or is ending it *)
Ending == {"storage", "generators", "jobs", "payments", "services"}

PaymentsOK ==
  invoices = "running" /\ ~odd =>
    OnStack("allocation") /\ (OnStack("shutdown") \/ \E c \in Callers : at[c] \in Ending)

(* Only a stopped dispatcher waits for queues, and what it closes is empty.  *)
ConsumersOK ==
  /\ (\A c \in Callers : at[c] # "dispatcher") => stopping = {}
  /\ \A k \in Consumers \ added : queue[k] = 0
  /\ QueuedEventsHandled

GolemInv == GolemTypeOK /\ LockOK /\ StackOK /\ PaymentsOK /\ ConsumersOK

-----------------------------------------------------------------------------
(* Sequences *)

LEMMA Appended ==
  ASSUME NEW S, NEW q \in Seq(S), NEW x \in S
  PROVE  /\ Append(q, x) \in Seq(S) /\ Append(q, x) # <<>> /\ Len(Append(q, x)) = Len(q) + 1
         /\ q # <<>> => Head(Append(q, x)) = Head(q)
         /\ q # <<>> => Tail(q) \in Seq(S)
         /\ Len(q) \in Nat /\ DOMAIN q = 1..Len(q)
         /\ DOMAIN Append(q, x) = 1..Len(q) + 1
         /\ \A i \in 1..Len(q) : Append(q, x)[i] = q[i]
         /\ Append(q, x)[Len(q) + 1] = x
  OBVIOUS

LEMMA Joined ==
  ASSUME NEW S, NEW q \in Seq(S), NEW r \in Seq(S)
  PROVE  /\ q \o r \in Seq(S) /\ DOMAIN q = 1..Len(q) /\ DOMAIN r = 1..Len(r)
         /\ Len(q) \in Nat /\ Len(r) \in Nat
         /\ DOMAIN (q \o r) = 1..Len(q) + Len(r)
         /\ \A i \in 1..Len(q) : (q \o r)[i] = q[i]
         /\ \A i \in 1..Len(r) : (q \o r)[Len(q) + i] = r[i]
         /\ \A i \in Len(q) + 1..Len(q) + Len(r) : (q \o r)[i] = r[i - Len(q)]
  OBVIOUS

LEMMA Popped ==
  ASSUME NEW S, NEW q \in Seq(S), q # <<>>
  PROVE  /\ SubSeq(q, 1, Len(q) - 1) \in Seq(S)
         /\ Len(q) \in Nat \ {0} /\ DOMAIN q = 1..Len(q)
         /\ DOMAIN SubSeq(q, 1, Len(q) - 1) = 1..Len(q) - 1
         /\ \A i \in 1..Len(q) - 1 : SubSeq(q, 1, Len(q) - 1)[i] = q[i]
  OBVIOUS

(* The exit stack grows by contexts that are entered in their order.         *)
LEMMA StackGrows ==
  ASSUME stack \in Seq(Contexts), NEW new \in Seq(Contexts), stack' = stack \o new, Ordered,
         \A i, j \in DOMAIN new : new[i] = "allocation" /\ new[j] = "shutdown" => i < j,
         OnStack("shutdown") => \A i \in DOMAIN new : new[i] # "allocation"
  PROVE  /\ stack' \in Seq(Contexts) /\ Ordered'
         /\ \A x \in Contexts : OnStack(x)' <=> OnStack(x) \/ \E i \in DOMAIN new : new[i] = x
<1> DEFINE n == Len(stack)
           more == stack \o new
<1>1. /\ more \in Seq(Contexts) /\ DOMAIN stack = 1..n /\ DOMAIN new = 1..Len(new)
      /\ n \in Nat /\ Len(new) \in Nat /\ DOMAIN more = 1..n + Len(new)
      /\ \A i \in 1..n : more[i] = stack[i]
      /\ \A i \in 1..Len(new) : more[n + i] = new[i]
      /\ \A i \in n + 1..n + Len(new) : more[i] = new[i - n]
  BY Joined
<1>2. stack' = more
  OBVIOUS
<1> HIDE DEF n, more
<1>3. \A x \in Contexts : OnStack(x)' <=> OnStack(x) \/ \E i \in DOMAIN new : new[i] = x
  <2> SUFFICES ASSUME NEW x \in Contexts
               PROVE  OnStack(x)' <=> OnStack(x) \/ \E i \in DOMAIN new : new[i] = x
    OBVIOUS
  <2>1. ASSUME NEW i \in DOMAIN more, more[i] = x
        PROVE  OnStack(x) \/ \E j \in DOMAIN new : new[j] = x
    <3>1. CASE i \in 1..n
      BY <2>1, <3>1, <1>1 DEF OnStack
    <3>2. CASE i \notin 1..n
      <4>1. i \in n + 1..n + Len(new) /\ i - n \in DOMAIN new
        BY <3>2, <1>1
      <4> QED
        BY <2>1, <4>1, <1>1
    <3> QED
      BY <3>1, <3>2
  <2>2. ASSUME NEW i \in DOMAIN stack, stack[i] = x
        PROVE  \E j \in DOMAIN more : more[j] = x
    BY <2>2, <1>1
  <2>3. ASSUME NEW i \in DOMAIN new, new[i] = x
        PROVE  \E j \in DOMAIN more : more[j] = x
    <3>1. n + i \in DOMAIN more /\ more[n + i] = x
      BY <2>3, <1>1
    <3> QED
      BY <3>1
  <2> QED
    BY <2>1, <2>2, <2>3, <1>2 DEF OnStack
<1>4. Ordered'
  <2> SUFFICES ASSUME NEW i \in DOMAIN more, NEW j \in DOMAIN more,
                      more[i] = "allocation", more[j] = "shutdown"
               PROVE  i < j
    BY <1>2 DEF Ordered
  <2>1. CASE i \in 1..n /\ j \in 1..n
    BY <2>1, <1>1 DEF Ordered
  <2>2. CASE i \in 1..n /\ j \notin 1..n
    BY <2>2, <1>1
  <2>3. CASE i \notin 1..n /\ j \in 1..n
    <3>1. i - n \in DOMAIN new /\ new[i - n] = "allocation" /\ OnStack("shutdown")
      BY <2>3, <1>1 DEF OnStack
    <3> QED
      BY <3>1
  <2>4. CASE i \notin 1..n /\ j \notin 1..n
    <3>1. /\ i - n \in DOMAIN new /\ new[i - n] = "allocation"
          /\ j - n \in DOMAIN new /\ new[j - n] = "shutdown"
      BY <2>4, <1>1
    <3> QED
      BY <3>1, <1>1
  <2> QED
    BY <2>1, <2>2, <2>3, <2>4
<1> QED
  BY <1>1, <1>2, <1>3, <1>4

LEMMA StackShrinks ==
  ASSUME stack \in Seq(Contexts), stack # <<>>, Pop, Ordered
  PROVE  /\ stack' \in Seq(Contexts) /\ Ordered'
         /\ \A x \in Contexts : OnStack(x)' => OnStack(x)
         /\ \A x \in Contexts : OnStack(x) /\ Top # x => OnStack(x)'
         /\ Top = "allocation" => ~OnStack("shutdown")
<1> DEFINE less == SubSeq(stack, 1, Len(stack) - 1)
<1>1. /\ less \in Seq(Contexts) /\ Len(stack) \in Nat \ {0} /\ DOMAIN stack = 1..Len(stack)
      /\ DOMAIN less = 1..Len(stack) - 1
      /\ \A i \in 1..Len(stack) - 1 : less[i] = stack[i]
  BY Popped
<1>2. stack' = less
  BY DEF Pop
<1> HIDE DEF less
<1>3. Ordered'
  BY <1>1, <1>2 DEF Ordered
<1>4. \A x \in Contexts : OnStack(x)' => OnStack(x)
  BY <1>1, <1>2 DEF OnStack
<1>5. \A x \in Contexts : OnStack(x) /\ Top # x => OnStack(x)'
  BY <1>1, <1>2 DEF OnStack, Top
<1>6. Top = "allocation" => ~OnStack("shutdown")
  BY <1>1 DEF Ordered, OnStack, Top
<1> QED
  BY <1>1, <1>2, <1>3, <1>4, <1>5, <1>6

-----------------------------------------------------------------------------
(* Types, in groups: what one step changes is in one or two of them *)

CallerTypes ==
  /\ at \in [Callers -> Stages] /\ lock \in Seq(Callers) /\ starts \in 0..MaxEngines
  /\ jobs \in [Jobs -> TaskStates] /\ waitFor \subseteq Jobs

FlagTypes == started \in BOOLEAN /\ awaiting \in BOOLEAN /\ raising \in BOOLEAN /\ odd \in BOOLEAN

EngineTypes == stack \in Seq(Contexts) /\ invoices \in TaskStates /\ notes \in TaskStates

DispatcherTypes ==
  /\ open \subseteq added /\ stopping \subseteq added /\ added \subseteq Consumers
  /\ queue \in [Consumers -> 0..MaxEvents]

Types == CallerTypes /\ FlagTypes /\ EngineTypes /\ DispatcherTypes

LEMMA TypesSplit == (GolemTypeOK <=> Types) /\ (GolemTypeOK' <=> Types')
  BY Zenon DEF GolemTypeOK, Types, CallerTypes, FlagTypes, EngineTypes, DispatcherTypes

(* Nobody else works on the engine. *)
LEMMA Alone ==
  ASSUME LockOK, NEW c \in Callers, Holds(c)
  PROVE  \A d \in Callers : at[d] \in Working => d = c
  BY DEF LockOK, Holds

LEMMA LockMoves ==
  ASSUME Types, LockOK, NEW c \in Callers, NEW stage \in Stages, Go(c, stage),
         \/ lock' = lock /\ (Holds(c) \/ at[c] \in Working \/ stage \notin Working)
         \/ lock' = Append(lock, c) /\ stage \notin Working
         \/ /\ Holds(c) /\ stage \notin Working
            /\ lock' = Tail(lock) \/ lock' = Append(Tail(lock), c)
  PROVE  /\ at' \in [Callers -> Stages] /\ lock' \in Seq(Callers) /\ LockOK'
         /\ at'[c] = stage /\ \A d \in Callers : d # c => at'[d] = at[d]
<1>1. /\ at' \in [Callers -> Stages] /\ lock \in Seq(Callers) /\ at'[c] = stage
      /\ \A d \in Callers : d # c => at'[d] = at[d]
  BY DEF Types, CallerTypes, Go
<1>2. CASE lock' = lock /\ (Holds(c) \/ at[c] \in Working \/ stage \notin Working)
  <2>1. ASSUME NEW d \in Callers, at'[d] \in Working
        PROVE  Holds(d)
    <3>1. CASE d = c
      BY <1>1, <1>2, <2>1, <3>1 DEF LockOK
    <3>2. CASE d # c
      BY <1>1, <2>1, <3>2 DEF LockOK
    <3> QED
      BY <3>1, <3>2
  <2> QED
    BY <1>1, <1>2, <2>1 DEF LockOK, Holds
<1>3. CASE lock' = Append(lock, c) /\ stage \notin Working
  <2>1. /\ lock' \in Seq(Callers) /\ lock' # <<>>
        /\ lock # <<>> => Head(lock') = Head(lock)
    BY <1>1, <1>3, Appended
  <2>2. ASSUME NEW d \in Callers, at'[d] \in Working
        PROVE  Holds(d)
    BY <1>1, <1>3, <2>2 DEF LockOK
  <2> QED
    BY <1>1, <2>1, <2>2 DEF LockOK, Holds
<1>4. CASE /\ Holds(c) /\ stage \notin Working
           /\ lock' = Tail(lock) \/ lock' = Append(Tail(lock), c)
  <2>1. lock' \in Seq(Callers)
    <3>1. Tail(lock) \in Seq(Callers)
      BY <1>1, <1>4, Appended DEF Holds
    <3> QED
      BY <1>4, <3>1, Appended
  <2>2. \A d \in Callers : at'[d] \notin Working
    BY <1>1, <1>4, Alone
  <2> QED
    BY <1>1, <2>1, <2>2 DEF LockOK
<1> QED
  BY <1>2, <1>3, <1>4

LEMMA EmitTypes ==
  ASSUME Types, Emitted, QueuesLeft
  PROVE  queue' \in [Consumers -> 0..MaxEvents]
  BY GolemBoundsAssumption DEF Types, DispatcherTypes, Emitted, QueuesLeft

(* What a caller does to the dispatcher's queues *)
LEMMA EmitKeeps ==
  ASSUME Types, ConsumersOK, CanEmit, QueuesLeft, Emitted, UNCHANGED <<added, open, stopping>>,
         \A c \in Callers : at[c] = "dispatcher" => at'[c] = "dispatcher"
  PROVE  DispatcherTypes' /\ ConsumersOK'
<1>1. queue' \in [Consumers -> 0..MaxEvents]
  BY EmitTypes
<1>2. \A k \in Consumers : k \notin open => queue'[k] = queue[k]
  BY DEF CanEmit, Emitted
<1> QED
  BY <1>1, <1>2 DEF Types, DispatcherTypes, ConsumersOK, QueuedEventsHandled

-----------------------------------------------------------------------------
(* The steps *)

LEMMA CallStartKeeps ==
  ASSUME GolemInv, NEW c \in Callers, CallStart(c)
  PROVE  GolemInv'
<1>1. Types
  BY TypesSplit DEF GolemInv
<1>2. /\ at' \in [Callers -> Stages] /\ lock' \in Seq(Callers) /\ LockOK'
      /\ \A d \in Callers : d # c => at'[d] = at[d]
      /\ at'[c] = "start"
      /\ at[c] = "idle"
  BY <1>1, LockMoves
     DEF GolemInv, CallStart, Acquire, engineVars, jobVars, dispatcherVars, Stages, Working
<1>3. Types'
  BY <1>1, <1>2, GolemBoundsAssumption
     DEF CallStart, Acquire, engineVars, jobVars, dispatcherVars, TaskStates, Types,
         CallerTypes, FlagTypes, EngineTypes, DispatcherTypes
<1>4. StackOK'
  BY <1>2
     DEF GolemInv, CallStart, Acquire, engineVars, jobVars, dispatcherVars, StackOK, Ordered,
         OnStack
<1>5. PaymentsOK'
  BY <1>2
     DEF GolemInv, CallStart, Acquire, engineVars, jobVars, dispatcherVars, PaymentsOK,
         OnStack, Ending
<1>6. ConsumersOK'
  BY <1>2
     DEF GolemInv, CallStart, Acquire, engineVars, jobVars, dispatcherVars, ConsumersOK,
         QueuedEventsHandled
<1> QED
  BY <1>2, <1>3, <1>4, <1>5, <1>6, TypesSplit DEF GolemInv

LEMMA CallStopKeeps ==
  ASSUME GolemInv, NEW c \in Callers, CallStop(c)
  PROVE  GolemInv'
<1>1. Types
  BY TypesSplit DEF GolemInv
<1>2. /\ at' \in [Callers -> Stages] /\ lock' \in Seq(Callers) /\ LockOK'
      /\ \A d \in Callers : d # c => at'[d] = at[d]
      /\ at'[c] = "stop"
      /\ at[c] = "idle"
  BY <1>1, LockMoves
     DEF GolemInv, CallStop, Acquire, engineVars, jobVars, dispatcherVars, Stages, Working
<1>3. Types'
  BY <1>1, <1>2
     DEF CallStop, Acquire, engineVars, jobVars, dispatcherVars, Types, CallerTypes,
         FlagTypes, EngineTypes, DispatcherTypes
<1>4. StackOK'
  BY <1>2
     DEF GolemInv, CallStop, Acquire, engineVars, jobVars, dispatcherVars, StackOK, Ordered,
         OnStack
<1>5. PaymentsOK'
  BY <1>2
     DEF GolemInv, CallStop, Acquire, engineVars, jobVars, dispatcherVars, PaymentsOK,
         OnStack, Ending
<1>6. ConsumersOK'
  BY <1>2
     DEF GolemInv, CallStop, Acquire, engineVars, jobVars, dispatcherVars, ConsumersOK,
         QueuedEventsHandled
<1> QED
  BY <1>2, <1>3, <1>4, <1>5, <1>6, TypesSplit DEF GolemInv

LEMMA AlreadyOperativeKeeps ==
  ASSUME GolemInv, NEW c \in Callers, AlreadyOperative(c)
  PROVE  GolemInv'
<1>1. Types
  BY TypesSplit DEF GolemInv
<1>2. /\ at' \in [Callers -> Stages] /\ lock' \in Seq(Callers) /\ LockOK'
      /\ \A d \in Callers : d # c => at'[d] = at[d]
      /\ at'[c] = "idle"
      /\ at[c] = "start"
  BY <1>1, LockMoves
     DEF GolemInv, AlreadyOperative, ReleaseLock, engineVars, jobVars, dispatcherVars, Stages,
         Working
<1>3. Types'
  BY <1>1, <1>2
     DEF AlreadyOperative, ReleaseLock, engineVars, jobVars, dispatcherVars, Types,
         CallerTypes, FlagTypes, EngineTypes, DispatcherTypes
<1>4. StackOK'
  BY <1>2
     DEF GolemInv, AlreadyOperative, ReleaseLock, engineVars, jobVars, dispatcherVars,
         StackOK, Ordered, OnStack
<1>5. PaymentsOK'
  BY <1>2
     DEF GolemInv, AlreadyOperative, ReleaseLock, engineVars, jobVars, dispatcherVars,
         PaymentsOK, OnStack, Ending
<1>6. ConsumersOK'
  BY <1>2
     DEF GolemInv, AlreadyOperative, ReleaseLock, engineVars, jobVars, dispatcherVars,
         ConsumersOK, QueuedEventsHandled
<1> QED
  BY <1>2, <1>3, <1>4, <1>5, <1>6, TypesSplit DEF GolemInv

LEMMA CloseGeneratorsKeeps ==
  ASSUME GolemInv, NEW c \in Callers, CloseGenerators(c)
  PROVE  GolemInv'
<1>1. Types
  BY TypesSplit DEF GolemInv
<1>2. /\ at' \in [Callers -> Stages] /\ lock' \in Seq(Callers) /\ LockOK'
      /\ \A d \in Callers : d # c => at'[d] = at[d]
      /\ at'[c] = "jobs" \/ at'[c] = "unwind"
      /\ at[c] = "generators" /\ (odd' \/ at'[c] = "jobs")
  BY <1>1, LockMoves
     DEF GolemInv, CloseGenerators, engineVars, jobVars, dispatcherVars, Stages, Working
<1>3. Types'
  BY <1>1, <1>2
     DEF CloseGenerators, engineVars, jobVars, dispatcherVars, Types, CallerTypes, FlagTypes,
         EngineTypes, DispatcherTypes
<1>4. StackOK'
  BY <1>2
     DEF GolemInv, CloseGenerators, engineVars, jobVars, dispatcherVars, StackOK, Ordered,
         OnStack
<1>5. PaymentsOK'
  <2>1. \A d \in Callers : at[d] \in Ending => odd' \/ at'[d] \in Ending
    BY <1>2 DEF Ending
  <2>2. odd => odd'
    BY <1>1 DEF CloseGenerators, engineVars, jobVars, dispatcherVars, Types, FlagTypes
  <2> QED
    BY <1>2, <2>1, <2>2
       DEF GolemInv, CloseGenerators, engineVars, jobVars, dispatcherVars, PaymentsOK, OnStack
<1>6. ConsumersOK'
  BY <1>2
     DEF GolemInv, CloseGenerators, engineVars, jobVars, dispatcherVars, ConsumersOK,
         QueuedEventsHandled
<1> QED
  BY <1>2, <1>3, <1>4, <1>5, <1>6, TypesSplit DEF GolemInv

LEMMA JobsFinishedKeeps ==
  ASSUME GolemInv, NEW c \in Callers, JobsFinished(c)
  PROVE  GolemInv'
<1>1. Types
  BY TypesSplit DEF GolemInv
<1>2. /\ at' \in [Callers -> Stages] /\ lock' \in Seq(Callers) /\ LockOK'
      /\ \A d \in Callers : d # c => at'[d] = at[d]
      /\ at'[c] = "payments" \/ at'[c] = "services"
      /\ at[c] = "jobs"
  BY <1>1, LockMoves
     DEF GolemInv, JobsFinished, engineVars, jobVars, dispatcherVars, Stages, Working
<1>3. Types'
  BY <1>1, <1>2
     DEF JobsFinished, engineVars, jobVars, dispatcherVars, TaskStates, Types, CallerTypes,
         FlagTypes, EngineTypes, DispatcherTypes
<1>4. StackOK'
  BY <1>2
     DEF GolemInv, JobsFinished, engineVars, jobVars, dispatcherVars, StackOK, Ordered,
         OnStack
<1>5. PaymentsOK'
  BY <1>2
     DEF GolemInv, JobsFinished, engineVars, jobVars, dispatcherVars, PaymentsOK, OnStack,
         Ending
<1>6. ConsumersOK'
  BY <1>2
     DEF GolemInv, JobsFinished, engineVars, jobVars, dispatcherVars, ConsumersOK,
         QueuedEventsHandled
<1> QED
  BY <1>2, <1>3, <1>4, <1>5, <1>6, TypesSplit DEF GolemInv

LEMMA PaymentsAwaitedKeeps ==
  ASSUME GolemInv, NEW c \in Callers, PaymentsAwaited(c)
  PROVE  GolemInv'
<1>1. Types
  BY TypesSplit DEF GolemInv
<1>2. /\ at' \in [Callers -> Stages] /\ lock' \in Seq(Callers) /\ LockOK'
      /\ \A d \in Callers : d # c => at'[d] = at[d]
      /\ at'[c] = "services" \/ at'[c] = "unwind"
      /\ at[c] = "payments"
  BY <1>1, LockMoves
     DEF GolemInv, PaymentsAwaited, engineVars, jobVars, dispatcherVars, Stages, Working
<1>3. Types'
  BY <1>1, <1>2
     DEF PaymentsAwaited, engineVars, jobVars, dispatcherVars, TaskStates, Types, CallerTypes,
         FlagTypes, EngineTypes, DispatcherTypes
<1>4. StackOK'
  BY <1>2
     DEF GolemInv, PaymentsAwaited, engineVars, jobVars, dispatcherVars, StackOK, Ordered,
         OnStack
<1>5. PaymentsOK'
  BY <1>2
     DEF GolemInv, PaymentsAwaited, engineVars, jobVars, dispatcherVars, PaymentsOK, OnStack,
         Ending
<1>6. ConsumersOK'
  BY <1>2
     DEF GolemInv, PaymentsAwaited, engineVars, jobVars, dispatcherVars, ConsumersOK,
         QueuedEventsHandled
<1> QED
  BY <1>2, <1>3, <1>4, <1>5, <1>6, TypesSplit DEF GolemInv

LEMMA ServicesDoneKeeps ==
  ASSUME GolemInv, NEW c \in Callers, ServicesDone(c)
  PROVE  GolemInv'
<1>1. Types
  BY TypesSplit DEF GolemInv
<1>2. /\ at' \in [Callers -> Stages] /\ lock' \in Seq(Callers) /\ LockOK'
      /\ \A d \in Callers : d # c => at'[d] = at[d]
      /\ at'[c] = "unwind"
      /\ at[c] = "services"
  BY <1>1, LockMoves
     DEF GolemInv, ServicesDone, ServicesEnded, engineVars, jobVars, dispatcherVars, Stages,
         Working
<1>3. Types'
  BY <1>1, <1>2
     DEF ServicesDone, ServicesEnded, engineVars, jobVars, dispatcherVars, Types, CallerTypes,
         FlagTypes, EngineTypes, DispatcherTypes
<1>4. StackOK'
  BY <1>2
     DEF GolemInv, ServicesDone, ServicesEnded, engineVars, jobVars, dispatcherVars, StackOK,
         Ordered, OnStack
<1>5. PaymentsOK'
  BY <1>2
     DEF GolemInv, ServicesDone, ServicesEnded, engineVars, jobVars, dispatcherVars,
         PaymentsOK, OnStack, Ending
<1>6. ConsumersOK'
  BY <1>2
     DEF GolemInv, ServicesDone, ServicesEnded, engineVars, jobVars, dispatcherVars,
         ConsumersOK, QueuedEventsHandled
<1> QED
  BY <1>2, <1>3, <1>4, <1>5, <1>6, TypesSplit DEF GolemInv

LEMMA EnterClientsKeeps ==
  ASSUME GolemInv, NEW c \in Callers, EnterClients(c)
  PROVE  GolemInv'
<1>1. Types
  BY TypesSplit DEF GolemInv
<1>2. /\ at' \in [Callers -> Stages] /\ lock' \in Seq(Callers) /\ LockOK'
      /\ \A d \in Callers : d # c => at'[d] = at[d]
      /\ at'[c] = "allocations" \/ at'[c] = "failed"
      /\ at[c] = "start" /\ ~started
  BY <1>1, LockMoves
     DEF GolemInv, EnterClients, StartFails, StartConsumers, engineVars, jobVars,
         dispatcherVars, Stages, Working
<1>7. PICK new \in Seq(Contexts) : /\ stack' = stack \o new
                                   /\ \A i \in DOMAIN new : new[i] \in {"report", "clients"}
  <2>1. /\ <<"report">> \in Seq(Contexts) /\ <<"report", "clients">> \in Seq(Contexts)
        /\ \A i \in DOMAIN <<"report">> : <<"report">>[i] \in {"report", "clients"}
        /\ \A i \in DOMAIN <<"report", "clients">> :
             <<"report", "clients">>[i] \in {"report", "clients"}
    BY DEF Contexts
  <2> QED
    BY <2>1 DEF EnterClients
<1>8. /\ stack' \in Seq(Contexts) /\ Ordered'
      /\ OnStack("allocation")' <=> OnStack("allocation")
      /\ OnStack("shutdown")' <=> OnStack("shutdown")
  <2>1. \A i \in DOMAIN new : new[i] # "allocation" /\ new[i] # "shutdown"
    BY <1>7
  <2>2. "allocation" \in Contexts /\ "shutdown" \in Contexts
    BY DEF Contexts
  <2> QED
    BY <1>1, <1>7, <2>1, <2>2, StackGrows DEF GolemInv, StackOK, Types, EngineTypes
<1>3. Types'
  BY <1>1, <1>2, <1>8
     DEF EnterClients, StartFails, StartConsumers, engineVars, jobVars, dispatcherVars, Types,
         CallerTypes, FlagTypes, EngineTypes, DispatcherTypes
<1>4. StackOK'
  BY <1>2, <1>8
     DEF GolemInv, EnterClients, StartFails, StartConsumers, engineVars, jobVars,
         dispatcherVars, StackOK
<1>5. PaymentsOK'
  <2>1. \A d \in Callers : at[d] \in Ending => at'[d] \in Ending
    BY <1>2 DEF Ending
  <2>2. odd => odd'
    BY <1>1
       DEF EnterClients, StartFails, StartConsumers, engineVars, jobVars, dispatcherVars,
           Types, FlagTypes
  <2> QED
    BY <1>2, <1>8, <2>1, <2>2
       DEF GolemInv, EnterClients, StartFails, StartConsumers, engineVars, jobVars,
           dispatcherVars, PaymentsOK
<1>6. ConsumersOK'
  BY <1>2
     DEF GolemInv, EnterClients, StartFails, StartConsumers, engineVars, jobVars,
         dispatcherVars, ConsumersOK, QueuedEventsHandled
<1> QED
  BY <1>2, <1>3, <1>4, <1>5, <1>6, TypesSplit DEF GolemInv

LEMMA EnterAllocationsKeeps ==
  ASSUME GolemInv, NEW c \in Callers, EnterAllocations(c)
  PROVE  GolemInv'
<1>1. Types
  BY TypesSplit DEF GolemInv
<1>2. /\ at' \in [Callers -> Stages] /\ lock' \in Seq(Callers) /\ LockOK'
      /\ \A d \in Callers : d # c => at'[d] = at[d]
      /\ at'[c] = "storage" \/ at'[c] = "failed"
      /\ at[c] = "allocations" /\ ~started /\ (odd' \/ at'[c] = "storage")
  <2>1. at[c] = "allocations" /\ Holds(c) /\ ~started /\ "failed" \in Stages \ Working
    BY DEF GolemInv, StackOK, EnterAllocations, StartFails, engineVars, jobVars,
           dispatcherVars, Stages, Working
  <2>2. CASE Go(c, "storage") /\ UNCHANGED <<lock, odd>>
    BY <1>1, <2>1, <2>2, LockMoves DEF GolemInv, Stages
  <2>3. CASE StartFails(c)
    <3>1. Go(c, "failed") /\ lock' = Append(Tail(lock), c) /\ odd' = TRUE
      BY <2>3 DEF StartFails
    <3> QED
      BY <1>1, <2>1, <3>1, LockMoves DEF GolemInv
  <2> QED
    BY <2>2, <2>3 DEF EnterAllocations
<1>7. ~OnStack("shutdown")
  BY <1>2 DEF GolemInv, StackOK
<1>8. /\ Allocated \in Seq(Contexts) /\ \A i \in DOMAIN Allocated : Allocated[i] = "allocation"
      /\ OnStack("allocation") \/ \E i \in DOMAIN Allocated : Allocated[i] = "allocation"
  <2>1. /\ <<"allocation">> \in Seq(Contexts) /\ DOMAIN <<"allocation">> = {1}
        /\ <<"allocation">>[1] = "allocation" /\ <<>> \in Seq(Contexts) /\ DOMAIN <<>> = {}
    BY DEF Contexts
  <2> QED
    BY <2>1 DEF Allocated, OnStack
<1>9. /\ stack' \in Seq(Contexts) /\ Ordered' /\ ~OnStack("shutdown")'
      /\ OnStack("allocation") => OnStack("allocation")'
      /\ at'[c] = "storage" => OnStack("allocation")'
  <2>1. CASE stack' = stack \o Allocated
    <3>1. "allocation" \in Contexts /\ "shutdown" \in Contexts
      BY DEF Contexts
    <3> QED
      BY <1>1, <1>7, <1>8, <2>1, <3>1, StackGrows DEF GolemInv, StackOK, Types, EngineTypes
  <2>2. CASE stack' = stack /\ at'[c] # "storage"
    BY <1>1, <1>7, <2>2 DEF GolemInv, StackOK, Ordered, OnStack, Types, EngineTypes
  <2> QED
    BY <1>2, <2>1, <2>2 DEF EnterAllocations, StartFails, Go, Types, CallerTypes
<1>3. Types'
  BY <1>1, <1>2, <1>9
     DEF EnterAllocations, StartFails, engineVars, jobVars, dispatcherVars, TaskStates, Types,
         CallerTypes, FlagTypes, EngineTypes, DispatcherTypes
<1>4. StackOK'
  BY <1>2, <1>9
     DEF GolemInv, EnterAllocations, StartFails, engineVars, jobVars, dispatcherVars, StackOK
<1>5. PaymentsOK'
  BY <1>2, <1>9 DEF PaymentsOK, Ending
<1>6. ConsumersOK'
  BY <1>2
     DEF GolemInv, EnterAllocations, StartFails, engineVars, jobVars, dispatcherVars,
         ConsumersOK, QueuedEventsHandled
<1> QED
  BY <1>2, <1>3, <1>4, <1>5, <1>6, TypesSplit DEF GolemInv

LEMMA EnterStorageKeeps ==
  ASSUME GolemInv, NEW c \in Callers, EnterStorage(c)
  PROVE  GolemInv'
<1>1. Types
  BY TypesSplit DEF GolemInv
<1>2. /\ at' \in [Callers -> Stages] /\ lock' \in Seq(Callers) /\ LockOK'
      /\ \A d \in Callers : d # c => at'[d] = at[d]
      /\ at'[c] = "idle" \/ at'[c] = "failed"
      /\ at[c] = "storage" /\ ~started
      /\ odd' \/ (at'[c] = "idle" /\ stack' = stack \o <<"storage", "shutdown">> /\ started')
  <2>1. at[c] = "storage" /\ Holds(c) /\ ~started /\ "failed" \in Stages \ Working
    BY DEF GolemInv, StackOK, EnterStorage, StartFails, engineVars, jobVars, dispatcherVars,
           Stages, Working
  <2>2. CASE /\ Go(c, "idle") /\ ReleaseLock /\ UNCHANGED odd
             /\ stack' = stack \o <<"storage", "shutdown">> /\ started' = TRUE
    BY <1>1, <2>1, <2>2, LockMoves DEF GolemInv, ReleaseLock, Stages, Working
  <2>3. CASE StartFails(c)
    <3>1. Go(c, "failed") /\ lock' = Append(Tail(lock), c) /\ odd' = TRUE
      BY <2>3 DEF StartFails
    <3> QED
      BY <1>1, <2>1, <3>1, LockMoves DEF GolemInv
  <2> QED
    BY <2>2, <2>3 DEF EnterStorage
<1>7. /\ stack' \in Seq(Contexts) /\ Ordered'
      /\ OnStack("allocation") => OnStack("allocation")'
      /\ OnStack("shutdown")' => started'
      /\ odd' \/ OnStack("shutdown")'
  <2>1. CASE stack' = stack \o <<"storage", "shutdown">> /\ started'
    <3>1. /\ <<"storage", "shutdown">> \in Seq(Contexts)
          /\ DOMAIN <<"storage", "shutdown">> = {1, 2}
          /\ <<"storage", "shutdown">>[1] = "storage" /\ <<"storage", "shutdown">>[2] = "shutdown"
          /\ "allocation" \in Contexts /\ "shutdown" \in Contexts
      BY DEF Contexts
    <3> DEFINE new == <<"storage", "shutdown">>
    <3>2. stack' = stack \o new /\ new \in Seq(Contexts) /\ DOMAIN new = {1, 2}
          /\ new[1] = "storage" /\ new[2] = "shutdown"
      BY <2>1, <3>1
    <3> HIDE DEF new
    <3>3. \A i \in DOMAIN new : new[i] # "allocation"
      BY <3>2
    <3>4. \E i \in DOMAIN new : new[i] = "shutdown"
      BY <3>2
    <3> QED
      BY <1>1, <2>1, <3>1, <3>2, <3>3, <3>4, StackGrows
         DEF GolemInv, StackOK, Types, EngineTypes
  <2>2. CASE UNCHANGED <<stack, started>> /\ odd'
    BY <1>1, <2>2 DEF GolemInv, StackOK, Ordered, OnStack, Types, EngineTypes
  <2> QED
    BY <2>1, <2>2 DEF EnterStorage, StartFails
<1>3. Types'
  BY <1>1, <1>2, <1>7
     DEF EnterStorage, StartFails, engineVars, jobVars, dispatcherVars, Types, CallerTypes,
         FlagTypes, EngineTypes, DispatcherTypes
<1>4. StackOK'
  <2>1. \A d \in Callers : at'[d] \in {"allocations", "storage"} => d # c /\ at[d] \in Working
    BY <1>2 DEF Working
  <2>2. Holds(c)
    BY DEF EnterStorage
  <2>3. \A d \in Callers : at'[d] \notin {"allocations", "storage"}
    BY <2>1, <2>2, Alone DEF GolemInv
  <2> QED
    BY <1>7, <2>3 DEF StackOK
<1>5. PaymentsOK'
  <2>1. invoices' = invoices /\ (odd => odd')
    BY <1>1 DEF EnterStorage, StartFails
  <2> QED
    BY <1>7, <2>1 DEF GolemInv, PaymentsOK
<1>6. ConsumersOK'
  BY <1>2
     DEF GolemInv, EnterStorage, StartFails, engineVars, jobVars, dispatcherVars, ConsumersOK,
         QueuedEventsHandled
<1> QED
  BY <1>2, <1>3, <1>4, <1>5, <1>6, TypesSplit DEF GolemInv

LEMMA StopBeginsKeeps ==
  ASSUME GolemInv, NEW c \in Callers, StopBegins(c)
  PROVE  GolemInv'
<1>1. Types
  BY TypesSplit DEF GolemInv
<1>2. /\ at' \in [Callers -> Stages] /\ lock' \in Seq(Callers) /\ LockOK'
      /\ \A d \in Callers : d # c => at'[d] = at[d]
      /\ at'[c] = "unwind" \/ at'[c] = "idle"
      /\ at[c] = "stop" \/ at[c] = "failed"
  <2>1. Holds(c) /\ at[c] \in {"stop", "failed"}
    BY DEF StopBegins
  <2>2. CASE Go(c, "unwind") /\ lock' = lock
    BY <1>1, <2>1, <2>2, LockMoves DEF GolemInv, Stages
  <2>3. CASE Go(c, "idle") /\ ReleaseLock
    BY <1>1, <2>1, <2>3, LockMoves DEF GolemInv, ReleaseLock, Stages, Working
  <2> QED
    BY <2>1, <2>2, <2>3 DEF StopBegins
<1>7. DispatcherTypes' /\ ConsumersOK'
  <2>1. \A d \in Callers : at[d] = "dispatcher" => at'[d] = "dispatcher"
    BY <1>2
  <2>2. CASE CanEmit /\ QueuesLeft /\ Emitted
    BY <1>1, <2>1, <2>2, EmitKeeps DEF GolemInv, StopBegins
  <2>3. CASE UNCHANGED queue
    BY <1>1, <2>1, <2>3
       DEF GolemInv, StopBegins, Types, DispatcherTypes, ConsumersOK, QueuedEventsHandled
  <2> QED
    BY <2>2, <2>3 DEF StopBegins
<1>3. Types'
  BY <1>1, <1>2, <1>7
     DEF StopBegins, engineVars, jobVars, dispatcherVars, Types, CallerTypes, FlagTypes,
         EngineTypes, DispatcherTypes
<1>4. StackOK'
  BY <1>2
     DEF GolemInv, StopBegins, engineVars, jobVars, dispatcherVars, StackOK, Ordered, OnStack
<1>5. PaymentsOK'
  BY <1>2
     DEF GolemInv, StopBegins, engineVars, jobVars, dispatcherVars, PaymentsOK, OnStack,
         Ending
<1>6. ConsumersOK'
  BY <1>7
<1> QED
  BY <1>2, <1>3, <1>4, <1>5, <1>6, TypesSplit DEF GolemInv

LEMMA EnterShutdownKeeps ==
  ASSUME GolemInv, NEW c \in Callers, EnterShutdown(c)
  PROVE  GolemInv'
<1>1. Types
  BY TypesSplit DEF GolemInv
<1>2. /\ at' \in [Callers -> Stages] /\ lock' \in Seq(Callers) /\ LockOK'
      /\ \A d \in Callers : d # c => at'[d] = at[d]
      /\ at'[c] = "generators"
      /\ at[c] = "unwind"
  BY <1>1, LockMoves
     DEF GolemInv, EnterShutdown, engineVars, jobVars, dispatcherVars, Stages, Working
<1>7. /\ stack' \in Seq(Contexts) /\ Ordered'
      /\ OnStack("shutdown")' => OnStack("shutdown")
      /\ OnStack("allocation") => OnStack("allocation")'
  <2>1. "allocation" \in Contexts /\ "shutdown" \in Contexts
    BY DEF Contexts
  <2> QED
    BY <1>1, <2>1, StackShrinks DEF GolemInv, StackOK, EnterShutdown, Types, EngineTypes
<1>3. Types'
  BY <1>1, <1>2, <1>7
     DEF EnterShutdown, engineVars, jobVars, dispatcherVars, Types, CallerTypes, FlagTypes,
         EngineTypes, DispatcherTypes
<1>4. StackOK'
  BY <1>2, <1>7 DEF GolemInv, EnterShutdown, engineVars, jobVars, dispatcherVars, StackOK
<1>5. PaymentsOK'
  BY <1>2, <1>7
     DEF GolemInv, EnterShutdown, engineVars, jobVars, dispatcherVars, PaymentsOK, Ending
<1>6. ConsumersOK'
  BY <1>2
     DEF GolemInv, EnterShutdown, engineVars, jobVars, dispatcherVars, ConsumersOK,
         QueuedEventsHandled
<1> QED
  BY <1>2, <1>3, <1>4, <1>5, <1>6, TypesSplit DEF GolemInv

LEMMA UnwindKeeps ==
  ASSUME GolemInv, NEW c \in Callers, Unwind(c)
  PROVE  GolemInv'
<1>1. Types
  BY TypesSplit DEF GolemInv
<1>2. Holds(c) /\ UNCHANGED <<at, lock>>
  BY DEF GolemInv, LockOK, Unwind, Working
<1>7. /\ stack' \in Seq(Contexts) /\ Ordered'
      /\ OnStack("shutdown")' <=> OnStack("shutdown")
      /\ OnStack("allocation") /\ OnStack("shutdown") => OnStack("allocation")'
  <2>1. "allocation" \in Contexts /\ "shutdown" \in Contexts
    BY DEF Contexts
  <2> QED
    BY <1>1, <2>1, StackShrinks DEF GolemInv, StackOK, Unwind, Types, EngineTypes
<1>8. \A d \in Callers : at[d] \notin Ending
  <2>1. \A d \in Callers : at[d] \in Ending => d = c
    BY <1>2, Alone DEF GolemInv, Ending, Working
  <2> QED
    BY <2>1 DEF Unwind, Ending
<1>9. DispatcherTypes' /\ ConsumersOK'
  <2>1. CASE CanEmit /\ QueuesLeft /\ Emitted
    BY <1>1, <1>2, <2>1, EmitKeeps DEF GolemInv, Unwind
  <2>2. CASE UNCHANGED queue
    BY <1>1, <1>2, <2>2
       DEF GolemInv, Unwind, Types, DispatcherTypes, ConsumersOK, QueuedEventsHandled
  <2> QED
    BY <2>1, <2>2 DEF Unwind
<1>3. Types'
  <2>1. raising' \in BOOLEAN
    BY <1>1 DEF Unwind, Types, FlagTypes
  <2> QED
    BY <1>1, <1>2, <1>7, <1>9, <2>1
       DEF Unwind, engineVars, jobVars, dispatcherVars, Types, CallerTypes, FlagTypes,
           EngineTypes, DispatcherTypes
<1>4. StackOK'
  BY <1>2, <1>7 DEF GolemInv, Unwind, engineVars, jobVars, dispatcherVars, StackOK
<1>5. PaymentsOK'
  BY <1>2, <1>7, <1>8 DEF GolemInv, Unwind, engineVars, jobVars, dispatcherVars, PaymentsOK
<1>6. ConsumersOK'
  BY <1>9
<1> QED
  BY <1>2, <1>3, <1>4, <1>5, <1>6, TypesSplit DEF GolemInv, LockOK, Holds

LEMMA StackEmptyKeeps ==
  ASSUME GolemInv, NEW c \in Callers, StackEmpty(c)
  PROVE  GolemInv'
<1>1. Types
  BY TypesSplit DEF GolemInv
<1>2. /\ at' \in [Callers -> Stages] /\ lock' \in Seq(Callers) /\ LockOK'
      /\ \A d \in Callers : d # c => at'[d] = at[d]
      /\ at[c] = "unwind" /\ Holds(c)
      /\ \/ at'[c] = "idle" /\ UNCHANGED <<open, stopping>> /\ odd'
         \/ at'[c] = "dispatcher" /\ stopping' = open /\ open' = {} /\ UNCHANGED odd
  <2>1. Holds(c) /\ at[c] = "unwind"
    BY DEF StackEmpty, GolemInv, LockOK, Working
  <2>2. CASE /\ Go(c, "dispatcher") /\ stopping' = open /\ open' = {} /\ UNCHANGED <<lock, odd>>
    BY <1>1, <2>1, <2>2, LockMoves DEF GolemInv, Stages
  <2>3. CASE /\ Go(c, "idle") /\ ReleaseLock /\ odd' = TRUE /\ UNCHANGED <<open, stopping>>
    BY <1>1, <2>1, <2>3, LockMoves DEF GolemInv, ReleaseLock, Stages, Working
  <2> QED
    BY <2>2, <2>3 DEF StackEmpty
<1>7. stopping = {}
  <2>1. \A d \in Callers : at[d] = "dispatcher" => d = c
    BY <1>2, Alone DEF GolemInv, Working
  <2> QED
    BY <1>2, <2>1 DEF GolemInv, ConsumersOK
<1>8. \A d \in Callers : d # c => at[d] \notin Working
  BY <1>2, Alone DEF GolemInv
<1>3. Types'
  BY <1>1, <1>2
     DEF StackEmpty, engineVars, jobVars, dispatcherVars, Types, CallerTypes, FlagTypes,
         EngineTypes, DispatcherTypes
<1>4. StackOK'
  BY <1>2
     DEF GolemInv, StackEmpty, engineVars, jobVars, dispatcherVars, StackOK, Ordered, OnStack
<1>5. PaymentsOK'
  <2>1. OnStack("shutdown") => FALSE
    BY DEF StackEmpty, OnStack
  <2>2. \A d \in Callers : at[d] \notin Ending
    BY <1>2, <1>8 DEF Ending, Working
  <2>3. ~(invoices = "running" /\ ~odd)
    BY <2>1, <2>2 DEF GolemInv, PaymentsOK
  <2>4. invoices' = invoices /\ (odd => odd')
    BY <1>2 DEF StackEmpty
  <2> QED
    BY <2>3, <2>4 DEF PaymentsOK
<1>6. ConsumersOK'
  BY <1>2, <1>7 DEF GolemInv, StackEmpty, ConsumersOK, QueuedEventsHandled
<1> QED
  BY <1>2, <1>3, <1>4, <1>5, <1>6, TypesSplit DEF GolemInv

LEMMA DispatcherStoppedKeeps ==
  ASSUME GolemInv, NEW c \in Callers, DispatcherStopped(c)
  PROVE  GolemInv'
<1>1. Types
  BY TypesSplit DEF GolemInv
<1>2. /\ at' \in [Callers -> Stages] /\ lock' \in Seq(Callers) /\ LockOK'
      /\ \A d \in Callers : d # c => at'[d] = at[d]
      /\ at'[c] = "idle" /\ at[c] = "dispatcher" /\ Holds(c)
  <2>1. Holds(c) /\ at[c] = "dispatcher" /\ Go(c, "idle") /\ lock' = Tail(lock)
    BY DEF DispatcherStopped, ReleaseLock, GolemInv, LockOK, Working
  <2> QED
    BY <1>1, <2>1, LockMoves DEF GolemInv, Stages, Working
<1>7. /\ stack' = <<>> /\ <<>> \in Seq(Contexts) /\ DOMAIN <<>> = {}
      /\ started' = FALSE /\ awaiting' = TRUE /\ raising' = FALSE /\ odd' = FALSE
      /\ invoices' = "none" /\ notes' = "none"
      /\ jobs' \in [Jobs -> TaskStates] /\ waitFor' = {}
  BY DEF DispatcherStopped, NewEngine, TaskStates
<1>3. Types'
  BY <1>1, <1>2, <1>7
     DEF DispatcherStopped, TaskStates, Types, CallerTypes, FlagTypes, EngineTypes,
         DispatcherTypes
<1>4. StackOK'
  BY <1>7 DEF StackOK, Ordered, OnStack
<1>5. PaymentsOK'
  BY <1>7 DEF PaymentsOK
<1>6. ConsumersOK'
  BY <1>2 DEF GolemInv, DispatcherStopped, Drained, ConsumersOK, QueuedEventsHandled
<1> QED
  BY <1>2, <1>3, <1>4, <1>5, <1>6, TypesSplit DEF GolemInv

(* The consumers' tasks, the jobs of the user and the invoice service        *)
LEMMA HandleKeeps ==
  ASSUME GolemInv, NEW k \in Consumers, Handle(k)
  PROVE  GolemInv'
<1>1. Types
  BY TypesSplit DEF GolemInv
<1>2. UNCHANGED <<at, lock, starts, stack, started, awaiting, invoices, notes, raising, odd,
                  jobs, waitFor, added, open, stopping>>
  BY DEF Handle, engineVars, jobVars
<1>3. /\ queue' \in [Consumers -> 0..MaxEvents]
      /\ \A h \in Consumers : queue[h] = 0 => queue'[h] = 0
  BY <1>1, GolemBoundsAssumption DEF Handle, Types, DispatcherTypes
<1>4. Types'
  BY <1>1, <1>2, <1>3 DEF Types, CallerTypes, FlagTypes, EngineTypes, DispatcherTypes
<1>5. LockOK' /\ StackOK' /\ PaymentsOK'
  BY <1>2 DEF GolemInv, LockOK, Holds, StackOK, Ordered, PaymentsOK, OnStack
<1>6. ConsumersOK'
  BY <1>1, <1>2, <1>3 DEF GolemInv, ConsumersOK, QueuedEventsHandled, Types, DispatcherTypes
<1> QED
  BY <1>4, <1>5, <1>6, TypesSplit DEF GolemInv

LEMMA AddConsumerKeeps ==
  ASSUME GolemInv, NEW k \in Consumers, AddConsumer(k)
  PROVE  GolemInv'
<1>1. Types
  BY TypesSplit DEF GolemInv
<1>2. UNCHANGED <<at, lock, starts, stack, started, awaiting, invoices, notes, raising, odd,
                  jobs, waitFor, stopping, queue>>
  BY DEF AddConsumer, engineVars, jobVars
<1>3. /\ k \notin added /\ added' = added \cup {k}
      /\ open \subseteq open' /\ open' \subseteq added'
  BY <1>1 DEF AddConsumer, Types, DispatcherTypes
<1>4. Types'
  BY <1>1, <1>2, <1>3 DEF Types, CallerTypes, FlagTypes, EngineTypes, DispatcherTypes
<1>5. LockOK' /\ StackOK' /\ PaymentsOK'
  BY <1>2 DEF GolemInv, LockOK, Holds, StackOK, Ordered, PaymentsOK, OnStack
<1>6. ConsumersOK'
  BY <1>2, <1>3 DEF GolemInv, ConsumersOK, QueuedEventsHandled
<1> QED
  BY <1>4, <1>5, <1>6, TypesSplit DEF GolemInv

LEMMA JobStartsKeeps ==
  ASSUME GolemInv, NEW j \in Jobs, JobStarts(j)
  PROVE  GolemInv'
<1>1. Types
  BY TypesSplit DEF GolemInv
<1>2. UNCHANGED <<at, lock, starts, started, awaiting, invoices, notes, raising, odd,
                  waitFor, added, open, stopping, queue>>
  BY DEF JobStarts, dispatcherVars
<1>3. jobs' \in [Jobs -> TaskStates]
  BY <1>1 DEF JobStarts, Types, CallerTypes, TaskStates
<1>4. /\ stack' \in Seq(Contexts) /\ Ordered'
      /\ OnStack("allocation")' <=> OnStack("allocation")
      /\ OnStack("shutdown")' <=> OnStack("shutdown")
  <2>1. CASE stack' = stack
    BY <1>1, <2>1 DEF GolemInv, StackOK, Ordered, OnStack, Types, EngineTypes
  <2>2. CASE stack' = Append(stack, "cluster")
    <3> DEFINE new == <<"cluster">>
    <3>1. /\ new \in Seq(Contexts) /\ \A i \in DOMAIN new : new[i] = "cluster"
          /\ "allocation" \in Contexts /\ "shutdown" \in Contexts
      BY DEF Contexts
    <3>2. stack' = stack \o new
      BY <1>1, <2>2 DEF Types, EngineTypes
    <3> HIDE DEF new
    <3> QED
      BY <1>1, <3>1, <3>2, StackGrows DEF GolemInv, StackOK, Types, EngineTypes
  <2> QED
    BY <2>1, <2>2 DEF JobStarts
<1>5. Types'
  BY <1>1, <1>2, <1>3, <1>4 DEF Types, CallerTypes, FlagTypes, EngineTypes, DispatcherTypes
<1>6. LockOK' /\ StackOK' /\ PaymentsOK' /\ ConsumersOK'
  BY <1>2, <1>4
     DEF GolemInv, LockOK, Holds, StackOK, PaymentsOK, ConsumersOK, QueuedEventsHandled
<1> QED
  BY <1>5, <1>6, TypesSplit DEF GolemInv

LEMMA JobStepKeeps ==
  ASSUME GolemInv, NEW j \in Jobs, JobStep(j)
  PROVE  GolemInv'
<1>1. Types
  BY TypesSplit DEF GolemInv
<1>2. UNCHANGED <<at, lock, starts, stack, started, awaiting, invoices, notes, raising, odd,
                  waitFor, added, open, stopping>>
  BY DEF JobStep, engineVars
<1>3. jobs' \in [Jobs -> TaskStates]
  BY <1>1 DEF JobStep, Types, CallerTypes, TaskStates
<1>4. DispatcherTypes' /\ ConsumersOK'
  <2>1. CASE CanEmit /\ QueuesLeft /\ Emitted
    BY <1>1, <1>2, <2>1, EmitKeeps DEF GolemInv
  <2>2. CASE UNCHANGED queue
    BY <1>1, <1>2, <2>2 DEF GolemInv, Types, DispatcherTypes, ConsumersOK, QueuedEventsHandled
  <2> QED
    BY <2>1, <2>2 DEF JobStep
<1>5. Types'
  BY <1>1, <1>2, <1>3, <1>4 DEF Types, CallerTypes, FlagTypes, EngineTypes
<1>6. LockOK' /\ StackOK' /\ PaymentsOK'
  BY <1>2 DEF GolemInv, LockOK, Holds, StackOK, Ordered, PaymentsOK, OnStack
<1> QED
  BY <1>4, <1>5, <1>6, TypesSplit DEF GolemInv

LEMMA InvoicesEndKeeps ==
  ASSUME GolemInv, InvoicesEnd
  PROVE  GolemInv'
<1>1. Types
  BY TypesSplit DEF GolemInv
<1>2. /\ UNCHANGED <<at, lock, starts, stack, started, awaiting, notes, raising, odd,
                     jobs, waitFor, added, open, stopping, queue>>
      /\ invoices' = "done"
  BY DEF InvoicesEnd, jobVars, dispatcherVars
<1>3. Types'
  BY <1>1, <1>2 DEF Types, CallerTypes, FlagTypes, EngineTypes, DispatcherTypes, TaskStates
<1>4. LockOK' /\ StackOK' /\ PaymentsOK' /\ ConsumersOK'
  BY <1>2
     DEF GolemInv, LockOK, Holds, StackOK, Ordered, PaymentsOK, OnStack, ConsumersOK,
         QueuedEventsHandled
<1> QED
  BY <1>3, <1>4, TypesSplit DEF GolemInv

-----------------------------------------------------------------------------
(* The invariant and what follows from it *)

LEMMA GolemStart == GolemInit => GolemInv
<1> SUFFICES ASSUME GolemInit
             PROVE  GolemInv
  OBVIOUS
<1>1. Types
  <2>1. CallerTypes
    BY GolemBoundsAssumption DEF GolemInit, CallerTypes, Stages, TaskStates
  <2>2. FlagTypes
    BY DEF GolemInit, FlagTypes
  <2>3. EngineTypes
    <3>1. <<>> \in Seq(Contexts)
      OBVIOUS
    <3> QED
      BY <3>1 DEF GolemInit, EngineTypes, TaskStates
  <2>4. DispatcherTypes
    <3>1. 0 \in 0..MaxEvents
      BY GolemBoundsAssumption
    <3> QED
      BY <3>1, LateAssumption DEF GolemInit, DispatcherTypes
  <2> QED
    BY <2>1, <2>2, <2>3, <2>4 DEF Types
<1>2. DOMAIN stack = {}
  BY DEF GolemInit
<1>3. LockOK /\ StackOK /\ PaymentsOK /\ ConsumersOK
  BY <1>2
     DEF GolemInit, LockOK, Working, StackOK, Ordered, OnStack, PaymentsOK, ConsumersOK,
         QueuedEventsHandled
<1> QED
  BY <1>1, <1>3, TypesSplit DEF GolemInv

LEMMA GolemStep == GolemInv /\ [GolemNext]_golemVars => GolemInv'
<1> SUFFICES ASSUME GolemInv, [GolemNext]_golemVars
             PROVE  GolemInv'
  OBVIOUS
<1>1. ASSUME NEW c \in Callers, CallStart(c) \/ CallStop(c)
      PROVE  GolemInv'
  BY <1>1, CallStartKeeps, CallStopKeeps
<1>2. ASSUME NEW c \in Callers, Starts(c)
      PROVE  GolemInv'
  BY <1>2, AlreadyOperativeKeeps, EnterClientsKeeps, EnterAllocationsKeeps, EnterStorageKeeps
     DEF Starts
<1>3. ASSUME NEW c \in Callers, Stops(c)
      PROVE  GolemInv'
  BY <1>3, StopBeginsKeeps, UnwindKeeps, EnterShutdownKeeps, CloseGeneratorsKeeps,
     JobsFinishedKeeps, PaymentsAwaitedKeeps, ServicesDoneKeeps, StackEmptyKeeps,
     DispatcherStoppedKeeps
     DEF Stops
<1>4. ASSUME NEW k \in Consumers, Handle(k) \/ AddConsumer(k)
      PROVE  GolemInv'
  BY <1>4, HandleKeeps, AddConsumerKeeps
<1>5. ASSUME NEW j \in Jobs, JobStarts(j) \/ JobStep(j)
      PROVE  GolemInv'
  BY <1>5, JobStartsKeeps, JobStepKeeps
<1>6. CASE InvoicesEnd
  BY <1>6, InvoicesEndKeeps
<1>7. CASE UNCHANGED golemVars
  BY <1>7
     DEF GolemInv, golemVars, engineVars, jobVars, dispatcherVars, GolemTypeOK, LockOK, Holds,
         StackOK, Ordered, PaymentsOK, OnStack, ConsumersOK, QueuedEventsHandled
<1> QED
  BY <1>1, <1>2, <1>3, <1>4, <1>5, <1>6, <1>7 DEF GolemNext

(* However callers start and stop the engine, whatever fails and whatever    *)
(* jobs and consumers do meanwhile, GolemInv holds.                          *)
THEOREM GolemInvariant == GolemSpec => []GolemInv
  BY GolemStart, GolemStep, PTL DEF GolemSpec

(* The allocation is on the exit stack while the invoice service runs, and a *)
(* consumer that is closed has handled what it was given.                    *)
LEMMA GolemPromises ==
  GolemInv => GolemTypeOK /\ AllocationOutlivesPayments /\ QueuedEventsHandled
  BY DEF GolemInv, PaymentsOK, OnStack, AllocationOutlivesPayments, ConsumersOK
=============================================================================
