-------------------------- MODULE SmartQueueProofs --------------------------
(* Theorems about SmartQueue for every set of items and of consumers.        *)
EXTENDS SmartQueue, TLAPS

-----------------------------------------------------------------------------
(* Sequences of spawned operations *)

LEMMA AppendFacts ==
  ASSUME NEW S, NEW s \in Seq(S), NEW e \in S
  PROVE  /\ Append(s, e) \in Seq(S)
         /\ DOMAIN Append(s, e) = 1..(Len(s) + 1)
         /\ DOMAIN s = 1..Len(s) /\ Len(s) \in Nat
         /\ \A k \in 1..Len(s) : Append(s, e)[k] = s[k]
         /\ Append(s, e)[Len(s) + 1] = e
  OBVIOUS

LEMMA TailFacts ==
  ASSUME NEW S, NEW s \in Seq(S), s # <<>>
  PROVE  /\ Tail(s) \in Seq(S)
         /\ Head(s) = s[1] /\ Head(s) \in S
         /\ DOMAIN s = 1..Len(s) /\ Len(s) \in Nat /\ Len(s) >= 1
         /\ DOMAIN Tail(s) = 1..(Len(s) - 1)
         /\ \A k \in 1..(Len(s) - 1) : Tail(s)[k] = s[k + 1]
  OBVIOUS

-----------------------------------------------------------------------------
(* Type correctness *)

LEMMA TypeInit == Init => TypeOK
  BY DEF Init, TypeOK, AtMostOne, TaskStatus, ConsumerState, Ops, ItemOps

LEMMA SpawnType ==
  ASSUME spawned \in Seq(Ops), NEW op \in Ops, Spawn(op)
  PROVE  spawned' \in Seq(Ops)
  BY AppendFacts DEF Spawn

LEMMA RunSpawnedType ==
  ASSUME TypeOK, RunSpawned
  PROVE  /\ spawned' \in Seq(Ops)
         /\ \/ Head(spawned).op = "mark_done" /\ Head(spawned).arg \in Items
               /\ RunMarkDone(Head(spawned).arg)
            \/ Head(spawned).op = "reschedule" /\ Head(spawned).arg \in Items
               /\ RunReschedule(Head(spawned).arg)
            \/ Head(spawned).op = "reschedule_all" /\ Head(spawned).arg \in Consumers
               /\ RunRescheduleAll(Head(spawned).arg)
<1>1. spawned \in Seq(Ops) /\ spawned # <<>>
  BY DEF TypeOK, RunSpawned
<1>2. Head(spawned) \in Ops /\ Tail(spawned) \in Seq(Ops)
  BY <1>1, TailFacts
<1>3. \/ Head(spawned).op = "mark_done" /\ Head(spawned).arg \in Items
      \/ Head(spawned).op = "reschedule" /\ Head(spawned).arg \in Items
      \/ Head(spawned).op = "reschedule_all" /\ Head(spawned).arg \in Consumers
  BY <1>2 DEF Ops, ItemOps
<1> QED
  BY <1>2, <1>3 DEF RunSpawned

LEMMA TypeNext ==
  ASSUME TypeOK, [Next]_vars
  PROVE  TypeOK'
<1> USE DEF TypeOK, AtMostOne, TaskStatus, ConsumerState, handleVars, sourceVars
<1>1. ASSUME NEW i \in Items, Pull(i) PROVE TypeOK'
  BY <1>1 DEF Pull, NotifyNewItems
<1>2. CASE Put
  BY <1>2 DEF Put, NotifyNewItems
<1>3. CASE EndOfInput
  BY <1>3 DEF EndOfInput, NotifyNewItems, NotifyEof
<1>4. CASE SourceFails \/ Close
  BY <1>4 DEF SourceFails, Close
<1>5. ASSUME NEW c \in Consumers, NewConsumer(c) \/ CloseTasks(c) PROVE TypeOK'
  BY <1>5 DEF NewConsumer, CloseTasks
<1>6. ASSUME NEW c \in Consumers, Get(c) PROVE TypeOK'
  <2>1. CASE StopIteration(c)
    BY <1>6, <2>1 DEF Get, StopIteration
  <2>2. CASE GetRescheduled(c)
    BY <1>6, <2>2 DEF Get, GetRescheduled, FindRescheduled, Assign
  <2>3. CASE GetBuffered(c)
    BY <1>6, <2>3 DEF Get, GetBuffered, Assign
  <2>4. CASE WaitForItems(c)
    BY <1>6, <2>4 DEF Get, WaitForItems
  <2> QED
    BY <1>6, <2>1, <2>2, <2>3, <2>4 DEF Get
<1>7. ASSUME NEW c \in Consumers, Exit(c) PROVE TypeOK'
  <2>1. RescheduleAll(c) \in Ops
    BY DEF RescheduleAll, Ops
  <2> QED
    BY <1>7, <2>1, SpawnType DEF Exit
<1>8. ASSUME NEW c \in Consumers, NEW i \in Items, Accept(i, c) PROVE TypeOK'
  <2>1. MarkDone(i) \in Ops
    BY DEF MarkDone, Ops, ItemOps
  <2> QED
    BY <1>8, <2>1, SpawnType DEF Accept
<1>9. ASSUME NEW c \in Consumers, NEW i \in Items, NEW retry \in BOOLEAN, Reject(i, c, retry)
      PROVE  TypeOK'
  <2>1. (IF retry THEN Reschedule(i) ELSE MarkDone(i)) \in Ops
    BY DEF Reschedule, MarkDone, Ops, ItemOps
  <2> QED
    BY <1>9, <2>1, SpawnType DEF Reject
<1>10. CASE RunSpawned
  BY <1>10, RunSpawnedType
     DEF RunSpawned, RunMarkDone, RunReschedule, RunRescheduleAll, HeldBy, NotifyNewItems, NotifyEof
<1>11. CASE WaitUntilDone
  BY <1>11 DEF WaitUntilDone
<1>12. CASE UNCHANGED vars
  BY <1>12 DEF vars
<1> QED
  BY <1>1, <1>2, <1>3, <1>4, <1>5, <1>6, <1>7, <1>8, <1>9, <1>10, <1>11, <1>12
     DEF Next, FillBuffer, Worker, Anext, WakeUp

(* Every variable of the queue keeps its type, for every set of items and    *)
(* of consumers; in particular the buffer never holds two items.             *)
THEOREM TypeCorrect == Spec => []TypeOK
  BY TypeInit, TypeNext, PTL DEF Spec

-----------------------------------------------------------------------------
(* The inductive invariant *)

LEMMA QueueInvInit == Init => QueueInv
  BY TypeInit DEF Init, QueueInv, ItemInOnePlace, Unassigned, HandleInProgress, NoOrphan,
                  HandleOK, SpawnedOK, SpawnOrder

(* What the spawned operations say survives a step that settles nothing,     *)
(* spawns nothing and lets no worker leave.                                  *)
LEMMA SameWork ==
  ASSUME TypeOK, HandleInProgress, NoOrphan, SpawnedOK, SpawnOrder,
         UNCHANGED <<inProgress, consumer, status, spawned>>,
         \A c \in Consumers : cstate'[c] = "exited" <=> cstate[c] = "exited",
         \A i \in inProgress : consumer[i] \in Consumers
  PROVE  HandleInProgress' /\ NoOrphan' /\ SpawnedOK' /\ SpawnOrder'
<1>1. HandleInProgress'
  BY DEF HandleInProgress
<1>2. NoOrphan'
  BY DEF NoOrphan, RescheduleAll, MarkDone, Reschedule
<1>3. SpawnedOK'
  <2>1. \A k \in DOMAIN spawned : spawned[k] \in Ops
    BY DEF TypeOK
  <2>2. \A k \in DOMAIN spawned :
          spawned[k].op = "reschedule_all" => spawned[k].arg \in Consumers
    BY <2>1 DEF Ops, ItemOps
  <2> QED
    BY <2>2 DEF SpawnedOK
<1>4. SpawnOrder'
  BY DEF SpawnOrder
<1> QED
  BY <1>1, <1>2, <1>3, <1>4

(* Steps that move no item between a worker and the queue.                   *)
LEMMA QuietInv ==
  ASSUME QueueInv, TypeOK',
         \/ FillBuffer \/ Close \/ WaitUntilDone
         \/ \E c \in Consumers : NewConsumer(c) \/ CloseTasks(c)
  PROVE  QueueInv'
<1> USE DEF handleVars, sourceVars, NotifyNewItems
<1>1. /\ UNCHANGED <<inProgress, rescheduled, prevConsumers, consumer, status, spawned>>
      /\ \A c \in Consumers : cstate'[c] = "exited" <=> cstate[c] = "exited"
      /\ \/ UNCHANGED <<incoming, held, buffer>>
         \/ Put
         \/ \E i \in Items : Pull(i)
  <2>1. CASE FillBuffer
    BY <2>1 DEF FillBuffer, Pull, Put, EndOfInput, SourceFails, QueueInv, TypeOK
  <2>2. CASE Close \/ WaitUntilDone
    BY <2>2 DEF Close, WaitUntilDone
  <2>3. CASE \E c \in Consumers : NewConsumer(c) \/ CloseTasks(c)
    BY <2>3 DEF NewConsumer, CloseTasks, QueueInv, TypeOK
  <2> QED
    BY <2>1, <2>2, <2>3
<1>2. HandleInProgress' /\ NoOrphan' /\ SpawnedOK' /\ SpawnOrder'
  BY <1>1, SameWork DEF QueueInv, HandleOK
<1>3. ItemInOnePlace' /\ HandleOK'
  <2>1. CASE UNCHANGED <<incoming, held, buffer>>
    BY <1>1, <2>1 DEF QueueInv, ItemInOnePlace, Unassigned, HandleOK
  <2>2. CASE Put
    BY <1>1, <2>2 DEF Put, QueueInv, ItemInOnePlace, Unassigned, HandleOK
  <2>3. ASSUME NEW i \in Items, Pull(i) PROVE ItemInOnePlace' /\ HandleOK'
    BY <1>1, <2>3 DEF Pull, QueueInv, ItemInOnePlace, Unassigned, HandleOK
  <2> QED
    BY <1>1, <2>1, <2>2, <2>3
<1> QED
  BY <1>2, <1>3 DEF QueueInv

(* A step of get() *)
LEMMA GetInv ==
  ASSUME QueueInv, TypeOK', NEW c \in Consumers, cstate[c] \in {"idle", "woken"}, Get(c)
  PROVE  QueueInv'
<1> USE DEF handleVars, sourceVars
<1>1. CASE StopIteration(c) \/ WaitForItems(c)
  <2>1. UNCHANGED <<incoming, held, buffer, inProgress, rescheduled, prevConsumers, consumer,
                    status, spawned>>
    BY <1>1 DEF Get, StopIteration, WaitForItems
  <2>2. \A d \in Consumers : cstate'[d] = "exited" <=> cstate[d] = "exited"
    BY <1>1 DEF StopIteration, WaitForItems, QueueInv, TypeOK
  <2>3. HandleInProgress' /\ NoOrphan' /\ SpawnedOK' /\ SpawnOrder'
    BY <2>1, <2>2, SameWork DEF QueueInv, HandleOK
  <2> QED
    BY <2>1, <2>3 DEF QueueInv, ItemInOnePlace, Unassigned, HandleOK
<1>2. ASSUME NEW i \in rescheduled \cup buffer, Assign(i, c),
             cstate' = [cstate EXCEPT ![c] = "idle"],
             UNCHANGED <<incoming, held, spawned>>,
             rescheduled' = rescheduled \ {i}, buffer' = buffer \ {i}
      PROVE  QueueInv'
  <2>1. i \in Items /\ i \notin inProgress
    BY DEF QueueInv, TypeOK, ItemInOnePlace
  <2>2. /\ inProgress' = inProgress \cup {i}
        /\ consumer'[i] = c /\ status'[i] = "running"
        /\ \A j \in Items \ {i} : /\ consumer'[j] = consumer[j] /\ status'[j] = status[j]
                                  /\ prevConsumers'[j] = prevConsumers[j]
    BY <1>2, <2>1 DEF Assign, QueueInv, TypeOK
  <2>3. ItemInOnePlace'
    BY <1>2, <2>1, <2>2 DEF QueueInv, ItemInOnePlace, Unassigned, TypeOK
  <2>4. HandleOK'
    BY <1>2, <2>1, <2>2 DEF QueueInv, ItemInOnePlace, HandleOK, TypeOK
  <2>5. HandleInProgress'
    BY <1>2, <2>2 DEF QueueInv, HandleInProgress
  <2>6. cstate'[c] = "idle" /\ \A d \in Consumers \ {c} : cstate'[d] = cstate[d]
    BY <1>2 DEF QueueInv, TypeOK
  <2>7. NoOrphan'
    BY <1>2, <2>1, <2>2, <2>6 DEF QueueInv, NoOrphan, HandleOK, TypeOK, Settled,
                                  RescheduleAll, MarkDone, Reschedule
  <2>8. \A k \in DOMAIN spawned :
          IF spawned[k].op = "reschedule_all"
            THEN spawned[k].arg \in Consumers
            ELSE /\ spawned[k].op \in {"mark_done", "reschedule"}
                 /\ spawned[k].arg \in Items \ {i}
    <3>1. \A k \in DOMAIN spawned : spawned[k] \in Ops
      BY DEF QueueInv, TypeOK
    <3> QED
      BY <2>1, <3>1 DEF QueueInv, HandleInProgress, Ops, ItemOps
  <2>9. SpawnedOK'
    BY <1>2, <2>2, <2>6, <2>8 DEF QueueInv, SpawnedOK
  <2>10. SpawnOrder'
    BY <1>2, <2>2, <2>8 DEF QueueInv, SpawnOrder
  <2> QED
    BY <2>3, <2>4, <2>5, <2>7, <2>9, <2>10 DEF QueueInv
<1>3. CASE GetRescheduled(c)
  <2>1. PICK i \in rescheduled : rescheduled' = rescheduled \ {i} /\ Assign(i, c)
    BY <1>3 DEF GetRescheduled, FindRescheduled
  <2>2. buffer' = buffer \ {i}
    BY <1>3 DEF GetRescheduled, QueueInv, ItemInOnePlace
  <2> QED
    BY <1>2, <1>3, <2>1, <2>2 DEF Get, GetRescheduled
<1>4. CASE GetBuffered(c)
  <2>1. PICK i \in buffer : buffer' = buffer \ {i} /\ Assign(i, c)
    BY <1>4 DEF GetBuffered
  <2>2. rescheduled' = rescheduled \ {i}
    BY <1>4 DEF GetBuffered, QueueInv, ItemInOnePlace
  <2> QED
    BY <1>2, <1>4, <2>1, <2>2 DEF Get, GetBuffered
<1> QED
  BY <1>1, <1>3, <1>4 DEF Get

(* A worker settles a task: its handle was not yet in any spawned operation. *)
LEMMA SettleInv ==
  ASSUME QueueInv, TypeOK', NEW c \in Consumers, NEW i \in Items, CanSettle(i, c),
         NEW verdict \in Settled, NEW op \in {MarkDone(i), Reschedule(i)}, Spawn(op),
         op = Reschedule(i) => verdict = "rejected",
         status' = [status EXCEPT ![i] = verdict],
         UNCHANGED <<sourceVars, buffer, rescheduled, inProgress, handleVars, cstate>>
  PROVE  QueueInv'
<1> USE DEF handleVars, sourceVars
<1>1. /\ i \in inProgress /\ consumer[i] = c /\ status[i] = "running"
      /\ cstate[c] # "exited"
  BY DEF CanSettle
<1>2. status'[i] = verdict /\ \A j \in Items \ {i} : status'[j] = status[j]
  BY DEF QueueInv, TypeOK
<1>3. /\ op \in Ops /\ op.arg = i
      /\ op.op \in {"mark_done", "reschedule"}
      /\ op.op = "reschedule" => verdict = "rejected"
  BY DEF MarkDone, Reschedule, Ops, ItemOps
<1> DEFINE n == Len(spawned)
<1>4. /\ DOMAIN spawned = 1..n /\ n \in Nat /\ DOMAIN spawned' = 1..(n + 1)
      /\ \A k \in 1..n : spawned'[k] = spawned[k]
      /\ spawned'[n + 1] = op
  BY <1>3, AppendFacts DEF Spawn, QueueInv, TypeOK
<1>5. \A k \in 1..n : spawned[k] \in Ops
  BY <1>4 DEF QueueInv, TypeOK
<1>6. \A k \in 1..n :
        IF spawned[k].op = "reschedule_all"
          THEN spawned[k].arg \in Consumers /\ spawned[k].arg # c
          ELSE spawned[k].arg \in Items \ {i} /\ spawned[k].arg \in inProgress
  BY <1>1, <1>4, <1>5 DEF QueueInv, SpawnedOK, HandleInProgress, Settled, Ops, ItemOps
<1>7. ItemInOnePlace'
  BY <1>1, <1>2 DEF QueueInv, ItemInOnePlace, Unassigned
<1>8. HandleOK'
  BY <1>1, <1>2 DEF QueueInv, TypeOK, HandleOK, ItemInOnePlace, Settled
<1>9. HandleInProgress'
  BY <1>1, <1>3, <1>4, <1>6 DEF HandleInProgress
<1>10. NoOrphan'
  <2>1. ASSUME NEW j \in inProgress
        PROVE  /\ status'[j] = "running" =>
                    \/ cstate'[consumer'[j]] # "exited"
                    \/ \E k \in 1..(n + 1) : spawned'[k] = RescheduleAll(consumer'[j])
               /\ status'[j] \in Settled =>
                    \E k \in 1..(n + 1) : spawned'[k] \in {MarkDone(j), Reschedule(j)}
    <3>1. CASE j = i
      BY <1>1, <1>2, <1>4, <3>1
    <3>2. CASE j # i
      <4>1. j \in Items /\ status'[j] = status[j] /\ consumer'[j] = consumer[j]
        BY <1>2, <2>1, <3>2 DEF QueueInv, TypeOK
      <4>2. 1..n \subseteq 1..(n + 1)
        BY <1>4
      <4> QED
        BY <1>4, <4>1, <4>2, <2>1 DEF QueueInv, NoOrphan
    <3> QED
      BY <3>1, <3>2
  <2> QED
    BY <1>4, <2>1 DEF NoOrphan, RescheduleAll, MarkDone, Reschedule
<1>11. SpawnedOK'
  BY <1>2, <1>3, <1>4, <1>5, <1>6 DEF QueueInv, SpawnedOK, Ops, ItemOps
<1>12. SpawnOrder'
  <2>1. ASSUME NEW k \in 1..(n + 1), NEW l \in 1..(n + 1), k < l,
               spawned'[l].op # "reschedule_all"
        PROVE  IF spawned'[k].op = "reschedule_all"
                 THEN consumer'[spawned'[l].arg] # spawned'[k].arg
                 ELSE spawned'[l].arg # spawned'[k].arg
    <3>1. k \in 1..n
      BY <1>4, <2>1
    <3>2. CASE l = n + 1
      BY <1>1, <1>3, <1>4, <1>6, <3>1, <3>2
    <3>3. CASE l \in 1..n
      BY <1>4, <2>1, <3>1, <3>3 DEF QueueInv, SpawnOrder
    <3> QED
      BY <1>4, <2>1, <3>2, <3>3
  <2> QED
    BY <1>4, <2>1 DEF SpawnOrder
<1> QED
  BY <1>7, <1>8, <1>9, <1>10, <1>11, <1>12 DEF QueueInv

(* A worker leaves: reschedule_all is behind all it has spawned before.      *)
LEMMA ExitInv ==
  ASSUME QueueInv, TypeOK', NEW c \in Consumers, Exit(c)
  PROVE  QueueInv'
<1> USE DEF handleVars, sourceVars
<1> DEFINE n == Len(spawned)
           op == RescheduleAll(c)
<1>1. op \in Ops /\ op.op = "reschedule_all" /\ op.arg = c
  BY DEF RescheduleAll, Ops
<1>2. /\ DOMAIN spawned = 1..n /\ n \in Nat /\ DOMAIN spawned' = 1..(n + 1)
      /\ \A k \in 1..n : spawned'[k] = spawned[k]
      /\ spawned'[n + 1] = op
  BY <1>1, AppendFacts DEF Exit, Spawn, QueueInv, TypeOK
<1>3. /\ cstate'[c] = "exited"
      /\ \A d \in Consumers \ {c} : cstate'[d] = cstate[d]
  BY DEF Exit, QueueInv, TypeOK
<1>4. UNCHANGED <<incoming, held, buffer, rescheduled, inProgress, prevConsumers, consumer,
                  status>>
  BY DEF Exit
<1>5. ItemInOnePlace' /\ HandleOK'
  BY <1>4 DEF QueueInv, ItemInOnePlace, Unassigned, HandleOK
<1>6. HandleInProgress'
  BY <1>1, <1>2, <1>4 DEF QueueInv, HandleInProgress
<1>7. NoOrphan'
  <2>1. ASSUME NEW j \in inProgress
        PROVE  /\ status'[j] = "running" =>
                    \/ cstate'[consumer'[j]] # "exited"
                    \/ \E k \in 1..(n + 1) : spawned'[k] = RescheduleAll(consumer'[j])
               /\ status'[j] \in Settled =>
                    \E k \in 1..(n + 1) : spawned'[k] \in {MarkDone(j), Reschedule(j)}
    <3>1. 1..n \subseteq 1..(n + 1) /\ n + 1 \in 1..(n + 1)
      BY <1>2
    <3>2. consumer[j] \in Consumers
      BY DEF QueueInv, HandleOK
    <3>3. CASE consumer[j] = c
      BY <1>2, <1>4, <2>1, <3>1, <3>3 DEF QueueInv, NoOrphan
    <3>4. CASE consumer[j] # c
      BY <1>2, <1>3, <1>4, <2>1, <3>1, <3>2, <3>4 DEF QueueInv, NoOrphan
    <3> QED
      BY <3>3, <3>4
  <2> QED
    BY <1>2, <1>4, <2>1 DEF NoOrphan, RescheduleAll, MarkDone, Reschedule
<1>8. SpawnedOK'
  <2>1. \A k \in 1..n : spawned[k].op = "reschedule_all" => spawned[k].arg \in Consumers
    <3>1. \A k \in 1..n : spawned[k] \in Ops
      BY <1>2 DEF QueueInv, TypeOK
    <3> QED
      BY <3>1 DEF Ops, ItemOps
  <2> QED
    BY <1>1, <1>2, <1>3, <1>4, <2>1 DEF QueueInv, SpawnedOK
<1>9. SpawnOrder'
  BY <1>1, <1>2, <1>4 DEF QueueInv, SpawnOrder
<1> QED
  BY <1>5, <1>6, <1>7, <1>8, <1>9 DEF QueueInv

(* What the oldest spawned operation may assume when it runs: the items the  *)
(* later ones speak of are still in progress, with another consumer.         *)
LEMMA HeadFacts ==
  ASSUME QueueInv, spawned # <<>>
  PROVE  LET n == Len(spawned)
             op == Head(spawned)
         IN /\ op \in Ops /\ op = spawned[1]
            /\ n \in Nat /\ n >= 1 /\ DOMAIN spawned = 1..n
            /\ DOMAIN Tail(spawned) = 1..(n - 1)
            /\ \A k \in 1..(n - 1) : Tail(spawned)[k] = spawned[k + 1] /\ k + 1 \in 1..n
            /\ \A k \in 1..(n - 1) : Tail(spawned)[k] \in Ops
            /\ \A k \in 1..(n - 1) : Tail(spawned)[k].op # "reschedule_all" =>
                 /\ Tail(spawned)[k].arg \in inProgress
                 /\ IF op.op = "reschedule_all" THEN consumer[Tail(spawned)[k].arg] # op.arg
                                                ELSE Tail(spawned)[k].arg # op.arg
<1>1. spawned \in Seq(Ops)
  BY DEF QueueInv, TypeOK
<1>2. /\ Head(spawned) \in Ops /\ Head(spawned) = spawned[1]
      /\ Len(spawned) \in Nat /\ Len(spawned) >= 1 /\ DOMAIN spawned = 1..Len(spawned)
      /\ DOMAIN Tail(spawned) = 1..(Len(spawned) - 1)
      /\ \A k \in 1..(Len(spawned) - 1) : Tail(spawned)[k] = spawned[k + 1]
  BY <1>1, TailFacts
<1>3. \A k \in 1..(Len(spawned) - 1) : k + 1 \in 1..Len(spawned) /\ 1 < k + 1
  BY <1>2
<1>4. \A k \in 1..Len(spawned) : spawned[k] \in Ops
  BY <1>1, <1>2
<1>5. \A k \in 1..(Len(spawned) - 1) : Tail(spawned)[k].op # "reschedule_all" =>
        /\ Tail(spawned)[k].arg \in inProgress
        /\ IF spawned[1].op = "reschedule_all"
             THEN consumer[Tail(spawned)[k].arg] # spawned[1].arg
             ELSE Tail(spawned)[k].arg # spawned[1].arg
  BY <1>2, <1>3 DEF QueueInv, HandleInProgress, SpawnOrder
<1> QED
  BY <1>2, <1>3, <1>4, <1>5

(* What the later operations say survives when the items that leave          *)
(* _in_progress are none of theirs.                                          *)
LEMMA TailInv ==
  ASSUME QueueInv, spawned # <<>>, spawned' = Tail(spawned),
         UNCHANGED <<consumer, status>>,
         \A c \in Consumers : cstate'[c] = "exited" <=> cstate[c] = "exited",
         NEW gone \in SUBSET inProgress, inProgress' = inProgress \ gone,
         \A k \in DOMAIN Tail(spawned) :
           Tail(spawned)[k].op # "reschedule_all" => Tail(spawned)[k].arg \notin gone,
         \A i \in inProgress \ gone :
           /\ status[i] = "running" => Head(spawned) # RescheduleAll(consumer[i])
           /\ Head(spawned) \notin {MarkDone(i), Reschedule(i)}
  PROVE  HandleInProgress' /\ NoOrphan' /\ SpawnedOK' /\ SpawnOrder'
<1> DEFINE n == Len(spawned)
<1>1. /\ Head(spawned) = spawned[1]
      /\ n \in Nat /\ n >= 1 /\ DOMAIN spawned = 1..n /\ DOMAIN spawned' = 1..(n - 1)
      /\ \A k \in 1..(n - 1) : spawned'[k] = spawned[k + 1] /\ k + 1 \in 1..n
      /\ \A k \in 1..(n - 1) : spawned'[k] \in Ops
      /\ \A k \in 1..(n - 1) : spawned'[k].op # "reschedule_all" =>
           spawned'[k].arg \in inProgress
  BY HeadFacts
<1>2. HandleInProgress'
  BY <1>1 DEF HandleInProgress
<1>3. NoOrphan'
  <2>1. ASSUME NEW j \in inProgress \ gone,
               NEW k \in 1..n, k # 1
        PROVE  k - 1 \in 1..(n - 1) /\ spawned'[k - 1] = spawned[k]
    BY <1>1, <2>1
  <2>2. ASSUME NEW j \in inProgress \ gone
        PROVE  /\ status[j] = "running" =>
                    \/ cstate'[consumer[j]] # "exited"
                    \/ \E k \in 1..(n - 1) : spawned'[k] = RescheduleAll(consumer[j])
               /\ status[j] \in Settled =>
                    \E k \in 1..(n - 1) : spawned'[k] \in {MarkDone(j), Reschedule(j)}
    <3>1. consumer[j] \in Consumers
      BY DEF QueueInv, HandleOK
    <3>2. CASE status[j] = "running" /\ cstate[consumer[j]] = "exited"
      <4>1. PICK k \in 1..n : spawned[k] = RescheduleAll(consumer[j])
        BY <1>1, <3>2 DEF QueueInv, NoOrphan
      <4>2. k # 1
        BY <1>1, <3>2, <4>1
      <4>3. k - 1 \in 1..(n - 1) /\ spawned'[k - 1] = RescheduleAll(consumer[j])
        BY <2>1, <4>1, <4>2
      <4> QED
        BY <3>2, <4>3 DEF Settled
    <3>3. CASE status[j] \in Settled
      <4>1. PICK k \in 1..n : spawned[k] \in {MarkDone(j), Reschedule(j)}
        BY <1>1, <3>3 DEF QueueInv, NoOrphan
      <4>2. k # 1
        BY <1>1, <3>3, <4>1
      <4>3. k - 1 \in 1..(n - 1) /\ spawned'[k - 1] \in {MarkDone(j), Reschedule(j)}
        BY <2>1, <4>1, <4>2
      <4> QED
        BY <3>3, <4>3 DEF Settled
    <3> QED
      BY <3>1, <3>2, <3>3
  <2> QED
    BY <1>1, <2>2 DEF NoOrphan, RescheduleAll, MarkDone, Reschedule
<1>4. SpawnedOK'
  <2>1. \A k \in 1..(n - 1) :
          spawned'[k].op = "reschedule_all" => spawned'[k].arg \in Consumers
    BY <1>1 DEF Ops, ItemOps
  <2> QED
    BY <1>1, <2>1 DEF QueueInv, SpawnedOK
<1>5. SpawnOrder'
  <2>1. ASSUME NEW k \in 1..(n - 1), NEW l \in 1..(n - 1), k < l
        PROVE  k + 1 < l + 1
    BY <1>1, <2>1
  <2> QED
    BY <1>1, <2>1 DEF QueueInv, SpawnOrder
<1> QED
  BY <1>2, <1>3, <1>4, <1>5

(* reschedule_all runs after every verdict of its worker, so what it takes   *)
(* back has no verdict.                                                      *)
LEMMA HeldByRunning ==
  ASSUME QueueInv, spawned # <<>>, NEW c \in Consumers, Head(spawned) = RescheduleAll(c)
  PROVE  \A i \in HeldBy(c) : status[i] = "running"
<1> SUFFICES ASSUME NEW i \in HeldBy(c), status[i] # "running"
             PROVE  FALSE
  OBVIOUS
<1>1. i \in inProgress /\ consumer[i] = c
  BY DEF HeldBy
<1>2. status[i] \in Settled
  BY <1>1 DEF QueueInv, TypeOK, TaskStatus, HandleOK, Settled
<1>3. PICK k \in DOMAIN spawned : spawned[k] \in {MarkDone(i), Reschedule(i)}
  BY <1>1, <1>2 DEF QueueInv, NoOrphan
<1>4. spawned[k].op \in {"mark_done", "reschedule"} /\ spawned[k].arg = i
  BY <1>3 DEF MarkDone, Reschedule
<1>5. spawned[1] = RescheduleAll(c) /\ Len(spawned) \in Nat /\ DOMAIN spawned = 1..Len(spawned)
  BY HeadFacts
<1>6. spawned[1].op = "reschedule_all" /\ spawned[1].arg = c
  BY <1>5 DEF RescheduleAll
<1>7. k # 1 /\ k \in 1..Len(spawned) /\ 1 \in 1..Len(spawned)
  BY <1>4, <1>5, <1>6
<1>8. 1 < k
  BY <1>5, <1>7
<1> QED
  BY <1>1, <1>4, <1>5, <1>6, <1>7, <1>8 DEF QueueInv, SpawnOrder

LEMMA RunSpawnedInv ==
  ASSUME QueueInv, TypeOK', RunSpawned
  PROVE  QueueInv'
<1> USE DEF handleVars, sourceVars
<1> DEFINE op == Head(spawned)
<1>1. spawned # <<>> /\ spawned' = Tail(spawned)
  BY DEF RunSpawned
<1>2. /\ DOMAIN spawned = 1..Len(spawned) /\ Len(spawned) \in Nat /\ Len(spawned) >= 1
      /\ op = spawned[1] /\ op \in Ops
      /\ \A k \in DOMAIN Tail(spawned) : Tail(spawned)[k].op # "reschedule_all" =>
           /\ Tail(spawned)[k].arg \in inProgress
           /\ IF op.op = "reschedule_all" THEN consumer[Tail(spawned)[k].arg] # op.arg
                                          ELSE Tail(spawned)[k].arg # op.arg
  BY <1>1, HeadFacts
<1>3. UNCHANGED <<incoming, held, buffer, prevConsumers, consumer, status>>
  BY DEF RunSpawned
<1>4. ASSUME op.arg \in Items,
             \/ RunMarkDone(op.arg) /\ op.op = "mark_done"
             \/ RunReschedule(op.arg) /\ op.op = "reschedule"
      PROVE  QueueInv'
  <2> DEFINE i == op.arg
  <2>1. i \in inProgress
    BY <1>2, <1>4 DEF QueueInv, HandleInProgress
  <2>2. inProgress' = inProgress \ {i}
    BY <1>4, <2>1 DEF RunMarkDone, RunReschedule
  <2>3. \A c \in Consumers : cstate'[c] = "exited" <=> cstate[c] = "exited"
    BY <1>4, <2>1 DEF RunMarkDone, RunReschedule, NotifyNewItems, QueueInv, TypeOK
  <2>4. \A j \in inProgress \ {i} :
          /\ op # RescheduleAll(consumer[j])
          /\ op \notin {MarkDone(j), Reschedule(j)}
    BY <1>4 DEF RescheduleAll, MarkDone, Reschedule
  <2>5. HandleInProgress' /\ NoOrphan' /\ SpawnedOK' /\ SpawnOrder'
    <3> DEFINE gone == {i}
    <3>1. gone \in SUBSET inProgress /\ inProgress' = inProgress \ gone
      BY <2>1, <2>2
    <3>2. \A k \in DOMAIN Tail(spawned) :
            Tail(spawned)[k].op # "reschedule_all" => Tail(spawned)[k].arg \notin gone
      BY <1>2, <1>4
    <3> HIDE DEF gone
    <3> QED
      BY <1>1, <1>3, <2>3, <2>4, <3>1, <3>2, TailInv DEF gone
  <2>6. CASE op.op = "mark_done"
    <3>1. status[i] \in Settled /\ rescheduled' = rescheduled
      BY <1>2, <1>4, <2>1, <2>6 DEF QueueInv, SpawnedOK, RunMarkDone
    <3> QED
      BY <1>3, <2>2, <2>5, <3>1 DEF QueueInv, ItemInOnePlace, Unassigned, HandleOK
  <2>7. CASE op.op = "reschedule"
    <3>1. status[i] = "rejected" /\ rescheduled' = rescheduled \cup {i}
      BY <1>2, <1>4, <2>1, <2>7 DEF QueueInv, SpawnedOK, RunReschedule
    <3> QED
      BY <1>3, <2>1, <2>2, <2>5, <3>1 DEF QueueInv, ItemInOnePlace, Unassigned, HandleOK
  <2> QED
    BY <1>4, <2>6, <2>7
<1>5. ASSUME NEW c \in Consumers, op.op = "reschedule_all", op.arg = c, RunRescheduleAll(c)
      PROVE  QueueInv'
  <2>1. /\ inProgress' = inProgress \ HeldBy(c)
        /\ rescheduled' = rescheduled \cup HeldBy(c)
        /\ HeldBy(c) \in SUBSET inProgress
    BY <1>5 DEF RunRescheduleAll, HeldBy
  <2>2. \A d \in Consumers : cstate'[d] = "exited" <=> cstate[d] = "exited"
    BY <1>5 DEF RunRescheduleAll, NotifyNewItems, QueueInv, TypeOK
  <2>3. op = RescheduleAll(c)
    BY <1>2, <1>5 DEF Ops, ItemOps, RescheduleAll
  <2>4. \A k \in DOMAIN Tail(spawned) :
          Tail(spawned)[k].op # "reschedule_all" => Tail(spawned)[k].arg \notin HeldBy(c)
    BY <1>2, <1>5 DEF HeldBy
  <2>5. \A j \in inProgress \ HeldBy(c) :
          /\ op # RescheduleAll(consumer[j])
          /\ op \notin {MarkDone(j), Reschedule(j)}
    BY <1>5, <2>3 DEF HeldBy, RescheduleAll, MarkDone, Reschedule
  <2>6. HandleInProgress' /\ NoOrphan' /\ SpawnedOK' /\ SpawnOrder'
    BY <1>1, <1>3, <2>1, <2>2, <2>4, <2>5, TailInv
  <2>7. \A i \in HeldBy(c) : status[i] = "running"
    BY <1>1, <2>3, HeldByRunning
  <2> QED
    BY <1>3, <2>1, <2>6, <2>7 DEF QueueInv, ItemInOnePlace, Unassigned, HandleOK
<1>6. \/ op.op = "mark_done" /\ op.arg \in Items /\ RunMarkDone(op.arg)
      \/ op.op = "reschedule" /\ op.arg \in Items /\ RunReschedule(op.arg)
      \/ op.op = "reschedule_all" /\ op.arg \in Consumers /\ RunRescheduleAll(op.arg)
  BY RunSpawnedType DEF QueueInv
<1>7. CASE op.op = "reschedule_all"
  BY <1>5, <1>6, <1>7
<1>8. CASE op.op \in {"mark_done", "reschedule"}
  BY <1>4, <1>6, <1>8
<1> QED
  BY <1>6, <1>7, <1>8

LEMMA QueueInvNext ==
  ASSUME QueueInv, [Next]_vars
  PROVE  QueueInv'
<1>1. TypeOK'
  BY TypeNext DEF QueueInv
<1>2. CASE UNCHANGED vars
  BY <1>2 DEF vars, QueueInv, TypeOK, ItemInOnePlace, Unassigned, HandleInProgress, NoOrphan,
              HandleOK, SpawnedOK, SpawnOrder
<1>3. ASSUME NEW c \in Consumers, NEW i \in Items, Accept(i, c) PROVE QueueInv'
  BY <1>1, <1>3, SettleInv DEF Accept, Settled, MarkDone, Reschedule
<1>4. ASSUME NEW c \in Consumers, NEW i \in Items, NEW retry \in BOOLEAN, Reject(i, c, retry)
      PROVE  QueueInv'
  BY <1>1, <1>4, SettleInv DEF Reject, Settled
<1>5. CASE FillBuffer \/ Close \/ WaitUntilDone
  BY <1>1, <1>5, QuietInv
<1>6. ASSUME NEW c \in Consumers, NewConsumer(c) \/ CloseTasks(c) PROVE QueueInv'
  BY <1>1, <1>6, QuietInv
<1>7. ASSUME NEW c \in Consumers, Anext(c) \/ WakeUp(c) PROVE QueueInv'
  BY <1>1, <1>7, GetInv DEF Anext, WakeUp
<1>8. ASSUME NEW c \in Consumers, Exit(c) PROVE QueueInv'
  BY <1>1, <1>8, ExitInv
<1>9. CASE RunSpawned
  BY <1>1, <1>9, RunSpawnedInv
<1> QED
  BY <1>2, <1>3, <1>4, <1>5, <1>6, <1>7, <1>8, <1>9 DEF Next, Worker

LEMMA QueueInvariant == Spec => []QueueInv
  BY QueueInvInit, QueueInvNext, PTL DEF Spec

(* For every set of items and of consumers, whatever order workers, the      *)
(* buffer task and spawned coroutines run in, no item is lost or duplicated. *)
THEOREM ItemInOnePlaceAlways == Spec => []ItemInOnePlace
<1>1. QueueInv => ItemInOnePlace
  BY DEF QueueInv
<1> QED
  BY <1>1, QueueInvariant, PTL

(* The assertions of mark_done and reschedule never fail.                    *)
THEOREM HandleInProgressAlways == Spec => []HandleInProgress
<1>1. QueueInv => HandleInProgress
  BY DEF QueueInv
<1> QED
  BY <1>1, QueueInvariant, PTL

(* No task stays in progress after its worker left and its reschedule_all    *)
(* ran, nor after its verdict's coroutine ran.                               *)
THEOREM NoOrphanAlways == Spec => []NoOrphan
<1>1. QueueInv => NoOrphan
  BY DEF QueueInv
<1> QED
  BY <1>1, QueueInvariant, PTL

-----------------------------------------------------------------------------
(* Wake-ups *)

LEMMA NoMissedWakeUpInit == Init => NoMissedWakeUp
  BY DEF Init, NoMissedWakeUp

LEMMA NoMissedWakeUpNext ==
  ASSUME TypeOK, NoMissedWakeUp, [Next]_vars
  PROVE  NoMissedWakeUp'
<1> USE DEF NoMissedWakeUp, Finished, HasUnassignedItems, FindRescheduled, sourceVars, handleVars
<1>1. ASSUME NEW i \in Items, Pull(i) PROVE NoMissedWakeUp'
  BY <1>1 DEF Pull, NotifyNewItems, TypeOK
<1>2. CASE Put \/ EndOfInput
  BY <1>2 DEF Put, EndOfInput, NotifyNewItems, NotifyEof, TypeOK
<1>3. CASE SourceFails \/ Close
  BY <1>3 DEF SourceFails, Close
<1>4. ASSUME NEW c \in Consumers, NewConsumer(c) \/ CloseTasks(c) \/ Exit(c)
      PROVE  NoMissedWakeUp'
  BY <1>4 DEF NewConsumer, CloseTasks, Exit, TypeOK
<1>5. ASSUME NEW c \in Consumers, Get(c) PROVE NoMissedWakeUp'
  <2>1. CASE StopIteration(c)
    BY <1>5, <2>1 DEF Get, StopIteration, TypeOK
  <2>2. ASSUME NEW i \in Items, Assign(i, c), cstate' = [cstate EXCEPT ![c] = "idle"],
               rescheduled' \subseteq rescheduled, buffer' \subseteq buffer, UNCHANGED waitDone
        PROVE  NoMissedWakeUp'
    <3>1. inProgress' # {} /\ \A j \in Items : prevConsumers[j] \subseteq prevConsumers'[j]
      BY <2>2 DEF Assign, TypeOK
    <3>2. \A d \in Consumers : cstate'[d] = "waiting" => cstate[d] = "waiting"
      BY <2>2 DEF TypeOK
    <3> QED
      BY <2>2, <3>1, <3>2 DEF TypeOK
  <2>3. CASE GetRescheduled(c)
    BY <1>5, <2>2, <2>3 DEF Get, GetRescheduled, TypeOK
  <2>4. CASE GetBuffered(c)
    BY <1>5, <2>2, <2>4 DEF Get, GetBuffered, TypeOK
  <2>5. CASE WaitForItems(c) /\ ~Finished
    BY <1>5, <2>5 DEF Get, WaitForItems, TypeOK
  <2> QED
    BY <1>5, <2>1, <2>3, <2>4, <2>5 DEF Get
<1>6. ASSUME NEW c \in Consumers, NEW i \in Items, Accept(i, c) PROVE NoMissedWakeUp'
  BY <1>6 DEF Accept
<1>7. ASSUME NEW c \in Consumers, NEW i \in Items, NEW retry \in BOOLEAN, Reject(i, c, retry)
      PROVE  NoMissedWakeUp'
  BY <1>7 DEF Reject
<1>8. CASE RunSpawned
  BY <1>8 DEF RunSpawned, RunMarkDone, RunReschedule, RunRescheduleAll, HeldBy,
              NotifyNewItems, NotifyEof, TypeOK
<1>9. CASE WaitUntilDone
  BY <1>9 DEF WaitUntilDone
<1>10. CASE UNCHANGED vars
  BY <1>10 DEF vars
<1> QED
  BY <1>1, <1>2, <1>3, <1>4, <1>5, <1>6, <1>7, <1>8, <1>9, <1>10
     DEF Next, FillBuffer, Worker, Anext, WakeUp

(* No coroutine sleeps on _new_items or _eof while there is something for it *)
(* to do: no interleaving loses a notification, for any number of consumers. *)
THEOREM NoMissedWakeUpAlways == Spec => []NoMissedWakeUp
<1>1. Init => TypeOK /\ NoMissedWakeUp
  BY TypeInit, NoMissedWakeUpInit
<1>2. TypeOK /\ NoMissedWakeUp /\ [Next]_vars => (TypeOK /\ NoMissedWakeUp)'
  BY TypeNext, NoMissedWakeUpNext
<1> QED
  BY <1>1, <1>2, PTL DEF Spec

-----------------------------------------------------------------------------
(* Verdicts *)

LEMMA AcceptedIsFinalNext ==
  ASSUME QueueInv, [Next]_vars, NEW i \in Items, status[i] = "accepted"
  PROVE  status'[i] = "accepted"
<1> USE DEF handleVars, sourceVars
<1>1. CASE UNCHANGED status
  BY <1>1
<1>2. ASSUME NEW c \in Consumers, Get(c) PROVE status'[i] = "accepted"
  <2>1. ASSUME NEW j \in rescheduled \cup buffer, Assign(j, c) PROVE status'[i] = "accepted"
    <3>1. j # i
      BY DEF QueueInv, HandleOK
    <3> QED
      BY <2>1, <3>1 DEF Assign, QueueInv, TypeOK
  <2> QED
    BY <1>1, <1>2, <2>1 DEF Get, GetRescheduled, FindRescheduled, GetBuffered, WaitForItems,
                            StopIteration
<1>3. ASSUME NEW c \in Consumers, NEW j \in Items, Accept(j, c) PROVE status'[i] = "accepted"
  BY <1>3 DEF Accept, CanSettle, QueueInv, TypeOK
<1>4. ASSUME NEW c \in Consumers, NEW j \in Items, NEW retry \in BOOLEAN, Reject(j, c, retry)
      PROVE  status'[i] = "accepted"
  BY <1>4 DEF Reject, CanSettle, QueueInv, TypeOK
<1>5. \/ UNCHANGED status
      \/ \E c \in Consumers : Get(c)
      \/ \E c \in Consumers, j \in Items : Accept(j, c)
      \/ \E c \in Consumers, j \in Items, retry \in BOOLEAN : Reject(j, c, retry)
  BY DEF Next, FillBuffer, Worker, Anext, WakeUp, Pull, Put, EndOfInput, SourceFails, Close,
         NewConsumer, CloseTasks, Exit, RunSpawned, WaitUntilDone, vars
<1> QED
  BY <1>1, <1>2, <1>3, <1>4, <1>5

(* An accepted task is never run again: neither the retry of another worker  *)
(* nor the reschedule_all of its own can take it back.                       *)
THEOREM AcceptedIsFinalAlways == Spec => AcceptedIsFinal
<1>1. QueueInv /\ [Next]_vars =>
        [\A i \in Items : status[i] = "accepted" => status'[i] = "accepted"]_vars
  BY AcceptedIsFinalNext
<1> QED
  BY <1>1, QueueInvariant, PTL DEF Spec, AcceptedIsFinal

-----------------------------------------------------------------------------
(* Refinement of TaskPool *)

LEMMA PoolInit == Init => Pool!Init
  BY DEF Init, Pool!Init, Phase, Unassigned

LEMMA PhaseSame ==
  ASSUME NEW i \in Items,
         i \in inProgress' <=> i \in inProgress, i \in Unassigned' <=> i \in Unassigned,
         status'[i] = status[i],
         (\E k \in DOMAIN spawned' : spawned'[k] = MarkDone(i))
           <=> (\E k \in DOMAIN spawned : spawned[k] = MarkDone(i))
  PROVE  Phase(i)' = Phase(i)
  BY DEF Phase, MarkDone

LEMMA PoolStutter ==
  ASSUME \A i \in Items : Phase(i)' = Phase(i), prevConsumers' = prevConsumers
  PROVE  UNCHANGED Pool!vars
  BY DEF Pool!vars

LEMMA PoolAssign ==
  ASSUME QueueInv, NEW c \in Consumers, NEW i \in rescheduled \cup buffer, Assign(i, c),
         c \notin prevConsumers[i],
         rescheduled' = rescheduled \ {i}, buffer' = buffer \ {i},
         UNCHANGED <<incoming, held, spawned>>
  PROVE  Pool!Next
<1>1. i \in Items /\ i \notin inProgress /\ i \in Unassigned
  BY DEF QueueInv, TypeOK, ItemInOnePlace, Unassigned
<1>2. Phase(i) = "free"
  BY <1>1 DEF Phase
<1>3. i \in inProgress' /\ status'[i] = "running"
  BY <1>1 DEF Assign, QueueInv, TypeOK
<1>4. Phase(i)' = "assigned"
  BY <1>3 DEF Phase
<1>5. \A j \in Items \ {i} : Phase(j)' = Phase(j)
  <2>1. ASSUME NEW j \in Items \ {i}
        PROVE  /\ j \in inProgress' <=> j \in inProgress
               /\ j \in Unassigned' <=> j \in Unassigned
               /\ status'[j] = status[j]
    BY DEF Assign, Unassigned, QueueInv, TypeOK
  <2> QED
    BY <2>1, PhaseSame
<1>6. prevConsumers' = [prevConsumers EXCEPT ![i] = @ \cup {c}]
  BY DEF Assign
<1>7. Pool!Assign(i, c)
  BY <1>1, <1>2, <1>4, <1>5, <1>6 DEF Pool!Assign
<1> QED
  BY <1>1, <1>7 DEF Pool!Next

LEMMA PoolSettle ==
  ASSUME QueueInv, NEW c \in Consumers, NEW i \in Items, CanSettle(i, c),
         NEW verdict \in Settled, NEW op \in {MarkDone(i), Reschedule(i)}, Spawn(op),
         status' = [status EXCEPT ![i] = verdict],
         UNCHANGED <<sourceVars, buffer, rescheduled, inProgress, handleVars>>
  PROVE  Pool!Next
<1> USE DEF handleVars, sourceVars
<1>1. i \in inProgress /\ status[i] = "running" /\ Phase(i) = "assigned"
  BY DEF CanSettle, Phase
<1> DEFINE n == Len(spawned)
<1>2. op \in Ops
  BY DEF MarkDone, Reschedule, Ops, ItemOps
<1>3. /\ DOMAIN spawned = 1..n /\ n \in Nat /\ DOMAIN spawned' = 1..(n + 1)
      /\ \A k \in 1..n : spawned'[k] = spawned[k]
      /\ spawned'[n + 1] = op
  BY <1>2, AppendFacts DEF Spawn, QueueInv, TypeOK
<1>4. 1..(n + 1) = 1..n \cup {n + 1}
  BY <1>3
<1>5. \A k \in 1..n : spawned[k] # MarkDone(i)
  BY <1>1, <1>3 DEF QueueInv, SpawnedOK, MarkDone, Settled
<1>6. status'[i] = verdict /\ verdict # "running"
  BY <1>1 DEF QueueInv, TypeOK, Settled
<1>7. \A j \in Items \ {i} : Phase(j)' = Phase(j)
  <2>1. ASSUME NEW j \in Items \ {i}
        PROVE  /\ status'[j] = status[j]
               /\ (\E k \in DOMAIN spawned' : spawned'[k] = MarkDone(j))
                    <=> (\E k \in DOMAIN spawned : spawned[k] = MarkDone(j))
    <3>1. op # MarkDone(j)
      BY DEF MarkDone, Reschedule
    <3>2. status'[j] = status[j]
      BY DEF QueueInv, TypeOK
    <3> QED
      BY <1>3, <1>4, <3>1, <3>2
  <2>2. inProgress' = inProgress /\ Unassigned' = Unassigned
    BY DEF Unassigned
  <2> QED
    BY <2>1, <2>2, PhaseSame
<1>8. CASE op = MarkDone(i)
  <2>1. Phase(i)' = "done"
    BY <1>1, <1>3, <1>4, <1>6, <1>8 DEF Phase, MarkDone
  <2>2. Pool!Finish(i)
    BY <1>1, <1>7, <2>1 DEF Pool!Finish
  <2> QED
    BY <2>2 DEF Pool!Next
<1>9. CASE op = Reschedule(i)
  <2>1. op # MarkDone(i)
    BY <1>9 DEF MarkDone, Reschedule
  <2>2. ~ \E k \in DOMAIN spawned' : spawned'[k] = MarkDone(i)
    BY <1>3, <1>4, <1>5, <2>1
  <2>3. Phase(i)' = "free"
    BY <1>1, <1>6, <2>2 DEF Phase, MarkDone
  <2>4. Pool!Release({i})
    BY <1>1, <1>7, <2>3 DEF Pool!Release
  <2>5. {i} \in SUBSET Items
    OBVIOUS
  <2> QED
    BY <2>4, <2>5 DEF Pool!Next
<1> QED
  BY <1>8, <1>9

LEMMA PoolRunSpawned ==
  ASSUME QueueInv, RunSpawned
  PROVE  Pool!Next \/ UNCHANGED Pool!vars
<1> USE DEF handleVars, sourceVars
<1> DEFINE op == Head(spawned)
           n == Len(spawned)
           Marked(i) == \E k \in DOMAIN spawned : spawned[k] = MarkDone(i)
<1>1. UNCHANGED <<incoming, held, buffer, prevConsumers, status, consumer>>
  BY DEF RunSpawned
<1>2. /\ spawned # <<>> /\ spawned' = Tail(spawned)
      /\ n \in Nat /\ n >= 1 /\ DOMAIN spawned = 1..n /\ DOMAIN Tail(spawned) = 1..(n - 1)
      /\ op = spawned[1] /\ op \in Ops
      /\ \A k \in 1..(n - 1) : Tail(spawned)[k] = spawned[k + 1] /\ k + 1 \in 1..n
      /\ \A k \in 1..(n - 1) : Tail(spawned)[k].op # "reschedule_all" =>
           IF op.op = "reschedule_all" THEN consumer[Tail(spawned)[k].arg] # op.arg
                                       ELSE Tail(spawned)[k].arg # op.arg
  BY HeadFacts DEF RunSpawned
<1>3. ASSUME NEW i \in Items, op # MarkDone(i)
      PROVE  Marked(i)' <=> Marked(i)
  <2>1. ASSUME NEW k \in 1..n, spawned[k] = MarkDone(i)
        PROVE  k - 1 \in 1..(n - 1) /\ Tail(spawned)[k - 1] = MarkDone(i)
    BY <1>2, <1>3, <2>1
  <2>2. Marked(i) => \E k \in 1..(n - 1) : Tail(spawned)[k] = MarkDone(i)
    BY <1>2, <2>1
  <2>3. (\E k \in 1..(n - 1) : Tail(spawned)[k] = MarkDone(i)) => Marked(i)
    BY <1>2
  <2> QED
    BY <1>2, <2>2, <2>3 DEF MarkDone
<1>4. ASSUME op.arg \in Items, op.op = "mark_done", RunMarkDone(op.arg)
      PROVE  UNCHANGED Pool!vars
  <2>0. PICK i \in Items : i = op.arg
    BY <1>4
  <2>1. i \in inProgress /\ status[i] \in Settled
    BY <1>2, <1>4, <2>0 DEF QueueInv, HandleInProgress, SpawnedOK
  <2>2. inProgress' = inProgress \ {i} /\ Unassigned' = Unassigned
    BY <1>1, <1>4, <2>0, <2>1 DEF RunMarkDone, Unassigned
  <2>3. op = MarkDone(i) /\ Marked(i)
    BY <1>2, <1>4, <2>0 DEF Ops, ItemOps, MarkDone
  <2>4. Phase(i) = "done"
    BY <2>1, <2>3 DEF Phase, Settled, MarkDone
  <2>5. i \notin inProgress' /\ i \notin Unassigned'
    BY <2>1, <2>2 DEF QueueInv, ItemInOnePlace, Unassigned
  <2>6. Phase(i)' = "done"
    BY <2>5 DEF Phase
  <2>7. \A j \in Items \ {i} : Phase(j)' = Phase(j)
    <3>1. ASSUME NEW j \in Items \ {i} PROVE Marked(j)' <=> Marked(j)
      <4>1. op # MarkDone(j)
        BY <2>3 DEF MarkDone
      <4> QED
        BY <1>3, <4>1
    <3> QED
      BY <1>1, <2>2, <3>1, PhaseSame
  <2> QED
    BY <1>1, <2>4, <2>6, <2>7, PoolStutter
<1>5. ASSUME op.arg \in Items, op.op = "reschedule", RunReschedule(op.arg)
      PROVE  UNCHANGED Pool!vars
  <2>0. PICK i \in Items : i = op.arg
    BY <1>5
  <2>1. i \in inProgress /\ status[i] = "rejected"
    BY <1>2, <1>5, <2>0 DEF QueueInv, HandleInProgress, SpawnedOK
  <2>2. inProgress' = inProgress \ {i} /\ rescheduled' = rescheduled \cup {i}
    BY <1>5, <2>0, <2>1 DEF RunReschedule
  <2>3. \A j \in Items : op # MarkDone(j)
    BY <1>5 DEF MarkDone
  <2>4. ~ Marked(i)
    <3>1. \A k \in 1..(n - 1) : Tail(spawned)[k] # MarkDone(i)
      BY <1>2, <1>5, <2>0 DEF MarkDone
    <3>2. \A k \in 1..n : k = 1 \/ (k - 1 \in 1..(n - 1) /\ Tail(spawned)[k - 1] = spawned[k])
      BY <1>2
    <3> QED
      BY <1>2, <2>3, <3>1, <3>2
  <2>5. Phase(i) = "free"
    BY <2>1, <2>4 DEF Phase, MarkDone
  <2>6. Phase(i)' = "free"
    BY <2>2 DEF Phase, Unassigned
  <2>7. \A j \in Items \ {i} : Phase(j)' = Phase(j)
    <3>1. ASSUME NEW j \in Items \ {i}
          PROVE  /\ j \in inProgress' <=> j \in inProgress
                 /\ j \in Unassigned' <=> j \in Unassigned
      BY <1>1, <2>2 DEF Unassigned
    <3> QED
      BY <1>1, <1>3, <2>3, <3>1, PhaseSame
  <2> QED
    BY <1>1, <2>5, <2>6, <2>7, PoolStutter
<1>6. ASSUME NEW c \in Consumers, op.op = "reschedule_all", op.arg = c, RunRescheduleAll(c)
      PROVE  Pool!Next
  <2>1. inProgress' = inProgress \ HeldBy(c) /\ rescheduled' = rescheduled \cup HeldBy(c)
    BY <1>6 DEF RunRescheduleAll
  <2>2. op = RescheduleAll(c)
    BY <1>2, <1>6 DEF Ops, ItemOps, RescheduleAll
  <2>3. HeldBy(c) \subseteq inProgress /\ HeldBy(c) \in SUBSET Items
    BY DEF HeldBy, QueueInv, TypeOK
  <2>4. \A i \in HeldBy(c) : status[i] = "running"
    BY <1>2, <2>2, HeldByRunning
  <2>5. \A i \in HeldBy(c) : Phase(i) = "assigned"
    BY <2>3, <2>4 DEF Phase
  <2>6. \A i \in HeldBy(c) : i \notin inProgress' /\ i \in Unassigned'
    BY <2>1 DEF Unassigned
  <2>7. \A i \in HeldBy(c) : Phase(i)' = "free"
    BY <2>6 DEF Phase
  <2>8. \A j \in Items \ HeldBy(c) : Phase(j)' = Phase(j)
    <3>1. ASSUME NEW j \in Items \ HeldBy(c)
          PROVE  /\ j \in inProgress' <=> j \in inProgress
                 /\ j \in Unassigned' <=> j \in Unassigned
      BY <1>1, <2>1 DEF Unassigned
    <3>2. \A j \in Items : op # MarkDone(j)
      BY <1>6 DEF MarkDone
    <3> QED
      BY <1>1, <1>3, <3>1, <3>2, PhaseSame
  <2>9. Pool!Release(HeldBy(c))
    BY <1>1, <2>3, <2>5, <2>7, <2>8 DEF Pool!Release
  <2> QED
    BY <2>3, <2>9 DEF Pool!Next
<1>7. \/ op.op = "mark_done" /\ op.arg \in Items /\ RunMarkDone(op.arg)
      \/ op.op = "reschedule" /\ op.arg \in Items /\ RunReschedule(op.arg)
      \/ op.op = "reschedule_all" /\ op.arg \in Consumers /\ RunRescheduleAll(op.arg)
  BY RunSpawnedType DEF QueueInv
<1> QED
  BY <1>4, <1>5, <1>6, <1>7

LEMMA PoolNext ==
  ASSUME QueueInv, [Next]_vars
  PROVE  [Pool!Next]_(Pool!vars)
<1> USE DEF handleVars, sourceVars
<1>1. ASSUME UNCHANGED <<inProgress, status, spawned, prevConsumers>>, Unassigned' = Unassigned
      PROVE  UNCHANGED Pool!vars
  BY <1>1, PhaseSame, PoolStutter
<1>2. CASE FillBuffer
  <2>1. CASE Put \/ EndOfInput \/ SourceFails
    BY <1>1, <2>1 DEF Put, EndOfInput, SourceFails, Unassigned
  <2>2. ASSUME NEW i \in Items, Pull(i) PROVE UNCHANGED Pool!vars
    BY <1>1, <2>2 DEF Pull, Unassigned, QueueInv, TypeOK
  <2> QED
    BY <1>2, <2>1, <2>2 DEF FillBuffer
<1>3. CASE Close \/ WaitUntilDone \/ UNCHANGED vars
  BY <1>1, <1>3 DEF Close, WaitUntilDone, vars, Unassigned
<1>4. ASSUME NEW c \in Consumers, NewConsumer(c) \/ CloseTasks(c) PROVE UNCHANGED Pool!vars
  BY <1>1, <1>4 DEF NewConsumer, CloseTasks, Unassigned
<1>5. ASSUME NEW c \in Consumers, Get(c) PROVE Pool!Next \/ UNCHANGED Pool!vars
  <2>1. CASE StopIteration(c) \/ WaitForItems(c)
    BY <1>1, <1>5, <2>1 DEF Get, StopIteration, WaitForItems, Unassigned
  <2>2. CASE GetRescheduled(c)
    <3>1. PICK i \in FindRescheduled(c) : rescheduled' = rescheduled \ {i} /\ Assign(i, c)
      BY <2>2 DEF GetRescheduled
    <3>2. i \in rescheduled /\ c \notin prevConsumers[i]
      BY DEF FindRescheduled
    <3>3. buffer' = buffer \ {i}
      BY <2>2, <3>2 DEF GetRescheduled, QueueInv, ItemInOnePlace
    <3> QED
      BY <1>5, <3>1, <3>2, <3>3, PoolAssign DEF Get
  <2>3. CASE GetBuffered(c)
    <3>1. PICK i \in buffer : buffer' = buffer \ {i} /\ Assign(i, c)
      BY <2>3 DEF GetBuffered
    <3>2. c \notin prevConsumers[i]
      BY DEF QueueInv, HandleOK
    <3>3. rescheduled' = rescheduled \ {i}
      BY <2>3 DEF GetBuffered, QueueInv, ItemInOnePlace
    <3> QED
      BY <1>5, <3>1, <3>2, <3>3, PoolAssign DEF Get
  <2> QED
    BY <1>5, <2>1, <2>2, <2>3 DEF Get
<1>6. ASSUME NEW c \in Consumers, Exit(c) PROVE UNCHANGED Pool!vars
  <2>1. RescheduleAll(c) \in Ops /\ \A i \in Items : RescheduleAll(c) # MarkDone(i)
    BY DEF RescheduleAll, Ops, MarkDone
  <2>2. /\ DOMAIN spawned = 1..Len(spawned) /\ Len(spawned) \in Nat
        /\ DOMAIN spawned' = 1..(Len(spawned) + 1)
        /\ \A k \in 1..Len(spawned) : spawned'[k] = spawned[k]
        /\ spawned'[Len(spawned) + 1] = RescheduleAll(c)
    BY <1>6, <2>1, AppendFacts DEF Exit, Spawn, QueueInv, TypeOK
  <2>3. 1..(Len(spawned) + 1) = 1..Len(spawned) \cup {Len(spawned) + 1}
    BY <2>2
  <2>4. ASSUME NEW i \in Items
        PROVE  (\E k \in DOMAIN spawned' : spawned'[k] = MarkDone(i))
                 <=> (\E k \in DOMAIN spawned : spawned[k] = MarkDone(i))
    BY <2>1, <2>2, <2>3
  <2>5. Unassigned' = Unassigned /\ UNCHANGED <<inProgress, status, prevConsumers>>
    BY <1>6 DEF Exit, Unassigned
  <2> QED
    BY <2>4, <2>5, PhaseSame, PoolStutter
<1>7. ASSUME NEW c \in Consumers, NEW i \in Items, Accept(i, c) PROVE Pool!Next
  BY <1>7, PoolSettle DEF Accept, Settled
<1>8. ASSUME NEW c \in Consumers, NEW i \in Items, NEW retry \in BOOLEAN, Reject(i, c, retry)
      PROVE  Pool!Next
  BY <1>8, PoolSettle DEF Reject, Settled
<1> QED
  BY <1>2, <1>3, <1>4, <1>5, <1>6, <1>7, <1>8, PoolRunSpawned
     DEF Next, Worker, Anext, WakeUp

(* SmartQueue implements TaskPool for every set of items and of consumers: a *)
(* task goes only to a worker that has not had it, comes back when it must   *)
(* be retried or its worker leaves, and is done once and for all.            *)
THEOREM SmartQueueImplementsTaskPool == Spec => ImplementsTaskPool
<1>1. Init => Pool!Init
  BY PoolInit
<1>2. QueueInv /\ [Next]_vars => [Pool!Next]_(Pool!vars)
  BY PoolNext
<1> QED
  BY <1>1, <1>2, QueueInvariant, PTL DEF Spec, ImplementsTaskPool, Pool!Spec

-----------------------------------------------------------------------------
(* The end of a job *)

(* The data iterator ends with nothing left to put, and wait_until_done()    *)
(* returns when the queue is finished, which it then stays.                  *)
EndOK ==
  /\ source = "finished" => incoming = {} /\ held = {}
  /\ waitDone = "done" => Finished

LEMMA EndInit == Init => EndOK
  BY DEF Init, EndOK

LEMMA EndNext ==
  ASSUME TypeOK, EndOK, [Next]_vars
  PROVE  EndOK'
<1> USE DEF EndOK, Finished, HasUnassignedItems, sourceVars, handleVars
<1>1. CASE FillBuffer \/ Close
  BY <1>1 DEF FillBuffer, Pull, Put, EndOfInput, SourceFails, Close, NotifyEof
<1>2. ASSUME NEW c \in Consumers, Get(c) PROVE EndOK'
  BY <1>2 DEF Get, StopIteration, GetRescheduled, FindRescheduled, GetBuffered, WaitForItems
<1>3. ASSUME NEW c \in Consumers, NewConsumer(c) \/ CloseTasks(c) \/ Exit(c) PROVE EndOK'
  BY <1>3 DEF NewConsumer, CloseTasks, Exit
<1>4. ASSUME NEW c \in Consumers, NEW i \in Items,
             Accept(i, c) \/ \E retry \in BOOLEAN : Reject(i, c, retry)
      PROVE  EndOK'
  BY <1>4 DEF Accept, Reject
<1>5. CASE RunSpawned
  BY <1>5 DEF RunSpawned, RunMarkDone, RunReschedule, RunRescheduleAll, HeldBy, NotifyEof
<1>6. CASE WaitUntilDone \/ UNCHANGED vars
  BY <1>6 DEF WaitUntilDone, vars
<1> QED
  BY <1>1, <1>2, <1>3, <1>4, <1>5, <1>6 DEF Next, Worker, Anext, WakeUp

LEMMA EndSettled ==
  ASSUME QueueInv, EndOK, waitDone = "done"
  PROVE  \A i \in Items : status[i] \in Settled
  BY DEF QueueInv, ItemInOnePlace, Unassigned, EndOK, Finished, HasUnassignedItems

(* wait_until_done() never returns while a task is unsettled: not when the   *)
(* data iterator has failed, not while one is buffered, held or rescheduled. *)
THEOREM DoneMeansSettled == Spec => [](waitDone = "done" => \A i \in Items : status[i] \in Settled)
<1>1. QueueInv => TypeOK
  BY DEF QueueInv
<1>2. QueueInv /\ EndOK => (waitDone = "done" => \A i \in Items : status[i] \in Settled)
  BY EndSettled
<1>3. QueueInv /\ EndOK /\ [Next]_vars => EndOK'
  BY <1>1, EndNext
<1> QED
  BY <1>2, <1>3, QueueInvariant, EndInit, PTL DEF Spec
=============================================================================
