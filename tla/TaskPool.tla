------------------------------ MODULE TaskPool ------------------------------
(* What the task queue of an Executor promises its users, without buffers,   *)
(* condition variables or event-loop ticks.  A task is free, assigned to one *)
(* worker, or done.  A worker is offered a task at most once, a task that    *)
(* leaves a worker unsettled (or is rejected with retry) is free again, and  *)
(* done is final.  SmartQueue.tla implements this specification.             *)
CONSTANTS Items,     \* the tasks of a job
          Consumers  \* the workers that may ever ask for a task

VARIABLES phase,     \* Items -> {"free", "assigned", "done"}
          tried      \* Items -> the workers the task was offered to

vars == <<phase, tried>>

TypeOK == /\ phase \in [Items -> {"free", "assigned", "done"}]
          /\ tried \in [Items -> SUBSET Consumers]

Init == /\ phase = [i \in Items |-> "free"]
        /\ tried = [i \in Items |-> {}]

Assign(i, c) == /\ phase[i] = "free"
                /\ c \notin tried[i]
                /\ phase' = [phase EXCEPT ![i] = "assigned"]
                /\ tried' = [tried EXCEPT ![i] = @ \cup {c}]

(* A worker that stops gives back everything it holds in one step. *)
Release(S) == /\ \A i \in S : phase[i] = "assigned"
              /\ phase' = [i \in Items |-> IF i \in S THEN "free" ELSE phase[i]]
              /\ UNCHANGED tried

Finish(i) == /\ phase[i] = "assigned"
             /\ phase' = [phase EXCEPT ![i] = "done"]
             /\ UNCHANGED tried

Next == \/ \E i \in Items, c \in Consumers : Assign(i, c)
        \/ \E S \in SUBSET Items : Release(S)
        \/ \E i \in Items : Finish(i)

Spec == Init /\ [][Next]_vars
=============================================================================
