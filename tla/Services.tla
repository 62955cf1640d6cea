------------------------------ MODULE Services ------------------------------
(* Service instances: yapapi/services/service_runner.py with the state       *)
(* machine of service_state.py, the part of service.py it reads, and         *)
(* cluster.py, which drives it; the instances join a Network.                *)
(*                                                                           *)
(* Each instance has a task (spawn_instance) that starts a worker on some    *)
(* provider; the worker runs the handlers of the service (start, run,        *)
(* shutdown), one per state.  Everything the task waits for is a step of its *)
(* own: an agreement, the activity, the network's replies, the outcome of a  *)
(* batch, a control signal, the health check, the payment.                   *)
EXTENDS Network, Sequences

CONSTANTS Instances,
          NoProvider,  \* _ctx is None
          MaxStarts,   \* bound: workers started
          MaxSignals   \* bound: control signals of the user that wait for one instance

ASSUME MaxStartsAssumption == MaxStarts \in Nat \ {0}
ASSUME MaxSignalsAssumption == MaxSignals \in Nat
ASSUME NoProviderAssumption == NoProvider \notin NodeIds

VARIABLES
  state,      \* service_state of each instance
  ran,        \* is `running` among its visited_states?
  hasExc,     \* is _exc_info set?
  control,    \* control_queue
  task,       \* where the task of the instance is: see TaskStates
  provider,   \* provider of the agreement the instance uses
  agreement,  \* what became of that agreement
  joined,     \* is the service's _network_node set?
  resumed,    \* was it added by add_existing_instance?
  starts,     \* workers started so far
  runner,     \* state of the ServiceRunnerState machine
  exit,       \* where __aexit__ is
  cancelled,  \* instances whose task has a cancellation pending
  netErrors   \* calls of the network that failed (history)

instanceVars == <<state, ran, hasExc, control, task, provider, agreement, joined, resumed, starts>>
runnerVars == <<runner, exit, cancelled>>
serviceVars == <<instanceVars, runnerVars, netErrors, netVars>>

Providers == NodeIds \ {Owner}
ServiceStates == {"pending", "starting", "running", "stopping", "terminated", "suspended"}
Available == {"starting", "running", "stopping"}
TaskStates == {"idle", "waiting", "joining", "serving", "leaving", "settling", "done"}

ServicesTypeOK ==
  /\ NetworkTypeOK
  /\ state \in [Instances -> ServiceStates] /\ ran \in [Instances -> BOOLEAN]
  /\ hasExc \in [Instances -> BOOLEAN]
  /\ \A i \in Instances : /\ control[i] \in Seq({"stop", "suspend"})
                          /\ Len(control[i]) <= MaxSignals + 1
  /\ task \in [Instances -> TaskStates]
  /\ provider \in [Instances -> Providers \cup {NoProvider}]
  /\ agreement \in [Instances -> {"none", "held", "released"}]
  /\ joined \in [Instances -> BOOLEAN] /\ resumed \in [Instances -> BOOLEAN]
  /\ starts \in 0..MaxStarts
  /\ runner \in {"active", "stopped", "suspended"}
  /\ exit \in {"no", "waiting", "cancelling", "done"}
  /\ cancelled \subseteq Instances
  /\ netErrors \subseteq {"add", "refresh", "remove"}

(* The provider of the serialized instances.                                 *)
SavedProvider == CHOOSE p \in Providers : TRUE

ServicesInit ==
  /\ netState \in {"initialized", "ready"}
  /\ ownerIp \in Address /\ hosts \in {0, 1}
  /\ nodes \in [NodeIds -> 0..Addresses]
  /\ \/ NewNetwork
     \/ DeserializedNetwork([n \in NodeIds |-> IF n = Owner THEN 1
                                               ELSE IF n = SavedProvider THEN 2 ELSE 0])
  /\ state = [i \in Instances |-> "pending"] /\ ran = [i \in Instances |-> FALSE]
  /\ hasExc = [i \in Instances |-> FALSE] /\ control = [i \in Instances |-> <<>>]
  /\ task = [i \in Instances |-> "idle"] /\ provider = [i \in Instances |-> NoProvider]
  /\ agreement = [i \in Instances |-> "none"] /\ joined = [i \in Instances |-> FALSE]
  /\ resumed = [i \in Instances |-> FALSE] /\ starts = 0
  /\ runner = "active" /\ exit = "no" /\ cancelled = {} /\ netErrors = {}

----------------------------------------------------------------------------
(* The state machine of an instance                                          *)

(* Mutated forms: `suspend` leads to `unresponsive`; errors and stop signals *)
(* are not allowed in `starting`.                                            *)
MutTransitionSuspend(event) ==
  CASE event = "end" -> {<<"pending", "starting">>, <<"starting", "running">>,
                         <<"running", "stopping">>, <<"stopping", "terminated">>}
    [] event \in {"fail", "stop"} -> {<<"running", "stopping">>, <<"starting", "terminated">>,
                                      <<"stopping", "terminated">>}
    [] event = "suspend" -> {<<s, "unresponsive">> : s \in Available}
MutTransitionStart(event) ==
  CASE event = "end" -> {<<"pending", "starting">>, <<"starting", "running">>,
                         <<"running", "stopping">>, <<"stopping", "terminated">>}
    [] event \in {"fail", "stop"} -> {<<"running", "stopping">>, <<"stopping", "terminated">>}
    [] event = "suspend" -> {<<s, "suspended">> : s \in Available}

(* lifecycle, error_or_stop and suspend: {} where TransitionNotAllowed.      *)
Transition(event) ==
  CASE event = "end" -> {<<"pending", "starting">>, <<"starting", "running">>,
                         <<"running", "stopping">>, <<"stopping", "terminated">>,
                         <<"terminated", "terminated">>}
    [] event \in {"fail", "stop"} -> {<<"running", "stopping">>, <<"starting", "terminated">>,
                                      <<"stopping", "terminated">>,
                                      <<"terminated", "terminated">>}
    [] event = "suspend" -> {<<s, "suspended">> : s \in Available}

(* The instance as one wait of _run_instance has changed it so far.          *)
Snapshot(i) == [state |-> state[i], ran |-> ran[i], exc |-> hasExc[i], raised |-> FALSE]

(* _change_state: a transition, and the exception information of an event    *)
(* that is no control signal.  A transition that is not allowed is raised.   *)
ChangeState(s, event) ==
  LET next == {t \in Transition(event) : t[1] = s.state}
  IN IF event = "none" \/ s.raised THEN s
     ELSE IF next = {} THEN [s EXCEPT !.raised = TRUE]
     ELSE LET new == (CHOOSE t \in next : TRUE)[2]
          IN [state |-> new, ran |-> s.ran \/ new = "running", raised |-> FALSE,
              exc |-> IF event \in {"end", "fail"} THEN event = "fail" ELSE s.exc]

(* Service.restart_condition                                                 *)
RestartCondition(i) == hasExc[i] /\ ~ran[i]

----------------------------------------------------------------------------
(* The task of an instance                                                   *)

(* A cluster is given a network that create() has returned.                  *)
NetworkUsable == netState \notin {"initialized", "creating"}

(* add_instance.                                                             *)
AddInstance(i) ==
  /\ task[i] = "idle" /\ exit = "no" /\ NetworkUsable
  /\ task' = [task EXCEPT ![i] = "waiting"]
  /\ UNCHANGED <<state, ran, hasExc, control, provider, agreement, joined, resumed, starts,
                 runnerVars, netErrors, netVars>>

(* add_existing_instance: the state and the node come from the serialized    *)
(* instance; visited_states does not.                                        *)
AddExistingInstance(i) ==
  /\ task[i] = "idle" /\ exit = "no" /\ NetworkUsable
  /\ \E p \in NetMembers \ {Owner}, s \in {"running", "suspended"} :
       /\ state' = [state EXCEPT ![i] = s]
       /\ provider' = [provider EXCEPT ![i] = p]
  /\ joined' = [joined EXCEPT ![i] = TRUE]
  /\ resumed' = [resumed EXCEPT ![i] = TRUE]
  /\ agreement' = [agreement EXCEPT ![i] = "held"]
  /\ task' = [task EXCEPT ![i] = "waiting"]
  /\ UNCHANGED <<ran, hasExc, control, starts, runnerVars, netErrors, netVars>>

(* The loop of spawn_instance tests `stopped` before it sleeps and asks for  *)
(* a worker; start_worker gives none (no agreement), or a worker task on an  *)
(* agreement, the existing one for a resumed instance.                       *)
LeaveLoop(i) ==
  /\ task[i] = "waiting" /\ runner = "stopped"
  /\ task' = [task EXCEPT ![i] = "done"]
  /\ UNCHANGED <<state, ran, hasExc, control, provider, agreement, joined, resumed, starts,
                 runnerVars, netErrors, netVars>>

(* The activity cannot be created: worker_task raises, spawn_instance tries  *)
(* again, and the pool drops the agreement of a failed worker.               *)
ActivityFails(i) ==
  /\ task[i] = "waiting" /\ starts < MaxStarts
  /\ agreement' = [agreement EXCEPT ![i] = "released"]
  /\ starts' = starts + 1
  /\ task' = [task EXCEPT ![i] = IF runner = "stopped" THEN "done" ELSE "waiting"]
  /\ UNCHANGED <<state, ran, hasExc, control, provider, joined, resumed, runnerVars, netErrors,
                 netVars>>

(* Mutated form: the state is not tested.                                    *)
MutFinally(s, hasNode) == IF hasNode THEN "leaving" ELSE "settling"

(* Where the worker goes once it has its node: into its handlers, unless     *)
(* the runner has been stopped; and from its finally clause.                 *)
Finally(s, hasNode) ==
  IF s = "suspended" THEN "kept" ELSE IF hasNode THEN "leaving" ELSE "settling"
Serve(s) == IF runner = "stopped" THEN Finally(s, TRUE)
            ELSE IF s \in Available THEN "serving" ELSE Finally(s, TRUE)

(* The end of the worker in spawn_instance: restart, or leave the loop.  A   *)
(* restart from `suspended` is not allowed: the exception is swallowed.      *)
Ended(i, s, exc) ==
  LET again == exc /\ ~ran[i]
  IN /\ state' = [state EXCEPT ![i] = IF again /\ s # "suspended" THEN "pending" ELSE s]
     /\ task' = [task EXCEPT ![i] = IF again /\ runner # "stopped" THEN "waiting" ELSE "done"]

Goto(i, pc, s, exc) ==
  IF pc = "kept" THEN Ended(i, s, exc)
  ELSE task' = [task EXCEPT ![i] = pc] /\ state' = [state EXCEPT ![i] = s]

(* The worker's context is set and a pending instance starts; add_node is    *)
(* called unless the service has a node.                                     *)
StartWorker(i) ==
  LET s == IF state[i] = "pending" THEN ChangeState(Snapshot(i), "end") ELSE Snapshot(i)
      p == IF resumed[i] THEN {provider[i]} ELSE Providers
  IN /\ task[i] = "waiting" /\ starts < MaxStarts
     /\ starts' = starts + 1
     /\ agreement' = [agreement EXCEPT ![i] = "held"]
     /\ hasExc' = [hasExc EXCEPT ![i] = s.exc]
     /\ \E on \in p :
          /\ provider' = [provider EXCEPT ![i] = on]
          /\ \/ /\ joined[i]
                /\ Goto(i, Serve(s.state), s.state, s.exc) /\ UNCHANGED <<netVars, netErrors>>
             \/ /\ ~joined[i]
                /\ state' = [state EXCEPT ![i] = s.state]
                /\ \E ip \in {0, Addresses} :
                     \/ /\ StoreNode(on, ip)
                        /\ task' = [task EXCEPT ![i] = "joining"] /\ UNCHANGED netErrors
                     \/ /\ RefuseNode(ip)
                        /\ task' = [task EXCEPT ![i] = "settling"]
                        /\ netErrors' = netErrors \cup {"add"}
     /\ UNCHANGED <<ran, control, joined, resumed, runnerVars>>

NodeAdded(i) ==
  /\ task[i] = "joining"
  /\ joined' = [joined EXCEPT ![i] = TRUE]
  /\ Goto(i, Serve(state[i]), state[i], hasExc[i])
  /\ UNCHANGED <<ran, hasExc, control, provider, agreement, resumed, starts, runnerVars,
                 netErrors, netVars>>

(* Bound: one call fails, or the network is removed under the services.      *)
CallMayFail == netErrors = {} /\ netState = "ready"

(* The call fails: the entry stays in _nodes, the service has no node.       *)
AddNodeFails(i) ==
  /\ task[i] = "joining" /\ CallMayFail
  /\ task' = [task EXCEPT ![i] = "settling"]
  /\ netErrors' = netErrors \cup {"add"}
  /\ UNCHANGED <<state, ran, hasExc, control, provider, agreement, joined, resumed, starts,
                 runnerVars, netVars>>

----------------------------------------------------------------------------
(* _run_instance                                                             *)

(* refresh_nodes, awaited when `start` has ended: an ApiException, or a      *)
(* network that was removed meanwhile.                                       *)
RefreshMayFail == CallMayFail \/ ~CanGetId

(* What a signal that is not handled in this wait becomes: signal_task may   *)
(* have taken it from the queue and not have been waited for.                *)
LostSignal(queue) == {queue} \cup {Tail(q) : q \in {queue} \ {<<>>}}

(* One wait: the batch, the signal and the health check, in this order, each *)
(* acting on what the previous one left.                                     *)
RunInstance(i) ==
  \E batch \in {"none", "end", "fail"}, signal \in {"none", "stop", "suspend"},
     health \in {"none", "fail"} :
    LET afterBatch == ChangeState(Snapshot(i), batch)
        refreshed  == batch = "end" /\ afterBatch.state = "running" /\ joined[i]
        after      == ChangeState(ChangeState(afterBatch, signal), health)
    IN /\ task[i] = "serving"
       /\ <<batch, signal, health>> # <<"none", "none", "none">>
       /\ signal = "none" \/ (control[i] # <<>> /\ signal = Head(control[i]))
       /\ \/ /\ ~refreshed \/ CanGetId
             /\ ran' = [ran EXCEPT ![i] = after.ran]
             /\ hasExc' = [hasExc EXCEPT ![i] = after.exc]
             /\ IF after.state \in Available /\ ~after.raised
                THEN /\ Goto(i, "serving", after.state, after.exc)
                     /\ control' = [control EXCEPT ![i] = IF signal = "none" THEN @ ELSE Tail(@)]
                ELSE /\ IF after.state = "suspended" \/ joined[i]
                        THEN Goto(i, Finally(after.state, TRUE), after.state, after.exc)
                        ELSE Goto(i, "settling", after.state, after.exc)
                     /\ IF signal = "none"
                        THEN \E q \in LostSignal(control[i]) : control' = [control EXCEPT ![i] = q]
                        ELSE control' = [control EXCEPT ![i] = Tail(@)]
             /\ UNCHANGED netErrors
          \/ /\ refreshed /\ RefreshMayFail
             /\ ran' = [ran EXCEPT ![i] = afterBatch.ran]
             /\ hasExc' = [hasExc EXCEPT ![i] = afterBatch.exc]
             /\ Goto(i, "leaving", afterBatch.state, afterBatch.exc)
             /\ control' = [control EXCEPT ![i] = IF signal = "none" THEN @ ELSE Tail(@)]
             /\ netErrors' = netErrors \cup {"refresh"}
       /\ UNCHANGED <<provider, agreement, joined, resumed, starts, runnerVars, netVars>>

----------------------------------------------------------------------------
(* The worker's finally clause                                               *)

(* remove_node: done, or refused by NetworkState, which is ignored.          *)
NodeRemoved(i) ==
  /\ task[i] = "leaving"
  /\ \/ CanGetId /\ provider[i] \in NetMembers /\ DropNode(provider[i])
     \/ ~CanGetId /\ UNCHANGED netVars
  /\ joined' = [joined EXCEPT ![i] = FALSE]
  /\ task' = [task EXCEPT ![i] = "settling"]
  /\ UNCHANGED <<state, ran, hasExc, control, provider, agreement, resumed, starts, runnerVars,
                 netErrors>>

(* Mutated form: worker_task lets the exception out, and spawn_instance      *)
(* tries again with the instance as it is.                                   *)
MutRemoveNodeFails(i) ==
  /\ task[i] = "leaving" /\ CanGetId
  /\ CallMayFail \/ provider[i] \notin NetMembers
  /\ task' = [task EXCEPT ![i] = "waiting"]
  /\ netErrors' = netErrors \cup {"remove"}
  /\ UNCHANGED <<state, ran, hasExc, control, provider, agreement, joined, resumed, starts,
                 runnerVars, netVars>>

(* The call fails, or the node has been removed by another instance on the   *)
(* same provider (KeyError): the service keeps its node.  worker_task        *)
(* releases the agreement.                                                   *)
RemoveNodeFails(i) ==
  /\ task[i] = "leaving" /\ CanGetId
  /\ CallMayFail \/ provider[i] \notin NetMembers
  /\ task' = [task EXCEPT ![i] = "settling"]
  /\ netErrors' = netErrors \cup {"remove"}
  /\ UNCHANGED <<state, ran, hasExc, control, provider, agreement, joined, resumed, starts,
                 runnerVars, netVars>>

(* accept_payments_for_agreement and release_agreement, activity.destroy.    *)
Settle(i) ==
  /\ task[i] = "settling"
  /\ agreement' = [agreement EXCEPT ![i] = "released"]
  /\ Ended(i, state[i], hasExc[i])
  /\ UNCHANGED <<ran, hasExc, control, provider, joined, resumed, starts, runnerVars, netErrors,
                 netVars>>

(* Mutated form: the loop of spawn_instance swallows the cancellation too.   *)
MutCancelTask(i) ==
  /\ i \in cancelled /\ task[i] # "done"
  /\ cancelled' = cancelled \ {i}
  /\ UNCHANGED <<instanceVars, runner, exit, netErrors, netVars>>

(* The cancellation of the task.  While the service is served, or joins the  *)
(* network, the worker's finally clause runs, and its `return` swallows the  *)
(* CancelledError; elsewhere the error ends worker and task.                 *)
CancelTask(i) ==
  /\ i \in cancelled /\ task[i] # "done"
  /\ cancelled' = cancelled \ {i}
  /\ IF task[i] \in {"joining", "serving"}
     THEN /\ task' = [task EXCEPT ![i] = IF joined[i] THEN "leaving" ELSE "settling"]
          /\ IF task[i] = "serving"
             THEN \E q \in LostSignal(control[i]) : control' = [control EXCEPT ![i] = q]
             ELSE UNCHANGED control
     ELSE task' = [task EXCEPT ![i] = "done"] /\ UNCHANGED control
  /\ UNCHANGED <<state, ran, hasExc, provider, agreement, joined, resumed, starts, runner, exit,
                 netErrors, netVars>>

----------------------------------------------------------------------------
(* The user: Cluster                                                         *)

Live == {i \in Instances : task[i] \notin {"idle", "done"}}

Signals(sig, set) ==
  control' = [i \in Instances |-> IF i \in set THEN Append(control[i], sig) ELSE control[i]]

(* stop_instance, suspend_instance; a signal after the end is never read.    *)
SignalInstance(i) ==
  /\ task[i] \notin {"idle", "done"} /\ exit = "no"
  /\ \A j \in Live : Len(control[j]) < MaxSignals
  /\ \E sig \in {"stop", "suspend"} : Signals(sig, {i})
  /\ UNCHANGED <<state, ran, hasExc, task, provider, agreement, joined, resumed, starts,
                 runnerVars, netErrors, netVars>>

(* Cluster.suspend.                                                          *)
SuspendCluster ==
  /\ runner = "active" /\ exit = "no"
  /\ \A i \in Live : Len(control[i]) < MaxSignals
  /\ runner' = "suspended"
  /\ Signals("suspend", Live)
  /\ UNCHANGED <<state, ran, hasExc, task, provider, agreement, joined, resumed, starts, exit,
                 cancelled, netErrors, netVars>>

(* Cluster._terminate: stop all instances and leave the runner.              *)
Terminate ==
  /\ exit = "no"
  /\ exit' = "waiting"
  /\ runner' = IF runner = "active" THEN "stopped" ELSE runner
  /\ Signals("stop", Live)
  /\ UNCHANGED <<state, ran, hasExc, task, provider, agreement, joined, resumed, starts,
                 cancelled, netErrors, netVars>>

(* __aexit__: ten seconds, then the tasks that still run are cancelled.      *)
ExitTimeout ==
  /\ exit = "waiting" /\ Live # {}
  /\ exit' = "cancelling"
  /\ cancelled' = Live
  /\ UNCHANGED <<instanceVars, runner, netErrors, netVars>>

(* ... and terminate_all, when the runner was stopped.                       *)
ExitDone ==
  /\ exit \in {"waiting", "cancelling"} /\ Live = {}
  /\ exit' = "done"
  /\ agreement' = [i \in Instances |-> IF runner = "stopped" /\ agreement[i] = "held"
                                        THEN "released" ELSE agreement[i]]
  /\ UNCHANGED <<state, ran, hasExc, control, task, provider, joined, resumed, starts, runner,
                 cancelled, netErrors, netVars>>

(* A service of another cluster on the same network and provider ends.       *)
OtherCluster ==
  /\ netErrors = {} /\ netState = "ready"
  /\ \E p \in NetMembers \ {Owner} : DropNode(p)
  /\ UNCHANGED <<instanceVars, runnerVars, netErrors>>

InstanceStep(i) ==
  \/ AddInstance(i) \/ AddExistingInstance(i) \/ LeaveLoop(i) \/ StartWorker(i)
  \/ ActivityFails(i) \/ NodeAdded(i) \/ AddNodeFails(i)
  \/ RunInstance(i) \/ NodeRemoved(i) \/ RemoveNodeFails(i) \/ Settle(i)
  \/ CancelTask(i) \/ SignalInstance(i)

ServicesNext ==
  \/ \E i \in Instances : InstanceStep(i)
  \/ OtherCluster \/ SuspendCluster \/ Terminate \/ ExitTimeout \/ ExitDone
  \/ NetworkStep /\ netErrors = {} /\ UNCHANGED <<instanceVars, runnerVars, netErrors>>

ServicesSpec == ServicesInit /\ [][ServicesNext]_serviceVars

(* Fairness: asyncio runs the tasks that can go on and delivers              *)
(* cancellations, a REST call returns or fails, the ten seconds pass.        *)
(* Nothing is assumed of handlers, batches, agreements or the user.          *)
ServicesFairness ==
  /\ WF_serviceVars(ExitTimeout) /\ WF_serviceVars(ExitDone)
  /\ \A i \in Instances :
       /\ WF_serviceVars(CancelTask(i)) /\ WF_serviceVars(LeaveLoop(i))
       /\ WF_serviceVars(NodeAdded(i) \/ AddNodeFails(i))
       /\ WF_serviceVars(NodeRemoved(i) \/ RemoveNodeFails(i))
       /\ WF_serviceVars(Settle(i))

ServicesFairSpec == ServicesSpec /\ ServicesFairness

----------------------------------------------------------------------------

(* A suspended instance can be resumed elsewhere: as long as its runner has  *)
(* not been stopped, the agreement it runs on is neither terminated nor      *)
(* released and it keeps its node (service_runner.py 521-535, 174-176), with *)
(* stop signals, cancellations and failing calls in any order.  Only a       *)
(* resumed instance whose activity cannot be fetched loses its agreement.    *)
SuspendedKeepsAgreement ==
  \A i \in Instances :
    state[i] = "suspended" /\ task[i] = "done" /\ runner # "stopped"
      => joined[i] /\ (agreement[i] = "held" \/ resumed[i])

(* "instance is bound to an activity and can be interacted with"             *)
(* (service_state.py 81-83) for the states of AVAILABLE.  It is not when the *)
(* worker was cut short, and the runner's exit and a call of the network     *)
(* that failed are the only ways to cut it short.                            *)
AvailableIsBound ==
  \A i \in Instances :
    state[i] \in Available /\ task[i] = "done" => exit # "no" \/ netErrors # {}

(* A worker for a new activity finds the service in `pending`: no handler is *)
(* resumed on an activity that never executed the ones before it, whichever  *)
(* exception ended the previous worker (service_runner.py 541-561 retries    *)
(* after an exception without a reset).                                      *)
WorkerStartsFresh ==
  [][\A i \in Instances :
       agreement'[i] = "held" /\ starts' # starts /\ task[i] # task'[i] /\ ~resumed[i]
         => state[i] = "pending"]_serviceVars

(* Leaving a cluster ends, although a cancelled worker swallows its          *)
(* CancelledError and its instance may be restarted (service_runner.py       *)
(* 198-241, 528-533).  A suspended runner never stops the loop of            *)
(* spawn_instance: there a resumed instance, whose visited_states are empty, *)
(* can be restarted by the cancellation and then keeps __aexit__ waiting.    *)
ExitCompletes ==
  exit = "waiting" /\ (runner = "stopped" \/ \A i \in Instances : ~resumed[i])
    ~> exit = "done"
=============================================================================
