--------------------------- MODULE ServicesProofs ---------------------------
(* Theorems about Services and Network, for every set of instances and nodes *)
(* and every bound.  No property but NodesHaveOwnAddress is close to being   *)
(* inductive: what holds where an instance ends (suspended, or available)    *)
(* follows from what its task, its worker and the runner did before, which   *)
(* ServicesInv collects per instance.                                        *)
EXTENDS Services, SequenceTheorems, WellFoundedInduction, TLAPS

(* The parts of ServicesTypeOK *)
InstanceTypes ==
  /\ state \in [Instances -> ServiceStates] /\ ran \in [Instances -> BOOLEAN]
  /\ hasExc \in [Instances -> BOOLEAN] /\ task \in [Instances -> TaskStates]
  /\ provider \in [Instances -> Providers \cup {NoProvider}]
  /\ agreement \in [Instances -> {"none", "held", "released"}]
  /\ joined \in [Instances -> BOOLEAN] /\ resumed \in [Instances -> BOOLEAN]
RunnerTypes ==
  /\ starts \in 0..MaxStarts
  /\ runner \in {"active", "stopped", "suspended"}
  /\ exit \in {"no", "waiting", "cancelling", "done"}
  /\ cancelled \subseteq Instances
  /\ netErrors \subseteq {"add", "refresh", "remove"}

(* The queue of an instance has room for the stop signal of _terminate().    *)
Queue == Seq({"stop", "suspend"})
ControlOK ==
  /\ control \in [Instances -> Queue]
  /\ \A i \in Instances : Len(control[i]) <= IF exit = "no" THEN MaxSignals ELSE MaxSignals + 1

NetworkOK == NetworkTypeOK /\ NodesHaveOwnAddress

(* The loop of spawn_instance is left only by Cluster._terminate.            *)
RunnerOK == runner = "stopped" \/ cancelled # {} => exit # "no"

(* A resumed instance has a provider. *)
ResumedOK(i) == resumed[i] => provider[i] \in Providers

(* Only a resumed instance waits for its worker in another state: an        *)
(* instance that is tried again has been reset to pending.                   *)
StartOK(i) ==
  task[i] = "idle" \/ (task[i] = "waiting" /\ ~resumed[i]) => state[i] = "pending"
(* A worker at work has an agreement, and its service is in the network.     *)
ServingOK(i) ==
  /\ task[i] = "serving" => joined[i] /\ state[i] \in Available
  /\ task[i] \in {"joining", "serving", "leaving", "settling"} => agreement[i] = "held"
(* `suspended` is reached while the service is served, and its worker goes   *)
(* past the finally clause; it does not come back, unless it is resumed.     *)
SuspendedOK(i) ==
  state[i] = "suspended" =>
    /\ joined[i] /\ task[i] \in {"waiting", "done"}
    /\ ~resumed[i] => task[i] = "done" /\ (agreement[i] = "held" \/ runner = "stopped")
(* The exception information and visited_states that go with a state, for    *)
(* an instance that was not resumed: an error does not leave it `starting`,  *)
(* so a suspended one is never tried again.                                  *)
Sound(s) ==
  /\ s.state = "starting" => ~s.exc
  /\ s.state \in {"running", "stopping"} => s.ran
  /\ s.state = "suspended" => s.ran \/ ~s.exc
HistoryOK(i) == ~resumed[i] => Sound(Snapshot(i))
(* A worker that stops in an available state was cut short.                  *)
EndOK(i) ==
  task[i] \in {"leaving", "settling", "done"} /\ state[i] \in Available =>
    exit # "no" \/ netErrors # {}

InstanceOK(i) ==
  ResumedOK(i) /\ StartOK(i) /\ ServingOK(i) /\ SuspendedOK(i) /\ HistoryOK(i) /\ EndOK(i)
ServicesInv ==
  /\ InstanceTypes /\ RunnerTypes /\ ControlOK /\ NetworkOK /\ RunnerOK
  /\ \A i \in Instances : InstanceOK(i)

-----------------------------------------------------------------------------
(* The network *)

(* The order of the naturals, as a relation. *)
LEMMA LessWellFounded ==
  \E R : IsWellFoundedOn(R, Nat) /\ \A m, n \in Nat : <<n, m>> \in R <=> n < m
<1>1. \A m, n \in Nat : <<n, m>> \in OpToRel(<, Nat) <=> n < m
  BY DEF OpToRel
<1> QED
  BY <1>1, NatLessThanWellFounded, Zenon

(* A set of addresses has a first one. *)
LEMMA Least ==
  ASSUME NEW S, S \subseteq Nat, S # {}
  PROVE  \E m \in S : \A n \in S : m <= n
<1>1. PICK R : IsWellFoundedOn(R, Nat) /\ \A m, n \in Nat : <<n, m>> \in R <=> n < m
  BY LessWellFounded
<1>2. PICK m \in S : \A n \in S : ~ (<<n, m>> \in R)
  BY <1>1, WFMin
<1>3. \A n \in S : m \in Nat /\ n \in Nat /\ ~(n < m)
  BY <1>1, <1>2
<1> QED
  BY <1>3

(* nodes_dict names the addresses in use. *)
LEMMA UniqueFacts ==
  ASSUME NEW a
  PROVE  IpUnique(a) <=> \A n \in NetMembers : nodes[n] # a
  BY DEF IpUnique, NodesDict

(* _next_address returns an address that is not taken, or none. *)
LEMMA FreeAddressFacts ==
  ASSUME NetworkTypeOK
  PROVE  FreeAddress = 0 \/ (FreeAddress \in Address /\ IpUnique(FreeAddress))
<1> DEFINE free == {a \in hosts + 1..Addresses : IpUnique(a)}
<1>1. hosts \in Nat /\ Addresses \in Nat
  BY AddressesAssumption DEF NetworkTypeOK
<1>2. free \subseteq Nat /\ free \subseteq Address
  BY <1>1 DEF Address
<1> HIDE DEF free
<1>3. CASE free = {}
  BY <1>3 DEF FreeAddress, free
<1>4. CASE free # {}
  <2>1. \E a \in free : \A b \in free : a <= b
    BY <1>2, <1>4, Least
  <2>2. FreeAddress = CHOOSE a \in free : \A b \in free : a <= b
    BY <1>4 DEF FreeAddress, free
  <2>3. FreeAddress \in free
    BY <2>1, <2>2
  <2>4. IpUnique(FreeAddress)
    BY <2>3 DEF free
  <2> QED
    BY <1>2, <2>3, <2>4
<1> QED
  BY <1>3, <1>4

(* The operations of the network keep it sound. *)
LEMMA StoreNodeOK ==
  ASSUME NetworkOK, NEW id \in Providers, NEW ip \in 0..Addresses, StoreNode(id, ip)
  PROVE  NetworkOK'
<1>0. Addresses \in Nat
  BY AddressesAssumption
<1>1. PICK a \in Address : IpUnique(a) /\ nodes' = [nodes EXCEPT ![id] = a]
  <2>1. CASE ip = 0
    <3>1. FreeAddress \in Address /\ IpUnique(FreeAddress)
      BY <2>1, FreeAddressFacts DEF NetworkOK, StoreNode, CanStoreNode
    <3> QED
      BY <2>1, <3>1 DEF StoreNode
  <2>2. CASE ip # 0
    <3>1. ip \in Address /\ IpUnique(ip)
      BY <1>0, <2>2 DEF StoreNode, CanStoreNode, Address
    <3> QED
      BY <2>2, <3>1 DEF StoreNode
  <2> QED
    BY <2>1, <2>2
<1>2. hosts' \in 0..Addresses /\ netState' = netState /\ ownerIp' = ownerIp
  BY <1>0, FreeAddressFacts DEF NetworkOK, NetworkTypeOK, StoreNode, CanStoreNode, Address
<1>3. nodes' \in [NodeIds -> 0..Addresses] /\ nodes'[Owner] = nodes[Owner]
  BY <1>0, <1>1 DEF NetworkOK, NetworkTypeOK, Address, Providers
<1>4. NetworkTypeOK'
  BY <1>2, <1>3 DEF NetworkOK, NetworkTypeOK
<1>5. a # 0 /\ \A n \in NodeIds : nodes[n] # a
  BY <1>0, <1>1, UniqueFacts DEF NetMembers, Address
<1>6. \A n \in NodeIds : nodes'[n] = IF n = id THEN a ELSE nodes[n]
  BY <1>1 DEF NetworkOK, NetworkTypeOK
<1>7. \A m, n \in NetMembers' : nodes'[m] = nodes'[n] => m = n
  BY <1>5, <1>6 DEF NetworkOK, NodesHaveOwnAddress, NetMembers
<1> QED
  BY <1>2, <1>3, <1>4, <1>7 DEF NetworkOK, NodesHaveOwnAddress

LEMMA DropNodeOK ==
  ASSUME NetworkOK, NEW id \in Providers, DropNode(id)
  PROVE  NetworkOK'
<1>1. NetworkTypeOK' /\ nodes'[Owner] = nodes[Owner]
  BY AddressesAssumption DEF DropNode, NetworkOK, NetworkTypeOK, Providers
<1>2. \A n \in NodeIds : nodes'[n] \in {0, nodes[n]}
  BY DEF DropNode, NetworkOK, NetworkTypeOK
<1>3. \A n \in NetMembers' : n \in NetMembers /\ nodes'[n] = nodes[n]
  BY <1>2 DEF NetMembers
<1> QED
  BY <1>1, <1>3 DEF DropNode, NetworkOK, NodesHaveOwnAddress

LEMMA OtherNetworkOK ==
  ASSUME NetworkOK, NetworkStep \/ UNCHANGED netVars \/ \E ip \in 0..Addresses : RefuseNode(ip)
  PROVE  NetworkOK'
<1>0. Addresses \in Nat \ {0}
  BY AddressesAssumption
<1>1. CASE AddOwnerAddress
  <2>1. nodes' = [nodes EXCEPT ![Owner] = ownerIp] /\ \A n \in NetMembers : nodes[n] # ownerIp
    BY <1>1, UniqueFacts DEF AddOwnerAddress
  <2>2. NetworkTypeOK'
    <3>0. ownerIp \in 0..Addresses /\ nodes \in [NodeIds -> 0..Addresses]
      BY <1>0 DEF NetworkOK, NetworkTypeOK, Address
    <3>1. nodes' \in [NodeIds -> 0..Addresses]
      BY <2>1, <3>0
    <3> QED
      BY <1>1, <3>1 DEF AddOwnerAddress, NetworkOK, NetworkTypeOK
  <2>3. ownerIp # 0 /\ \A n \in NodeIds : nodes'[n] = IF n = Owner THEN ownerIp ELSE nodes[n]
    BY <1>0, <2>1 DEF NetworkOK, NetworkTypeOK, Address
  <2>4. nodes'[Owner] = ownerIp /\ ownerIp' = ownerIp
    BY <1>1, <2>3, OwnerAssumption DEF AddOwnerAddress
  <2>5. \A m, n \in NetMembers' : nodes'[m] = nodes'[n] => m = n
    BY <2>1, <2>3 DEF NetworkOK, NodesHaveOwnAddress, NetMembers
  <2> QED
    BY <2>2, <2>4, <2>5 DEF NetworkOK, NodesHaveOwnAddress
<1>2. CASE \/ CreateNetwork \/ NetworkReady \/ StopNetwork \/ NetworkRemoved
           \/ UNCHANGED netVars \/ \E ip \in 0..Addresses : RefuseNode(ip)
  <2>1. UNCHANGED <<nodes, ownerIp>> /\ netState' \in NetStates /\ hosts' \in 0..Addresses
    BY <1>0, <1>2
       DEF CreateNetwork, NetworkReady, StopNetwork, NetworkRemoved, RefuseNode, netVars,
           MoveNet, NetTransitions, NetStates, NetworkOK, NetworkTypeOK
  <2> QED
    BY <2>1 DEF NetworkOK, NetworkTypeOK, NodesHaveOwnAddress, NetMembers
<1> QED
  BY <1>1, <1>2 DEF NetworkStep

-----------------------------------------------------------------------------
(* The state machine of an instance *)

Snap == [state : ServiceStates, ran : BOOLEAN, exc : BOOLEAN, raised : BOOLEAN]
Event == {"none", "end", "fail", "stop", "suspend"}

LEMMA TransitionFacts ==
  ASSUME NEW event \in Event \ {"none"}, NEW t \in Transition(event)
  PROVE  /\ t[1] \in ServiceStates /\ t[2] \in ServiceStates \ {"pending"}
         /\ t[2] = "suspended" <=> event = "suspend"
         /\ t[1] \in Available \/ event # "suspend"
         /\ t[2] = "starting" <=> t[1] = "pending"
         /\ t[1] = "pending" => event = "end"
         /\ t[2] = "running" <=> t[1] = "starting" /\ event = "end"
         /\ t[2] = "stopping" => t[1] = "running"
         /\ t[1] # "suspended"
         /\ t[1] = "terminated" => t[2] = "terminated"
  BY DEF Transition, Event, ServiceStates, Available

(* Every event but a repeated start is allowed in an available state. *)
LEMMA TransitionExists ==
  ASSUME NEW event \in Event \ {"none"}, NEW s \in Available
  PROVE  \E t \in Transition(event) : t[1] = s
<1>1. CASE event = "end"
  <2>1. {<<"starting", "running">>, <<"running", "stopping">>, <<"stopping", "terminated">>}
          \subseteq Transition(event)
    BY <1>1 DEF Transition
  <2> QED
    BY <2>1 DEF Available
<1>2. CASE event \in {"fail", "stop"}
  <2>1. {<<"running", "stopping">>, <<"starting", "terminated">>, <<"stopping", "terminated">>}
          \subseteq Transition(event)
    BY <1>2 DEF Transition
  <2> QED
    BY <2>1 DEF Available
<1>3. CASE event = "suspend"
  <2>1. <<s, "suspended">> \in Transition(event)
    BY <1>3 DEF Transition
  <2> QED
    BY <2>1
<1> QED
  BY <1>1, <1>2, <1>3 DEF Event

(* The three ways through _change_state. *)
LEMMA ChangeCases ==
  ASSUME NEW s \in Snap, NEW event \in Event
  PROVE  \/ (event = "none" \/ s.raised) /\ ChangeState(s, event) = s
         \/ /\ event # "none" /\ ~s.raised /\ \A t \in Transition(event) : t[1] # s.state
            /\ ChangeState(s, event) = [s EXCEPT !.raised = TRUE]
         \/ /\ event # "none" /\ ~s.raised
            /\ \E t \in Transition(event) :
                 /\ t[1] = s.state
                 /\ ChangeState(s, event) =
                      [state |-> t[2], ran |-> s.ran \/ t[2] = "running", raised |-> FALSE,
                       exc |-> IF event \in {"end", "fail"} THEN event = "fail" ELSE s.exc]
<1> DEFINE next == {t \in Transition(event) : t[1] = s.state}
<1>1. CASE event = "none" \/ s.raised
  BY <1>1 DEF ChangeState
<1>2. CASE event # "none" /\ ~s.raised /\ next = {}
  BY <1>2 DEF ChangeState
<1>3. CASE event # "none" /\ ~s.raised /\ next # {}
  <2>1. (CHOOSE t \in next : TRUE) \in next
    BY <1>3
  <2>2. PICK t \in next : t = CHOOSE u \in next : TRUE
    BY <2>1
  <2> QED
    BY <1>3, <2>2 DEF ChangeState
<1> QED
  BY <1>1, <1>2, <1>3

LEMMA SnapType ==
  ASSUME NEW st \in ServiceStates, NEW hasRun \in BOOLEAN, NEW exc \in BOOLEAN
  PROVE  [state |-> st, ran |-> hasRun, raised |-> FALSE, exc |-> exc] \in Snap
  BY DEF Snap

(* What _change_state guarantees. *)
Changed(s, event, r) ==
  /\ r \in Snap
  /\ s.ran => r.ran
  /\ r.exc => r.ran = s.ran
  /\ r.raised => s.raised \/ (s.state \notin Available /\ r.state = s.state)
  /\ s.state # "pending" => r.state # "pending"
  /\ s.state \notin Available \cup {"pending"} => r.state = s.state
  /\ r.state = "suspended" => /\ s.state \in Available \cup {"suspended"}
                              /\ s.state = "suspended" \/ event = "suspend"
                              /\ r.exc = s.exc
  /\ s.state # "pending" /\ Sound(s) => Sound(r)

LEMMA ChangeFacts ==
  ASSUME NEW s \in Snap, NEW event \in Event, NEW r, r = ChangeState(s, event)
  PROVE  Changed(s, event, r)
<1> USE DEF Changed
<1>1. CASE r = s
  BY <1>1 DEF Snap
<1>2. CASE /\ event # "none" /\ ~s.raised /\ \A t \in Transition(event) : t[1] # s.state
           /\ r = [s EXCEPT !.raised = TRUE]
  <2>1. s.state \notin Available
    BY <1>2, TransitionExists
  <2> QED
    BY <1>2, <2>1 DEF Snap, Sound
<1>3. ASSUME NEW t \in Transition(event), t[1] = s.state, event # "none", ~s.raised,
             r = [state |-> t[2], ran |-> s.ran \/ t[2] = "running", raised |-> FALSE,
                  exc |-> IF event \in {"end", "fail"} THEN event = "fail" ELSE s.exc]
      PROVE  /\ r \in Snap
             /\ s.ran => r.ran
             /\ r.exc => r.ran = s.ran
             /\ ~r.raised
             /\ r.state # "pending"
             /\ s.state \notin Available \cup {"pending"} => r.state = s.state
             /\ r.state = "suspended" => /\ s.state \in Available \cup {"suspended"}
                                         /\ event = "suspend"
                                         /\ r.exc = s.exc
             /\ s.state # "pending" /\ Sound(s) => Sound(r)
  <2>1. /\ r.state = t[2] /\ r.ran = (s.ran \/ t[2] = "running") /\ ~r.raised
        /\ r.exc = IF event \in {"end", "fail"} THEN event = "fail" ELSE s.exc
    BY <1>3
  <2>2. /\ t[1] \in ServiceStates /\ t[2] \in ServiceStates \ {"pending"}
        /\ t[2] = "suspended" <=> event = "suspend"
        /\ t[1] \in Available \/ event # "suspend"
        /\ t[2] = "starting" <=> t[1] = "pending"
        /\ t[1] = "pending" => event = "end"
        /\ t[2] = "running" <=> t[1] = "starting" /\ event = "end"
        /\ t[2] = "stopping" => t[1] = "running"
        /\ t[1] # "suspended"
        /\ t[1] = "terminated" => t[2] = "terminated"
    BY <1>3, TransitionFacts
  <2>3. r \in Snap
    <3>1. s.ran \in BOOLEAN /\ s.exc \in BOOLEAN
      BY DEF Snap
    <3>2. (s.ran \/ t[2] = "running") \in BOOLEAN /\ (event = "fail") \in BOOLEAN
      OBVIOUS
    <3>3. (IF event \in {"end", "fail"} THEN event = "fail" ELSE s.exc) \in BOOLEAN
      BY <3>1, <3>2
    <3> QED
      BY <1>3, <2>2, <3>2, <3>3, SnapType, Zenon
  <2>4. s.state # "pending" /\ Sound(s) => Sound(r)
    BY <1>3, <2>1, <2>2 DEF Sound, Available
  <2>5. s.state \notin Available \cup {"pending"} => r.state = s.state
    BY <1>3, <2>1, <2>2 DEF Available, ServiceStates
  <2> QED
    <3>1. s.ran => r.ran
      BY <2>1
    <3>2. r.exc => r.ran = s.ran
      <4>1. CASE event \in {"end", "fail"}
        BY <2>1, <2>2, <4>1 DEF Snap
      <4>2. CASE event \notin {"end", "fail"}
        <5>1. t[2] # "running"
          BY <2>2, <4>2
        <5>2. s.ran \in BOOLEAN
          BY DEF Snap
        <5> QED
          BY <2>1, <5>1, <5>2, Zenon
      <4> QED
        BY <4>1, <4>2
    <3>3. r.state # "pending" /\ ~r.raised
      BY <2>1, <2>2
    <3>4. r.state = "suspended" => /\ s.state \in Available \cup {"suspended"}
                                   /\ event = "suspend"
                                   /\ r.exc = s.exc
      BY <1>3, <2>1, <2>2
    <3> QED
      BY <2>3, <2>4, <2>5, <3>1, <3>2, <3>3, <3>4
<1> QED
  BY <1>1, <1>2, <1>3, ChangeCases

(* One wait of _run_instance.                                                *)
LEMMA WaitFacts ==
  ASSUME NEW s \in Snap, s.state \in Available, ~s.raised,
         NEW batch \in {"none", "end", "fail"}, NEW signal \in {"none", "stop", "suspend"},
         NEW health \in {"none", "fail"},
         NEW b, b = ChangeState(s, batch), NEW c, c = ChangeState(b, signal),
         NEW after, after = ChangeState(c, health)
  PROVE  /\ b \in Snap /\ after \in Snap
         /\ b.state \notin {"pending", "suspended"} /\ after.state # "pending"
         /\ after.raised => after.state \notin Available
         /\ Sound(s) => Sound(b) /\ Sound(after)
         /\ Sound(s) /\ after.state = "suspended" /\ after.exc => s.ran
<1>1. batch \in Event /\ signal \in Event /\ health \in Event
  BY DEF Event
<1>a. Changed(s, batch, b)
  BY <1>1, ChangeFacts
<1>b. Changed(b, signal, c)
  BY <1>1, <1>a, ChangeFacts DEF Changed
<1>c. Changed(c, health, after)
  <2>1. c \in Snap /\ health \in Event
    BY <1>1, <1>b DEF Changed
  <2>2. after = ChangeState(c, health)
    OBVIOUS
  <2>3. ASSUME NEW x, x = ChangeState(c, health)
        PROVE Changed(c, health, x)
    BY <2>1, <2>3, ChangeFacts
  <2> QED
    BY <2>2, <2>3
<1>2. /\ b \in Snap /\ b.state \notin {"pending", "suspended"} /\ ~b.raised
      /\ b.exc => b.ran = s.ran
      /\ Sound(s) => Sound(b)
  BY <1>a DEF Available, Changed
<1>3. /\ c \in Snap /\ c.state # "pending"
      /\ c.raised => c.state \notin Available
      /\ c.state = "suspended" => b.state \in Available /\ c.exc = b.exc
      /\ Sound(b) => Sound(c)
  BY <1>2, <1>b DEF Changed
<1>4. /\ after \in Snap /\ after.state # "pending"
      /\ after.raised => c.raised \/ after.state \notin Available
      /\ c.state \notin Available => after.state = c.state
      /\ after.state = "suspended" => c.state = "suspended" /\ after.exc = c.exc
      /\ Sound(c) => Sound(after)
  BY <1>3, <1>c DEF Changed
<1>5. b.state \in Available /\ Sound(b) /\ b.exc => b.ran
  BY DEF Sound, Available
<1> QED
  BY <1>2, <1>3, <1>4, <1>5

-----------------------------------------------------------------------------
(* The steps of an instance *)

(* Where Goto leads: the finally clause and the loop of spawn_instance.      *)
Goes(i, pc, s, exc, t, st) ==
  /\ t \in TaskStates /\ st \in ServiceStates
  /\ task' = [task EXCEPT ![i] = t] /\ state' = [state EXCEPT ![i] = st]
  /\ pc # "kept" => t = pc /\ st = s
  /\ pc = "kept" => /\ t \in {"waiting", "done"} /\ st \in {s, "pending"}
                    /\ s = "suspended" => st = s
                    /\ t = "waiting" => exc /\ ~ran[i] /\ st \in {"pending", "suspended"}

LEMMA EndedFacts ==
  ASSUME NEW i \in Instances, NEW s \in ServiceStates, NEW exc \in BOOLEAN, Ended(i, s, exc)
  PROVE  \E t \in TaskStates, st \in ServiceStates : Goes(i, "kept", s, exc, t, st)
<1> DEFINE again == exc /\ ~ran[i]
           t == IF again /\ runner # "stopped" THEN "waiting" ELSE "done"
           st == IF again /\ s # "suspended" THEN "pending" ELSE s
<1>1. state' = [state EXCEPT ![i] = st] /\ task' = [task EXCEPT ![i] = t]
  BY DEF Ended
<1>2. t \in TaskStates /\ st \in ServiceStates
  BY DEF TaskStates, ServiceStates
<1>3. Goes(i, "kept", s, exc, t, st)
  BY <1>1, <1>2 DEF Goes
<1> QED
  BY <1>2, <1>3

LEMMA GotoFacts ==
  ASSUME NEW i \in Instances, NEW s \in ServiceStates, NEW exc \in BOOLEAN,
         NEW pc \in TaskStates \cup {"kept"}, Goto(i, pc, s, exc)
  PROVE  \E t \in TaskStates, st \in ServiceStates : Goes(i, pc, s, exc, t, st)
<1>1. CASE pc = "kept"
  BY <1>1, EndedFacts DEF Goto
<1>2. CASE pc # "kept"
  BY <1>2 DEF Goto, Goes
<1> QED
  BY <1>1, <1>2

(* A step of instance i leaves the others alone. *)
Alone(i) ==
  /\ \A j \in Instances \ {i} :
       /\ state'[j] = state[j] /\ ran'[j] = ran[j] /\ hasExc'[j] = hasExc[j]
       /\ task'[j] = task[j] /\ provider'[j] = provider[j]
       /\ agreement'[j] = agreement[j] /\ joined'[j] = joined[j] /\ resumed'[j] = resumed[j]
  /\ exit # "no" => exit' # "no"
  /\ runner = "stopped" => runner' = "stopped"
  /\ netErrors \subseteq netErrors'

LEMMA OneInstance ==
  ASSUME \A j \in Instances : InstanceOK(j), NEW i \in Instances, Alone(i), InstanceOK(i)'
  PROVE  \A j \in Instances : InstanceOK(j)'
<1> SUFFICES ASSUME NEW j \in Instances, j # i PROVE InstanceOK(j)'
  OBVIOUS
<1>1. InstanceOK(j)
  OBVIOUS
<1>2. /\ state'[j] = state[j] /\ ran'[j] = ran[j] /\ hasExc'[j] = hasExc[j]
      /\ task'[j] = task[j] /\ provider'[j] = provider[j]
      /\ agreement'[j] = agreement[j] /\ joined'[j] = joined[j] /\ resumed'[j] = resumed[j]
      /\ exit # "no" => exit' # "no"
      /\ runner = "stopped" => runner' = "stopped"
      /\ netErrors # {} => netErrors' # {}
  BY DEF Alone
<1>3. Snapshot(j)' = Snapshot(j)
  BY <1>2 DEF Snapshot
<1>4. HistoryOK(j)'
  BY <1>1, <1>2, <1>3 DEF InstanceOK, HistoryOK, Sound
<1> QED
  BY <1>1, <1>2, <1>4 DEF InstanceOK, ResumedOK, StartOK, ServingOK, SuspendedOK, EndOK

LEMMA SnapshotFacts ==
  ASSUME InstanceTypes, NEW i \in Instances
  PROVE  /\ Snapshot(i) \in Snap /\ Snapshot(i).state = state[i] /\ ~Snapshot(i).raised
         /\ Snapshot(i).ran = ran[i] /\ Snapshot(i).exc = hasExc[i]
  BY DEF InstanceTypes, Snapshot, Snap

(* Sound by the variables, now and after a step. *)
LEMMA SoundFields ==
  ASSUME NEW i \in Instances
  PROVE  Sound(Snapshot(i)) <=>
           /\ state[i] = "starting" => ~hasExc[i]
           /\ state[i] \in {"running", "stopping"} => ran[i]
           /\ state[i] = "suspended" => ran[i] \/ ~hasExc[i]
  BY DEF Sound, Snapshot
LEMMA SoundFieldsNext ==
  ASSUME NEW i \in Instances
  PROVE  Sound(Snapshot(i))' <=>
           /\ state'[i] = "starting" => ~hasExc'[i]
           /\ state'[i] \in {"running", "stopping"} => ran'[i]
           /\ state'[i] = "suspended" => ran'[i] \/ ~hasExc'[i]
  BY DEF Sound, Snapshot

LEMMA AddInstanceOK ==
  ASSUME ServicesInv, NEW i \in Instances, AddInstance(i)
  PROVE  InstanceTypes' /\ Alone(i) /\ InstanceOK(i)'
<1> USE DEF ServicesInv, InstanceTypes, AddInstance, runnerVars
<1>1. InstanceTypes'
  BY DEF TaskStates, ServiceStates
<1>2. Alone(i)
  BY DEF Alone
<1>3. InstanceOK(i)'
  BY SoundFields, SoundFieldsNext
     DEF RunnerOK, InstanceOK, ResumedOK, StartOK, ServingOK, SuspendedOK, EndOK, HistoryOK,
         TaskStates, Available
<1> QED
  BY <1>1, <1>2, <1>3

LEMMA AddExistingInstanceOK ==
  ASSUME ServicesInv, NEW i \in Instances, AddExistingInstance(i)
  PROVE  InstanceTypes' /\ Alone(i) /\ InstanceOK(i)'
<1> USE DEF ServicesInv, InstanceTypes, AddExistingInstance, runnerVars
<1>0. PICK p \in Providers, s \in {"running", "suspended"} :
        state' = [state EXCEPT ![i] = s] /\ provider' = [provider EXCEPT ![i] = p]
  BY DEF NetMembers, Providers
<1>1. InstanceTypes'
  BY <1>0 DEF TaskStates, ServiceStates
<1>2. Alone(i)
  BY <1>0 DEF Alone
<1>3. InstanceOK(i)'
  BY <1>0 DEF InstanceOK, ResumedOK, StartOK, ServingOK, SuspendedOK, EndOK, HistoryOK
<1> QED
  BY <1>1, <1>2, <1>3

LEMMA LeaveLoopOK ==
  ASSUME ServicesInv, NEW i \in Instances, LeaveLoop(i)
  PROVE  InstanceTypes' /\ Alone(i) /\ InstanceOK(i)'
<1> USE DEF ServicesInv, InstanceTypes, LeaveLoop, runnerVars
<1>1. InstanceTypes'
  BY DEF TaskStates, ServiceStates
<1>2. Alone(i)
  BY DEF Alone
<1>3. InstanceOK(i)'
  BY SoundFields, SoundFieldsNext
     DEF RunnerOK, InstanceOK, ResumedOK, StartOK, ServingOK, SuspendedOK, EndOK, HistoryOK,
         TaskStates, Available
<1> QED
  BY <1>1, <1>2, <1>3

LEMMA ActivityFailsOK ==
  ASSUME ServicesInv, NEW i \in Instances, ActivityFails(i)
  PROVE  InstanceTypes' /\ Alone(i) /\ InstanceOK(i)'
<1> USE DEF ServicesInv, InstanceTypes, ActivityFails, runnerVars, CallMayFail
<1>1. InstanceTypes'
  BY DEF TaskStates, ServiceStates
<1>2. Alone(i)
  BY DEF Alone
<1>3. InstanceOK(i)'
  BY SoundFields, SoundFieldsNext
     DEF RunnerOK, InstanceOK, ResumedOK, StartOK, ServingOK, SuspendedOK, EndOK, HistoryOK,
         TaskStates, Available
<1> QED
  BY <1>1, <1>2, <1>3

LEMMA AddNodeFailsOK ==
  ASSUME ServicesInv, NEW i \in Instances, AddNodeFails(i)
  PROVE  InstanceTypes' /\ Alone(i) /\ InstanceOK(i)'
<1> USE DEF ServicesInv, InstanceTypes, AddNodeFails, runnerVars, CallMayFail
<1>1. InstanceTypes'
  BY DEF TaskStates, ServiceStates
<1>2. Alone(i)
  BY DEF Alone
<1>3. InstanceOK(i)'
  BY SoundFields, SoundFieldsNext
     DEF RunnerOK, InstanceOK, ResumedOK, StartOK, ServingOK, SuspendedOK, EndOK, HistoryOK,
         TaskStates, Available
<1> QED
  BY <1>1, <1>2, <1>3

LEMMA NodeRemovedOK ==
  ASSUME ServicesInv, NEW i \in Instances, NodeRemoved(i)
  PROVE  InstanceTypes' /\ Alone(i) /\ InstanceOK(i)'
<1> USE DEF ServicesInv, InstanceTypes, NodeRemoved, runnerVars
<1>1. InstanceTypes'
  BY DEF TaskStates, ServiceStates
<1>2. Alone(i)
  BY DEF Alone
<1>3. InstanceOK(i)'
  BY SoundFields, SoundFieldsNext
     DEF RunnerOK, InstanceOK, ResumedOK, StartOK, ServingOK, SuspendedOK, EndOK, HistoryOK,
         TaskStates, Available
<1> QED
  BY <1>1, <1>2, <1>3

LEMMA RemoveNodeFailsOK ==
  ASSUME ServicesInv, NEW i \in Instances, RemoveNodeFails(i)
  PROVE  InstanceTypes' /\ Alone(i) /\ InstanceOK(i)'
<1> USE DEF ServicesInv, InstanceTypes, RemoveNodeFails, runnerVars, CallMayFail
<1>1. InstanceTypes'
  BY DEF TaskStates, ServiceStates
<1>2. Alone(i)
  BY DEF Alone
<1>3. InstanceOK(i)'
  BY SoundFields, SoundFieldsNext
     DEF RunnerOK, InstanceOK, ResumedOK, StartOK, ServingOK, SuspendedOK, EndOK, HistoryOK,
         TaskStates, Available
<1> QED
  BY <1>1, <1>2, <1>3

LEMMA CancelTaskOK ==
  ASSUME ServicesInv, NEW i \in Instances, CancelTask(i)
  PROVE  InstanceTypes' /\ Alone(i) /\ InstanceOK(i)'
<1> USE DEF ServicesInv, InstanceTypes, CancelTask, runnerVars
<1>1. InstanceTypes'
  BY DEF TaskStates, ServiceStates
<1>2. Alone(i)
  BY DEF Alone
<1>3. InstanceOK(i)'
  BY SoundFields, SoundFieldsNext
     DEF RunnerOK, InstanceOK, ResumedOK, StartOK, ServingOK, SuspendedOK, EndOK, HistoryOK,
         TaskStates, Available
<1> QED
  BY <1>1, <1>2, <1>3

LEMMA SignalInstanceOK ==
  ASSUME ServicesInv, NEW i \in Instances, SignalInstance(i)
  PROVE  InstanceTypes' /\ Alone(i) /\ InstanceOK(i)'
<1> USE DEF ServicesInv, InstanceTypes, SignalInstance, runnerVars
<1>1. InstanceTypes'
  BY DEF TaskStates, ServiceStates
<1>2. Alone(i)
  BY DEF Alone
<1>3. InstanceOK(i)'
  BY SoundFields, SoundFieldsNext
     DEF RunnerOK, InstanceOK, ResumedOK, StartOK, ServingOK, SuspendedOK, EndOK, HistoryOK,
         TaskStates, Available
<1> QED
  BY <1>1, <1>2, <1>3

LEMMA NodeAddedOK ==
  ASSUME ServicesInv, NEW i \in Instances, NodeAdded(i)
  PROVE  InstanceTypes' /\ Alone(i) /\ InstanceOK(i)'
<1> USE DEF ServicesInv, InstanceTypes, NodeAdded, runnerVars
<1>0. state[i] \in ServiceStates \ {"suspended"} /\ hasExc[i] \in BOOLEAN
  BY DEF InstanceOK, SuspendedOK
<1>1. /\ Serve(state[i]) \in {"serving", "leaving"}
      /\ Serve(state[i]) = "serving" => state[i] \in Available
  BY <1>0 DEF Serve, Finally
<1>2. PICK t \in TaskStates, st \in ServiceStates :
        Goes(i, Serve(state[i]), state[i], hasExc[i], t, st)
  <2>1. Serve(state[i]) \in TaskStates \cup {"kept"} /\ state[i] \in ServiceStates
    BY <1>0, <1>1 DEF TaskStates
  <2>2. Goto(i, Serve(state[i]), state[i], hasExc[i])
    OBVIOUS
  <2> QED
    BY <1>0, <2>1, <2>2, GotoFacts
<1>3. /\ t = Serve(state[i]) /\ st = state[i]
      /\ task' = [task EXCEPT ![i] = t] /\ state' = [state EXCEPT ![i] = st]
  BY <1>1, <1>2 DEF Goes
<1>5. state[i] \in Available /\ t = "leaving" => runner = "stopped"
  BY <1>3 DEF Serve, Finally
<1>6. InstanceTypes'
  BY <1>3
<1>7. Alone(i)
  BY <1>3 DEF Alone
<1>8. InstanceOK(i)'
  BY <1>0, <1>1, <1>3, <1>5, SoundFields, SoundFieldsNext
     DEF RunnerOK, InstanceOK, ResumedOK, StartOK, ServingOK, SuspendedOK, EndOK, HistoryOK
<1> QED
  BY <1>6, <1>7, <1>8

LEMMA SettleOK ==
  ASSUME ServicesInv, NEW i \in Instances, Settle(i)
  PROVE  InstanceTypes' /\ Alone(i) /\ InstanceOK(i)'
<1> USE DEF ServicesInv, InstanceTypes, Settle, runnerVars
<1>0. state[i] \in ServiceStates \ {"suspended"} /\ hasExc[i] \in BOOLEAN
  BY DEF InstanceOK, SuspendedOK
<1>1. PICK t \in TaskStates, st \in ServiceStates : Goes(i, "kept", state[i], hasExc[i], t, st)
  BY <1>0, EndedFacts
<1>2. /\ task' = [task EXCEPT ![i] = t] /\ state' = [state EXCEPT ![i] = st]
      /\ t \in {"waiting", "done"} /\ st \in {state[i], "pending"}
      /\ t = "waiting" => st \in {"pending", "suspended"}
  BY <1>1 DEF Goes
<1>6. InstanceTypes'
  BY <1>2
<1>7. Alone(i)
  BY <1>2 DEF Alone
<1>8. InstanceOK(i)'
  BY <1>0, <1>2, SoundFields, SoundFieldsNext
     DEF RunnerOK, InstanceOK, ResumedOK, StartOK, ServingOK, SuspendedOK, EndOK, HistoryOK,
         Available
<1> QED
  BY <1>6, <1>7, <1>8

(* Serving begins, or is skipped; a suspended instance is left as it is. *)
LEMMA ServeFacts ==
  ASSUME NEW s \in ServiceStates, NEW pc, pc = Serve(s)
  PROVE  /\ pc \in {"serving", "leaving", "kept"}
         /\ pc = "serving" => s \in Available
         /\ pc = "kept" <=> s = "suspended"
         /\ pc = "leaving" => s \notin Available \/ runner = "stopped"
  BY DEF Serve, Finally, Available

LEMMA Starts ==
  ASSUME NEW s \in Snap, s.state = "pending", ~s.raised, NEW r, r = ChangeState(s, "end")
  PROVE  r.state = "starting" /\ ~r.exc
<1> DEFINE next == {t \in Transition("end") : t[1] = s.state}
<1>1. next # {} /\ \A t \in next : t[2] = "starting"
  <2>1. <<"pending", "starting">> \in Transition("end")
    BY DEF Transition
  <2>2. \A t \in Transition("end") : t[1] = "pending" => t[2] = "starting"
    BY DEF Transition
  <2> QED
    BY <2>1, <2>2
<1>2. (CHOOSE t \in next : TRUE)[2] = "starting"
  BY <1>1
<1>3. r = [state |-> "starting", ran |-> s.ran, raised |-> FALSE, exc |-> FALSE]
  <2>1. s.ran = (s.ran \/ "starting" = "running")
    BY DEF Snap
  <2> HIDE DEF next
  <2>2. next # {} /\ (CHOOSE t \in next : TRUE)[2] = "starting"
    BY <1>1, <1>2
  <2>3. r = [state |-> "starting", ran |-> s.ran \/ "starting" = "running", raised |-> FALSE,
             exc |-> "end" = "fail"]
    BY <2>2 DEF ChangeState, next
  <2> QED
    BY <2>1, <2>3
<1> QED
  BY <1>3

LEMMA StartWorkerOK ==
  ASSUME ServicesInv, NEW i \in Instances, StartWorker(i)
  PROVE  InstanceTypes' /\ Alone(i) /\ InstanceOK(i)'
<1> USE DEF ServicesInv, InstanceTypes, runnerVars
<1> DEFINE s == IF state[i] = "pending" THEN ChangeState(Snapshot(i), "end") ELSE Snapshot(i)
           pc == Serve(s.state)
<1>0. Snapshot(i) \in Snap /\ Snapshot(i).state = state[i] /\ Snapshot(i).exc = hasExc[i]
  BY SnapshotFacts
<1>1. /\ s \in Snap
      /\ state[i] = "pending" => s.state = "starting" /\ ~s.exc
      /\ state[i] # "pending" => s.state = state[i] /\ s.exc = hasExc[i]
  <2>1. CASE state[i] = "pending"
    <3>3. Snapshot(i).state = "pending" /\ ~Snapshot(i).raised
      BY <2>1, SnapshotFacts
    <3>4. s = ChangeState(Snapshot(i), "end")
      BY <2>1
    <3> HIDE DEF s
    <3>5. s \in Snap
      BY <1>0, <3>4, ChangeFacts DEF Event, Changed
    <3>6. s.state = "starting" /\ ~s.exc
      BY <1>0, <3>3, <3>4, Starts
    <3> QED
      BY <2>1, <3>5, <3>6
  <2>2. CASE state[i] # "pending"
    BY <1>0, <2>2
  <2> QED
    BY <2>1, <2>2
<1>2. /\ task[i] = "waiting"
      /\ agreement' = [agreement EXCEPT ![i] = "held"]
      /\ hasExc' = [hasExc EXCEPT ![i] = s.exc]
      /\ UNCHANGED <<ran, control, joined, resumed, runnerVars>>
  BY DEF StartWorker
<1>3. \E on \in Providers : provider' = [provider EXCEPT ![i] = on]
  BY DEF StartWorker, InstanceOK, ResumedOK
<1>4. \/ joined[i] /\ Goto(i, pc, s.state, s.exc) /\ UNCHANGED netErrors
      \/ /\ ~joined[i] /\ state' = [state EXCEPT ![i] = s.state]
         /\ \/ task' = [task EXCEPT ![i] = "joining"] /\ UNCHANGED netErrors
            \/ task' = [task EXCEPT ![i] = "settling"] /\ netErrors' = netErrors \cup {"add"}
  BY DEF StartWorker
<1>5. s.state \in ServiceStates /\ s.exc \in BOOLEAN
  BY <1>1 DEF Snap
<1> HIDE DEF s
<1>6. /\ pc \in {"serving", "leaving", "kept"}
      /\ pc = "serving" => s.state \in Available
      /\ pc = "kept" <=> s.state = "suspended"
      /\ pc = "leaving" => s.state \notin Available \/ runner = "stopped"
  BY <1>5, ServeFacts
<1> HIDE DEF pc
<1>7. PICK t \in TaskStates, st \in ServiceStates :
        /\ task' = [task EXCEPT ![i] = t] /\ state' = [state EXCEPT ![i] = st]
        /\ \/ /\ joined[i] /\ pc # "kept" /\ t = pc /\ st = s.state /\ netErrors' = netErrors
           \/ /\ joined[i] /\ pc = "kept" /\ t \in {"waiting", "done"} /\ st = s.state
              /\ netErrors' = netErrors
           \/ ~joined[i] /\ st = s.state /\ t = "joining" /\ netErrors' = netErrors
           \/ /\ ~joined[i] /\ st = s.state /\ t = "settling"
              /\ netErrors' = netErrors \cup {"add"}
  <2>1. CASE joined[i] /\ Goto(i, pc, s.state, s.exc) /\ UNCHANGED netErrors
    <3>1. PICK t \in TaskStates, st \in ServiceStates : Goes(i, pc, s.state, s.exc, t, st)
      <4>1. pc \in TaskStates \cup {"kept"}
        BY <1>6 DEF TaskStates
      <4> QED
        BY <1>5, <2>1, <4>1, GotoFacts, Zenon
    <3> QED
      BY <1>6, <2>1, <3>1 DEF Goes
  <2>2. CASE ~(joined[i] /\ Goto(i, pc, s.state, s.exc) /\ UNCHANGED netErrors)
    BY <1>4, <1>5, <2>2 DEF TaskStates
  <2> QED
    BY <2>1, <2>2
<1>8. InstanceTypes'
  BY <1>2, <1>3, <1>5, <1>7
<1>9. Alone(i)
  BY <1>2, <1>3, <1>7 DEF Alone
<1>10. HistoryOK(i)'
  <2>1. ~resumed[i] => st = "starting" /\ ~s.exc
    BY <1>1, <1>2, <1>7 DEF InstanceOK, StartOK
  <2>2. state'[i] = st /\ hasExc'[i] = s.exc /\ resumed'[i] = resumed[i]
    BY <1>2, <1>7
  <2> QED
    BY <2>1, <2>2, SoundFieldsNext DEF HistoryOK
<1>11. SuspendedOK(i)' /\ StartOK(i)'
  <2>1. ~resumed[i] => st = "starting"
    BY <1>1, <1>2, <1>7 DEF InstanceOK, StartOK
  <2>2. st = "suspended" => joined[i]
    BY <1>1, <1>7 DEF InstanceOK, SuspendedOK
  <2>3. state'[i] = st /\ task'[i] = t /\ resumed'[i] = resumed[i] /\ joined'[i] = joined[i]
    BY <1>2, <1>7
  <2> QED
    BY <1>2, <1>6, <1>7, <2>1, <2>2, <2>3 DEF SuspendedOK, StartOK
<1>12. ResumedOK(i)' /\ ServingOK(i)' /\ EndOK(i)'
  BY <1>2, <1>3, <1>6, <1>7 DEF RunnerOK, ResumedOK, ServingOK, EndOK, Available
<1> QED
  BY <1>8, <1>9, <1>10, <1>11, <1>12 DEF InstanceOK

(* A wait leaves the instance as r and goes to pc, in the task state t and   *)
(* the service state st, with the queue q.                                   *)
Runs(i, r, pc, t, st, q) ==
  /\ task[i] = "serving"
  /\ r.state # "pending"
  /\ Sound(Snapshot(i)) => Sound(r)
  /\ Sound(Snapshot(i)) /\ r.state = "suspended" /\ r.exc => ran[i]
  /\ pc = "serving" => r.state \in Available
  /\ pc = "kept" <=> r.state = "suspended"
  /\ pc = "leaving" => r.state \notin Available \/ netErrors' # {}
  /\ ran' = [ran EXCEPT ![i] = r.ran] /\ hasExc' = [hasExc EXCEPT ![i] = r.exc]
  /\ Goes(i, pc, r.state, r.exc, t, st)
  /\ control' = [control EXCEPT ![i] = q] /\ Len(q) <= Len(control[i])
  /\ netErrors' = netErrors \/ netErrors' = netErrors \cup {"refresh"}
  /\ UNCHANGED <<provider, agreement, joined, resumed, starts, runnerVars, netVars>>

(* One wait: the instance goes on, or its worker is left as it then is.      *)
LEMMA RunMoves ==
  ASSUME ServicesInv, NEW i \in Instances, RunInstance(i)
  PROVE  \E r \in Snap, pc \in {"serving", "kept", "leaving"},
            t \in TaskStates, st \in ServiceStates, q \in Queue : Runs(i, r, pc, t, st, q)
<1>0. /\ task[i] = "serving"
      /\ UNCHANGED <<provider, agreement, joined, resumed, starts, runnerVars, netVars>>
  BY DEF RunInstance
<1>1. joined[i] /\ state[i] \in Available /\ control[i] \in Queue
  BY <1>0 DEF ServicesInv, InstanceOK, ServingOK, ControlOK
<1>2. Snapshot(i) \in Snap /\ Snapshot(i).state \in Available /\ ~Snapshot(i).raised
      /\ Snapshot(i).ran = ran[i]
  BY <1>1, SnapshotFacts DEF ServicesInv
<1>3. PICK batch \in {"none", "end", "fail"}, signal \in {"none", "stop", "suspend"},
     health \in {"none", "fail"} :
    LET afterBatch == ChangeState(Snapshot(i), batch)
        refreshed  == batch = "end" /\ afterBatch.state = "running" /\ joined[i]
        after      == ChangeState(ChangeState(afterBatch, signal), health)
    IN /\ task[i] = "serving"
       /\ <<batch, signal, health>> # <<"none", "none", "none">>
       /\ signal = "none" \/ (control[i] # <<>> /\ signal = Head(control[i]))
       /\ \/ /\ ~refreshed \/ CanGetId
             /\ ran' = [ran EXCEPT ![i] = after.ran]
             /\ hasExc' = [hasExc EXCEPT ![i] = after.exc]
             /\ IF after.state \in Available /\ ~after.raised
                THEN /\ Goto(i, "serving", after.state, after.exc)
                     /\ control' = [control EXCEPT ![i] = IF signal = "none" THEN @ ELSE Tail(@)]
                ELSE /\ IF after.state = "suspended" \/ joined[i]
                        THEN Goto(i, Finally(after.state, TRUE), after.state, after.exc)
                        ELSE Goto(i, "settling", after.state, after.exc)
                     /\ IF signal = "none"
                        THEN \E q \in LostSignal(control[i]) : control' = [control EXCEPT ![i] = q]
                        ELSE control' = [control EXCEPT ![i] = Tail(@)]
             /\ UNCHANGED netErrors
          \/ /\ refreshed /\ RefreshMayFail
             /\ ran' = [ran EXCEPT ![i] = afterBatch.ran]
             /\ hasExc' = [hasExc EXCEPT ![i] = afterBatch.exc]
             /\ Goto(i, "leaving", afterBatch.state, afterBatch.exc)
             /\ control' = [control EXCEPT ![i] = IF signal = "none" THEN @ ELSE Tail(@)]
             /\ netErrors' = netErrors \cup {"refresh"}
       /\ UNCHANGED <<provider, agreement, joined, resumed, starts, runnerVars, netVars>>
  BY DEF RunInstance
<1>4. PICK b : b = ChangeState(Snapshot(i), batch)
  OBVIOUS
<1>5. PICK c : c = ChangeState(b, signal)
  OBVIOUS
<1>6. PICK r : r = ChangeState(c, health)
  OBVIOUS
<1>7. /\ b \in Snap /\ r \in Snap
      /\ b.state \notin {"pending", "suspended"} /\ r.state # "pending"
      /\ r.raised => r.state \notin Available
      /\ Sound(Snapshot(i)) => Sound(b) /\ Sound(r)
      /\ Sound(Snapshot(i)) /\ r.state = "suspended" /\ r.exc => ran[i]
  BY <1>2, <1>4, <1>5, <1>6, WaitFacts
<1>8. /\ b.state \in ServiceStates /\ b.exc \in BOOLEAN
      /\ r.state \in ServiceStates /\ r.exc \in BOOLEAN
  BY <1>7 DEF Snap
<1>9. \E q \in Queue : control' = [control EXCEPT ![i] = q] /\ Len(q) <= Len(control[i])
  <2>1. control[i] # <<>> =>
          Tail(control[i]) \in Queue /\ Len(Tail(control[i])) <= Len(control[i])
    BY <1>1, HeadTailProperties DEF Queue
  <2>2. Len(control[i]) <= Len(control[i])
    BY <1>1, LenProperties DEF Queue
  <2>3. \/ control' = [control EXCEPT ![i] = control[i]]
        \/ control[i] # <<>> /\ control' = [control EXCEPT ![i] = Tail(control[i])]
    BY <1>3 DEF LostSignal
  <2> QED
    BY <1>1, <2>1, <2>2, <2>3
<1>10. CASE /\ ran' = [ran EXCEPT ![i] = r.ran] /\ hasExc' = [hasExc EXCEPT ![i] = r.exc]
            /\ r.state \in Available /\ Goto(i, "serving", r.state, r.exc)
            /\ UNCHANGED netErrors
  <2>1. PICK t \in TaskStates, st \in ServiceStates : Goes(i, "serving", r.state, r.exc, t, st)
    BY <1>8, <1>10, GotoFacts DEF TaskStates
  <2>2. r.state # "suspended"
    BY <1>10 DEF Available
  <2> QED
    BY <1>0, <1>7, <1>9, <1>10, <2>1, <2>2 DEF Runs
<1>11. CASE /\ ran' = [ran EXCEPT ![i] = r.ran] /\ hasExc' = [hasExc EXCEPT ![i] = r.exc]
            /\ r.state \notin Available /\ Goto(i, Finally(r.state, TRUE), r.state, r.exc)
            /\ UNCHANGED netErrors
  <2>1. PICK pc : pc = Finally(r.state, TRUE)
    OBVIOUS
  <2>2. pc \in {"kept", "leaving"} /\ (pc = "kept" <=> r.state = "suspended")
    BY <2>1 DEF Finally
  <2>3. PICK t \in TaskStates, st \in ServiceStates : Goes(i, pc, r.state, r.exc, t, st)
    <3>1. Goto(i, pc, r.state, r.exc)
      BY <1>11, <2>1
    <3>2. pc \in TaskStates \cup {"kept"}
      BY <2>2 DEF TaskStates
    <3> QED
      BY <1>8, <3>1, <3>2, GotoFacts
  <2> QED
    BY <1>0, <1>7, <1>9, <1>11, <2>2, <2>3 DEF Runs
<1>12. CASE /\ ran' = [ran EXCEPT ![i] = b.ran] /\ hasExc' = [hasExc EXCEPT ![i] = b.exc]
            /\ b.state = "running" /\ batch = "end" /\ Goto(i, "leaving", b.state, b.exc)
            /\ netErrors' = netErrors \cup {"refresh"}
  <2>1. PICK t \in TaskStates, st \in ServiceStates : Goes(i, "leaving", b.state, b.exc, t, st)
    BY <1>8, <1>12, GotoFacts DEF TaskStates
  <2> QED
    BY <1>0, <1>7, <1>9, <1>12, <2>1 DEF Runs
<1> QED
  <2>1. \/ /\ ran' = [ran EXCEPT ![i] = r.ran] /\ hasExc' = [hasExc EXCEPT ![i] = r.exc]
           /\ r.state \in Available /\ Goto(i, "serving", r.state, r.exc)
           /\ UNCHANGED netErrors
        \/ /\ ran' = [ran EXCEPT ![i] = r.ran] /\ hasExc' = [hasExc EXCEPT ![i] = r.exc]
           /\ r.state \notin Available /\ Goto(i, Finally(r.state, TRUE), r.state, r.exc)
           /\ UNCHANGED netErrors
        \/ /\ ran' = [ran EXCEPT ![i] = b.ran] /\ hasExc' = [hasExc EXCEPT ![i] = b.exc]
           /\ b.state = "running" /\ batch = "end" /\ Goto(i, "leaving", b.state, b.exc)
           /\ netErrors' = netErrors \cup {"refresh"}
    BY <1>1, <1>3, <1>4, <1>5, <1>6, <1>7
  <2> QED
    BY <1>10, <1>11, <1>12, <2>1

LEMMA RunInstanceOK ==
  ASSUME ServicesInv, NEW i \in Instances, RunInstance(i)
  PROVE  InstanceTypes' /\ Alone(i) /\ InstanceOK(i)'
<1> USE DEF ServicesInv, InstanceTypes, runnerVars
<1>1. PICK r \in Snap, pc \in {"serving", "kept", "leaving"},
           t \in TaskStates, st \in ServiceStates, q \in Queue : Runs(i, r, pc, t, st, q)
  BY RunMoves
<1> USE DEF Runs
<1>2. /\ task' = [task EXCEPT ![i] = t] /\ state' = [state EXCEPT ![i] = st]
      /\ st = r.state
      /\ pc # "kept" => t = pc
      /\ pc = "kept" => t \in {"waiting", "done"} /\ (t = "waiting" => r.exc /\ ~ran[i])
  BY <1>1 DEF Goes
<1>3. r.ran \in BOOLEAN /\ r.exc \in BOOLEAN
  BY DEF Snap
<1>4. InstanceTypes'
  BY <1>1, <1>2, <1>3
<1>5. Alone(i)
  BY <1>1, <1>2 DEF Alone
<1>6. joined[i] /\ agreement[i] = "held" /\ (~resumed[i] => Sound(Snapshot(i)))
  BY <1>1 DEF InstanceOK, ServingOK, HistoryOK
<1>7. /\ state'[i] = r.state /\ task'[i] = t /\ ran'[i] = r.ran /\ hasExc'[i] = r.exc
      /\ resumed'[i] = resumed[i] /\ joined'[i] /\ agreement'[i] = "held"
  BY <1>1, <1>2, <1>6
<1>8. HistoryOK(i)'
  BY <1>1, <1>6, <1>7, SoundFieldsNext DEF HistoryOK, Sound
<1>9. SuspendedOK(i)' /\ StartOK(i)'
  BY <1>1, <1>2, <1>6, <1>7 DEF SuspendedOK, StartOK
<1>10. ServingOK(i)' /\ EndOK(i)'
  BY <1>1, <1>2, <1>7 DEF ServingOK, EndOK, Available
<1>11. ResumedOK(i)'
  BY <1>1 DEF InstanceOK, ResumedOK
<1> QED
  BY <1>4, <1>5, <1>8, <1>9, <1>10, <1>11 DEF InstanceOK

-----------------------------------------------------------------------------
(* The network, the runner and the control queues *)

LEMMA NetworkKept ==
  ASSUME ServicesInv, [ServicesNext]_serviceVars
  PROVE  NetworkOK'
<1>0. NetworkOK
  BY DEF ServicesInv
<1>1. CASE UNCHANGED netVars
  BY <1>0, <1>1, OtherNetworkOK
<1>2. CASE NetworkStep
  BY <1>0, <1>2, OtherNetworkOK
<1>3. ASSUME NEW i \in Instances, StartWorker(i)
      PROVE  NetworkOK'
  <2>1. PICK on \in Providers, ip \in {0, Addresses} :
          StoreNode(on, ip) \/ RefuseNode(ip) \/ UNCHANGED netVars
    BY <1>3 DEF StartWorker, ServicesInv, InstanceOK, ResumedOK
  <2>2. ip \in 0..Addresses
    BY AddressesAssumption
  <2> QED
    BY <1>0, <2>1, <2>2, StoreNodeOK, OtherNetworkOK
<1>4. ASSUME NEW i \in Instances, NodeRemoved(i)
      PROVE  NetworkOK'
  <2>1. CASE provider[i] \in NetMembers /\ DropNode(provider[i])
    <3>1. provider[i] \in Providers
      BY <2>1, NoProviderAssumption DEF NetMembers, ServicesInv, InstanceTypes
    <3> QED
      BY <1>0, <2>1, <3>1, DropNodeOK
  <2> QED
    BY <1>1, <1>4, <2>1 DEF NodeRemoved
<1>5. CASE OtherCluster
  <2>1. PICK p \in Providers : DropNode(p)
    BY <1>5 DEF OtherCluster, NetMembers, Providers
  <2> QED
    BY <1>0, <2>1, DropNodeOK
<1>6. ASSUME NEW i \in Instances, InstanceStep(i)
      PROVE  NetworkOK'
  <2>1. CASE \/ AddInstance(i) \/ AddExistingInstance(i) \/ LeaveLoop(i) \/ ActivityFails(i)
             \/ NodeAdded(i) \/ AddNodeFails(i) \/ RemoveNodeFails(i) \/ Settle(i)
             \/ CancelTask(i) \/ SignalInstance(i)
    <3>1. UNCHANGED netVars
      BY <2>1
         DEF AddInstance, AddExistingInstance, LeaveLoop, ActivityFails, NodeAdded,
             AddNodeFails, RemoveNodeFails, Settle, CancelTask, SignalInstance
    <3> QED
      BY <1>1, <3>1
  <2>2. CASE RunInstance(i)
    BY <1>1, <2>2, RunMoves DEF Runs
  <2> QED
    BY <1>3, <1>4, <1>6, <2>1, <2>2 DEF InstanceStep
<1>7. CASE SuspendCluster \/ Terminate \/ ExitTimeout \/ ExitDone
  <2>1. UNCHANGED netVars
    BY <1>7 DEF SuspendCluster, Terminate, ExitTimeout, ExitDone
  <2> QED
    BY <1>1, <2>1
<1> QED
  BY <1>1, <1>2, <1>5, <1>6, <1>7 DEF ServicesNext, serviceVars

(* A control queue has room for each signal. *)
LEMMA QueueFacts ==
  ASSUME NEW q \in Queue
  PROVE  /\ Len(q) \in Nat
         /\ \A sig \in {"stop", "suspend"} :
              Append(q, sig) \in Queue /\ Len(Append(q, sig)) = Len(q) + 1
         /\ q # <<>> => Tail(q) \in Queue /\ Len(Tail(q)) <= Len(q)
  BY AppendProperties, HeadTailProperties, LenProperties DEF Queue

LEMMA SignalsFacts ==
  ASSUME ControlOK, NEW set, NEW sig \in {"stop", "suspend"}, Signals(sig, set)
  PROVE  /\ control' \in [Instances -> Queue]
         /\ \A i \in Instances :
              /\ Len(control[i]) \in Nat
              /\ Len(control'[i]) = IF i \in set THEN Len(control[i]) + 1 ELSE Len(control[i])
<1>1. \A i \in Instances : control[i] \in Queue
  BY DEF ControlOK
<1>2. control' = [i \in Instances |-> IF i \in set THEN Append(control[i], sig) ELSE control[i]]
  BY DEF Signals
<1> QED
  BY <1>1, <1>2, QueueFacts

LEMMA ControlKept ==
  ASSUME ServicesInv, [ServicesNext]_serviceVars
  PROVE  ControlOK'
<1> USE DEF ServicesInv, runnerVars, instanceVars
<1>0. MaxSignals \in Nat /\ control \in [Instances -> Queue]
      /\ \A i \in Instances : Len(control[i]) \in Nat
  BY MaxSignalsAssumption, QueueFacts DEF ControlOK
<1>1. CASE UNCHANGED control /\ (exit # "no" => exit' # "no")
  BY <1>0, <1>1 DEF ControlOK
<1>2. ASSUME NEW i \in Instances, NEW q \in Queue, control' = [control EXCEPT ![i] = q],
             Len(q) <= Len(control[i]), UNCHANGED exit
      PROVE  ControlOK'
  <2>1. Len(q) \in Nat
    BY QueueFacts
  <2> QED
    BY <1>0, <1>2, <2>1 DEF ControlOK
<1>3. ASSUME NEW i \in Instances, RunInstance(i)
      PROVE  ControlOK'
  BY <1>2, <1>3, RunMoves DEF Runs
<1>4. ASSUME NEW i \in Instances, CancelTask(i)
      PROVE  ControlOK'
  <2>1. \/ UNCHANGED control
        \/ \E q \in LostSignal(control[i]) : control' = [control EXCEPT ![i] = q]
    BY <1>4 DEF CancelTask
  <2>2. \A q \in LostSignal(control[i]) : q \in Queue /\ Len(q) <= Len(control[i])
    <3>1. \A q \in LostSignal(control[i]) :
            q = control[i] \/ (control[i] # <<>> /\ q = Tail(control[i]))
      BY DEF LostSignal
    <3>2. Len(control[i]) <= Len(control[i]) /\ control[i] \in Queue
      BY <1>0
    <3> QED
      BY <3>1, <3>2, QueueFacts
  <2>3. UNCHANGED exit
    BY <1>4 DEF CancelTask
  <2> QED
    BY <1>1, <1>2, <2>1, <2>2, <2>3
<1>5. ASSUME NEW i \in Instances, SignalInstance(i)
      PROVE  ControlOK'
  <2>1. PICK sig \in {"stop", "suspend"} : Signals(sig, {i})
    BY <1>5 DEF SignalInstance
  <2>2. exit = "no" /\ UNCHANGED exit /\ Len(control[i]) < MaxSignals
    BY <1>5 DEF SignalInstance, Live
  <2> QED
    BY <1>0, <2>1, <2>2, SignalsFacts DEF ControlOK
<1>6. CASE SuspendCluster
  <2>1. Signals("suspend", Live) /\ UNCHANGED exit /\ exit = "no"
        /\ \A i \in Live : Len(control[i]) < MaxSignals
    BY <1>6 DEF SuspendCluster
  <2> QED
    BY <1>0, <2>1, SignalsFacts DEF ControlOK
<1>7. CASE Terminate
  <2>1. Signals("stop", Live) /\ exit = "no" /\ exit' = "waiting"
    BY <1>7 DEF Terminate
  <2> QED
    BY <1>0, <2>1, SignalsFacts DEF ControlOK
<1>8. ASSUME NEW i \in Instances, InstanceStep(i)
      PROVE  ControlOK'
  <2>1. CASE \/ AddInstance(i) \/ AddExistingInstance(i) \/ LeaveLoop(i) \/ ActivityFails(i)
             \/ StartWorker(i) \/ NodeAdded(i) \/ AddNodeFails(i) \/ NodeRemoved(i)
             \/ RemoveNodeFails(i) \/ Settle(i)
    <3>1. UNCHANGED <<control, exit>>
      BY <2>1
         DEF AddInstance, AddExistingInstance, LeaveLoop, ActivityFails, NodeAdded,
             StartWorker, AddNodeFails, NodeRemoved, RemoveNodeFails, Settle
    <3> QED
      BY <1>1, <3>1
  <2> QED
    BY <1>3, <1>4, <1>5, <1>8, <2>1 DEF InstanceStep
<1>9. CASE OtherCluster \/ ExitTimeout \/ ExitDone \/ UNCHANGED serviceVars
           \/ UNCHANGED <<instanceVars, runnerVars, netErrors>>
  <2>1. UNCHANGED control /\ (exit # "no" => exit' # "no")
    BY <1>9 DEF OtherCluster, ExitTimeout, ExitDone, serviceVars
  <2> QED
    BY <1>1, <2>1
<1> QED
  BY <1>6, <1>7, <1>8, <1>9 DEF ServicesNext

LEMMA RunnerKept ==
  ASSUME ServicesInv, [ServicesNext]_serviceVars
  PROVE  RunnerTypes' /\ RunnerOK'
<1> USE DEF ServicesInv, RunnerTypes, RunnerOK, runnerVars, instanceVars
<1>0. MaxStarts \in Nat
  BY MaxStartsAssumption
<1>1. ASSUME NEW i \in Instances,
             \/ AddInstance(i) \/ AddExistingInstance(i) \/ LeaveLoop(i) \/ ActivityFails(i)
             \/ StartWorker(i) \/ NodeAdded(i) \/ AddNodeFails(i)
      PROVE  RunnerTypes' /\ RunnerOK'
  BY <1>0, <1>1
     DEF AddInstance, AddExistingInstance, LeaveLoop, ActivityFails, StartWorker, NodeAdded,
         AddNodeFails
<1>2. ASSUME NEW i \in Instances,
             \/ NodeRemoved(i) \/ RemoveNodeFails(i) \/ Settle(i) \/ CancelTask(i)
             \/ SignalInstance(i)
      PROVE  RunnerTypes' /\ RunnerOK'
  BY <1>2 DEF NodeRemoved, RemoveNodeFails, Settle, CancelTask, SignalInstance
<1>4. ASSUME NEW i \in Instances, RunInstance(i)
      PROVE  RunnerTypes' /\ RunnerOK'
  <2>1. /\ UNCHANGED <<starts, runnerVars>>
        /\ netErrors' \in {netErrors, netErrors \cup {"refresh"}}
    BY <1>4, RunMoves DEF Runs
  <2> QED
    BY <2>1
<1>3. CASE \/ OtherCluster \/ SuspendCluster \/ Terminate \/ ExitTimeout \/ ExitDone
           \/ UNCHANGED serviceVars \/ UNCHANGED <<instanceVars, runnerVars, netErrors>>
  BY <1>3
     DEF OtherCluster, SuspendCluster, Terminate, ExitTimeout, ExitDone, Live, serviceVars
<1> QED
  BY <1>1, <1>2, <1>3, <1>4 DEF ServicesNext, InstanceStep

LEMMA InstancesKept ==
  ASSUME ServicesInv, [ServicesNext]_serviceVars
  PROVE  InstanceTypes' /\ \A i \in Instances : InstanceOK(i)'
<1>0. InstanceTypes /\ \A i \in Instances : InstanceOK(i)
  BY DEF ServicesInv
<1>1. ASSUME NEW i \in Instances, InstanceStep(i)
      PROVE  InstanceTypes' /\ \A j \in Instances : InstanceOK(j)'
  <2>1. InstanceTypes' /\ Alone(i) /\ InstanceOK(i)'
    BY <1>1, AddInstanceOK, AddExistingInstanceOK, LeaveLoopOK, StartWorkerOK,
       ActivityFailsOK, NodeAddedOK, AddNodeFailsOK, RunInstanceOK, NodeRemovedOK,
       RemoveNodeFailsOK, SettleOK, CancelTaskOK, SignalInstanceOK
       DEF InstanceStep
  <2> QED
    BY <1>0, <2>1, OneInstance
<1>2. ASSUME UNCHANGED <<state, ran, hasExc, task, provider, joined, resumed>>,
             agreement' \in [Instances -> {"none", "held", "released"}],
             \A i \in Instances :
               agreement'[i] = agreement[i] \/ (runner = "stopped" /\ task[i] \in {"idle", "done"}),
             exit # "no" => exit' # "no", runner = "stopped" => runner' = "stopped",
             netErrors \subseteq netErrors'
      PROVE  InstanceTypes' /\ \A i \in Instances : InstanceOK(i)'
  <2>1. InstanceTypes'
    BY <1>0, <1>2 DEF InstanceTypes
  <2>2. ASSUME NEW i \in Instances
        PROVE  InstanceOK(i)'
    <3>1. Snapshot(i)' = Snapshot(i)
      BY <1>2 DEF Snapshot
    <3>2. HistoryOK(i)'
      BY <1>0, <1>2, <3>1 DEF InstanceOK, HistoryOK, Sound
    <3> QED
      BY <1>0, <1>2, <3>2 DEF InstanceOK, ResumedOK, StartOK, ServingOK, SuspendedOK, EndOK
  <2> QED
    BY <2>1, <2>2
<1>3. CASE OtherCluster \/ SuspendCluster \/ Terminate \/ ExitTimeout \/ UNCHANGED serviceVars
           \/ UNCHANGED <<instanceVars, runnerVars, netErrors>>
  <2>1. /\ UNCHANGED <<state, ran, hasExc, task, provider, joined, resumed>>
        /\ UNCHANGED <<agreement, netErrors>>
        /\ exit # "no" => exit' # "no"
        /\ runner = "stopped" => runner' = "stopped"
    BY <1>3
       DEF OtherCluster, SuspendCluster, Terminate, ExitTimeout, serviceVars, instanceVars,
           runnerVars
  <2>2. agreement' \in [Instances -> {"none", "held", "released"}]
    BY <1>0, <2>1 DEF InstanceTypes
  <2>3. /\ \A i \in Instances :
             agreement'[i] = agreement[i] \/ (runner = "stopped" /\ task[i] \in {"idle", "done"})
        /\ netErrors \subseteq netErrors'
    BY <2>1
  <2> QED
    BY <1>2, <2>1, <2>2, <2>3
<1>4. CASE ExitDone
  <2>1. \A i \in Instances : task[i] \in {"idle", "done"}
    BY <1>4 DEF ExitDone, Live
  <2>2. agreement' = [i \in Instances |-> IF runner = "stopped" /\ agreement[i] = "held"
                                          THEN "released" ELSE agreement[i]]
    BY <1>4 DEF ExitDone
  <2>3. /\ UNCHANGED <<state, ran, hasExc, task, provider, joined, resumed, netErrors, runner>>
        /\ exit' # "no"
    BY <1>4 DEF ExitDone
  <2>4. agreement' \in [Instances -> {"none", "held", "released"}]
    BY <1>0, <2>2 DEF InstanceTypes
  <2> QED
    BY <1>2, <2>1, <2>2, <2>3, <2>4
<1> QED
  BY <1>1, <1>3, <1>4 DEF ServicesNext

-----------------------------------------------------------------------------
(* Theorems of the specification *)

LEMMA ServicesStart == ServicesInit => ServicesInv
<1> SUFFICES ASSUME ServicesInit PROVE ServicesInv
  OBVIOUS
<1>0. MaxSignals \in Nat /\ MaxStarts \in Nat /\ Addresses \in Nat \ {0}
  BY MaxSignalsAssumption, MaxStartsAssumption, AddressesAssumption
<1>1. InstanceTypes /\ RunnerTypes /\ RunnerOK
  BY <1>0 DEF ServicesInit, InstanceTypes, RunnerTypes, RunnerOK, ServiceStates, TaskStates
<1>2. ControlOK
  <2>1. <<>> \in Queue /\ Len(<<>>) = 0
    BY DEF Queue
  <2> QED
    BY <1>0, <2>1 DEF ServicesInit, ControlOK
<1>3. NetworkTypeOK
  BY <1>0 DEF ServicesInit, NetworkTypeOK, NewNetwork, DeserializedNetwork, NetStates
<1>4. NodesHaveOwnAddress
  <2>1. CASE NewNetwork
    BY <2>1, OwnerAssumption DEF NewNetwork, NodesHaveOwnAddress, NetMembers
  <2>2. CASE DeserializedNetwork([n \in NodeIds |-> IF n = Owner THEN 1
                                                    ELSE IF n = SavedProvider THEN 2 ELSE 0])
    BY <2>2, OwnerAssumption DEF DeserializedNetwork, NodesHaveOwnAddress, NetMembers
  <2> QED
    BY <2>1, <2>2 DEF ServicesInit
<1>5. ASSUME NEW i \in Instances PROVE InstanceOK(i)
  BY DEF ServicesInit, InstanceOK, ResumedOK, StartOK, ServingOK, SuspendedOK, HistoryOK,
         EndOK, Sound, Snapshot, Available
<1> QED
  BY <1>1, <1>2, <1>3, <1>4, <1>5 DEF ServicesInv, NetworkOK

(* Whatever signals, failing calls and cancellations do, in any order, the   *)
(* network, the runner and every instance agree with each other as           *)
(* ServicesInv says.                                                         *)
THEOREM ServicesInvariant == ServicesSpec => []ServicesInv
<1>1. ServicesInv /\ [ServicesNext]_serviceVars => ServicesInv'
  BY NetworkKept, ControlKept, RunnerKept, InstancesKept DEF ServicesInv
<1> QED
  BY <1>1, ServicesStart, PTL DEF ServicesSpec

(* The variables of the services and of their network keep their types; in   *)
(* particular no control queue grows beyond the signals of the user and the  *)
(* stop signal of _terminate().                                              *)
THEOREM TypeCorrect == ServicesSpec => []ServicesTypeOK
<1>1. ServicesInv => ServicesTypeOK
  <2>1. MaxSignals \in Nat
    BY MaxSignalsAssumption
  <2>2. ServicesInv =>
          \A i \in Instances : control[i] \in Queue /\ Len(control[i]) <= MaxSignals + 1
    BY <2>1, QueueFacts DEF ServicesInv, ControlOK
  <2> QED
    BY <2>2 DEF ServicesInv, InstanceTypes, RunnerTypes, NetworkOK, ServicesTypeOK, Queue
<1> QED
  BY <1>1, ServicesInvariant, PTL

(* No two nodes of a network have the same address, whether they ask for     *)
(* one, take the next host or come from a serialized network, and the owner  *)
(* has its own.                                                              *)
THEOREM OwnAddress == ServicesSpec => []NodesHaveOwnAddress
<1>1. ServicesInv => NodesHaveOwnAddress
  BY DEF ServicesInv, NetworkOK
<1> QED
  BY <1>1, ServicesInvariant, PTL

(* As long as the runner has not been stopped, the worker of a suspended     *)
(* instance has neither released its agreement nor removed its node.         *)
THEOREM SuspendedCanResume == ServicesSpec => []SuspendedKeepsAgreement
<1>1. ServicesInv => SuspendedKeepsAgreement
  BY DEF ServicesInv, InstanceOK, SuspendedOK, SuspendedKeepsAgreement
<1> QED
  BY <1>1, ServicesInvariant, PTL

(* The worker of an instance ends in `starting`, `running` or `stopping`     *)
(* only when the runner is left or a call of the network has failed.         *)
THEOREM AvailableBound == ServicesSpec => []AvailableIsBound
<1>1. ServicesInv => AvailableIsBound
  BY DEF ServicesInv, InstanceOK, EndOK, AvailableIsBound
<1> QED
  BY <1>1, ServicesInvariant, PTL

LEMMA StartsFresh ==
  ASSUME ServicesInv, [ServicesNext]_serviceVars, NEW i \in Instances,
         agreement'[i] = "held", starts' # starts, task[i] # task'[i], ~resumed[i]
  PROVE  state[i] = "pending"
<1>1. ASSUME NEW j \in Instances, StartWorker(j)
      PROVE  j = i /\ task[i] = "waiting"
  <2>1. task[j] = "waiting" /\ (j # i => task'[i] = task[i])
    BY <1>1, StartWorkerOK DEF StartWorker, Alone
  <2> QED
    BY <2>1
<1>2. ASSUME NEW j \in Instances, ActivityFails(j)
      PROVE  FALSE
  BY <1>2 DEF ActivityFails, ServicesInv, InstanceTypes
<1>3. \E j \in Instances : StartWorker(j) \/ ActivityFails(j)
  <2>1. ASSUME NEW j \in Instances, InstanceStep(j), ~StartWorker(j), ~ActivityFails(j)
        PROVE  UNCHANGED starts
    <3>1. CASE RunInstance(j)
      BY <3>1, RunMoves DEF Runs
    <3>2. CASE ~RunInstance(j)
      BY <2>1, <3>2
         DEF InstanceStep, AddInstance, AddExistingInstance, LeaveLoop, NodeAdded,
             AddNodeFails, NodeRemoved, RemoveNodeFails, Settle, CancelTask, SignalInstance
    <3> QED
      BY <3>1, <3>2
  <2>2. CASE \/ OtherCluster \/ SuspendCluster \/ Terminate \/ ExitTimeout \/ ExitDone
             \/ UNCHANGED serviceVars \/ UNCHANGED <<instanceVars, runnerVars, netErrors>>
    BY <2>2
       DEF OtherCluster, SuspendCluster, Terminate, ExitTimeout, ExitDone, serviceVars,
           instanceVars
  <2> QED
    BY <2>1, <2>2 DEF ServicesNext
<1> QED
  BY <1>1, <1>2, <1>3 DEF ServicesInv, InstanceOK, StartOK

(* A worker with a new activity is given to an instance in `pending`,        *)
(* whatever exception ended the worker before it.                            *)
THEOREM StartsInPending == ServicesSpec => WorkerStartsFresh
<1>1. ServicesInv /\ [ServicesNext]_serviceVars =>
        [\A i \in Instances :
           agreement'[i] = "held" /\ starts' # starts /\ task[i] # task'[i] /\ ~resumed[i]
             => state[i] = "pending"]_serviceVars
  BY StartsFresh
<1> QED
  BY <1>1, ServicesInvariant, PTL DEF ServicesSpec, WorkerStartsFresh
=============================================================================
