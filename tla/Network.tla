------------------------------ MODULE Network ------------------------------
(* A VPN between the requestor and its providers: yapapi/network.py.  The    *)
(* addresses of the network are 1..Addresses, in the order of its hosts().   *)
(* Calls of the REST API are awaited: an operation that makes one is the     *)
(* step up to the call; its reply is a step of the caller.                   *)
EXTENDS Naturals, FiniteSets

CONSTANTS NodeIds,   \* Golem ids: the providers and the owner
          Owner,     \* the requestor's id
          Addresses  \* how many hosts the network has

ASSUME OwnerAssumption == Owner \in NodeIds
ASSUME AddressesAssumption == Addresses \in Nat \ {0}

VARIABLES
  netState,  \* state of the NetworkState machine
  ownerIp,   \* _owner_ip
  nodes,     \* _nodes: the address of each node, 0 for an id that is no key
  hosts      \* _hosts: the addresses up to this one have left the iterator

netVars == <<netState, ownerIp, nodes, hosts>>

NetStates == {"initialized", "creating", "ready", "removing", "removed"}
Address == 1..Addresses

NetworkTypeOK ==
  /\ netState \in NetStates
  /\ ownerIp \in Address
  /\ nodes \in [NodeIds -> 0..Addresses]
  /\ hosts \in 0..Addresses

(* The transitions of NetworkState, and those that keep the state.           *)
NetTransitions == {<<"initialized", "creating">>, <<"creating", "ready">>,
                   <<"ready", "removing">>, <<"removing", "removed">>}
MoveNet(new) == <<netState, new>> \in NetTransitions /\ netState' = new
CanAddOwnerAddress == netState \in {"creating", "ready"}
CanAddNode == netState = "ready"
CanGetId == netState \in {"creating", "ready", "removing"}

NetMembers == {n \in NodeIds : nodes[n] # 0}

(* nodes_dict, the mapping sent to the providers when they deploy: a node    *)
(* per address.                                                              *)
NodesDict == [a \in {nodes[n] : n \in NetMembers} |-> CHOOSE n \in NetMembers : nodes[n] = a]
IpUnique(a) == a \notin DOMAIN NodesDict

(* Mutated form: the next host, taken or not.                                *)
MutFreeAddress == IF hosts = Addresses THEN 0 ELSE hosts + 1

(* _next_address until it is not taken; 0 when the hosts are exhausted.      *)
FreeAddress ==
  LET free == {a \in hosts + 1..Addresses : IpUnique(a)}
  IN IF free = {} THEN 0 ELSE CHOOSE a \in free : \A b \in free : a <= b

----------------------------------------------------------------------------

(* __init__: the owner takes the address it asked for, or the first host;    *)
(* deserialize: the nodes and the state of a network that exists, with the   *)
(* iterator at its start.                                                    *)
NewNetwork ==
  /\ netState = "initialized"
  /\ \/ ownerIp \in Address /\ hosts = 0
     \/ ownerIp = 1 /\ hosts = 1
  /\ nodes = [n \in NodeIds |-> 0]

DeserializedNetwork(saved) ==
  /\ netState = "ready"
  /\ ownerIp = saved[Owner]
  /\ nodes = saved
  /\ hosts = 0

(* create: the REST call, then add_owner_address and its own call, then the  *)
(* network is ready.                                                         *)
CreateNetwork ==
  /\ MoveNet("creating")
  /\ UNCHANGED <<ownerIp, nodes, hosts>>

AddOwnerAddress ==
  /\ CanAddOwnerAddress /\ nodes[Owner] = 0
  /\ IpUnique(ownerIp)
  /\ nodes' = [nodes EXCEPT ![Owner] = ownerIp]
  /\ UNCHANGED <<netState, ownerIp, hosts>>

NetworkReady ==
  /\ nodes[Owner] # 0
  /\ MoveNet("ready")
  /\ UNCHANGED <<ownerIp, nodes, hosts>>

(* add_node up to its REST call, with an address (0: none asked for).        *)
CanStoreNode(ip) ==
  /\ CanAddNode
  /\ IF ip = 0 THEN FreeAddress # 0 ELSE IpUnique(ip)

StoreNode(id, ip) ==
  /\ CanStoreNode(ip)
  /\ nodes' = [nodes EXCEPT ![id] = IF ip = 0 THEN FreeAddress ELSE ip]
  /\ hosts' = IF ip = 0 THEN FreeAddress ELSE hosts
  /\ UNCHANGED <<netState, ownerIp>>

(* add_node refused: NetworkState, an address in use, or none left.          *)
RefuseNode(ip) ==
  /\ ~CanStoreNode(ip)
  /\ hosts' = IF CanAddNode /\ ip = 0 THEN Addresses ELSE hosts
  /\ UNCHANGED <<netState, ownerIp, nodes>>

(* remove_node once its REST call has succeeded: a KeyError for an id that   *)
(* is no key, and the entry is deleted otherwise.                            *)
DropNode(id) == nodes' = [nodes EXCEPT ![id] = 0] /\ UNCHANGED <<netState, ownerIp, hosts>>

(* remove: the call, and its reply; a 404 is logged, and so is any other     *)
(* ApiException.                                                             *)
StopNetwork ==
  /\ MoveNet("removing")
  /\ UNCHANGED <<ownerIp, nodes, hosts>>

NetworkRemoved ==
  /\ CanGetId /\ MoveNet("removed")
  /\ UNCHANGED <<ownerIp, nodes, hosts>>

NetworkStep ==
  \/ CreateNetwork \/ AddOwnerAddress \/ NetworkReady
  \/ StopNetwork \/ NetworkRemoved

----------------------------------------------------------------------------

(* No two nodes of the network have the same address (network.py 217-220):   *)
(* nodes_dict, which every provider is given when it deploys, then names     *)
(* every node.                                                               *)
NodesHaveOwnAddress ==
  /\ \A m, n \in NetMembers : nodes[m] = nodes[n] => m = n
  /\ nodes[Owner] \in {0, ownerIp}
=============================================================================
