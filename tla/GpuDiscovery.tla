---------------------------- MODULE GpuDiscovery ----------------------------
(***************************************************************************)
(* K8sWithGpuOperator (internal/discovery/k8s_with_gpu_operator.go): the   *)
(* capacity discoverer of a cluster whose nodes carry the GPU-operator     *)
(* labels, run against a cluster whose pods are scheduled, started,        *)
(* terminated and deleted meanwhile.  Discover and DiscoverUsage are each  *)
(* one action: the nodes, their labels and their allocatable resources are *)
(* constants of a run, so the node Lists of one call all return the same   *)
(* nodes and only the pod List reads state that changes.  Every List may   *)
(* fail, and then the call returns nil and an error.                       *)
(*                                                                         *)
(* The data is abstracted to what the properties tell apart: a vendor      *)
(* prefix, a node, a pod and a product label are model values; the memory *)
(* label, copied through unread, is left out; an absent allocatable or     *)
(* request is 0, which is what the code reads it as.                       *)
(***************************************************************************)
EXTENDS Integers, Sequences

CONSTANTS
  VendorOrder,   \* the vendors slice, in its order
  Models,        \* values of the <vendor>/gpu.product labels
  NoLabel,       \* a label that is not there
  NodeList,      \* the nodes of the cluster, in the order a node List returns them
  NodeProduct,   \* NodeProduct[n][v]: the <v>/gpu.product label of node n
  NodeAlloc,     \* NodeAlloc[n][v]: Status.Allocatable[<v>/gpu] of node n
  PodList,       \* the pods, in the order the pod List returns them
  PodSpec,       \* PodSpec[p].containers, .init: sequences of [Vendors -> Nat]
  Selectors      \* WVA_NODE_SELECTOR values: [mode |-> "unset" | "valid" | "invalid", nodes]

Vendors == {VendorOrder[i] : i \in DOMAIN VendorOrder}
Nodes == {NodeList[i] : i \in DOMAIN NodeList}
Pods == {PodList[i] : i \in DOMAIN PodList}
Requests == [Vendors -> Nat]
NoNode == "none"   \* pod.Spec.NodeName = ""

\* Every item appears once in the list.
Distinct(s) == \A i, j \in DOMAIN s : s[i] = s[j] => i = j

ASSUME VendorAssumption ==
  VendorOrder \in Seq(Vendors) /\ Len(VendorOrder) > 0 /\ Distinct(VendorOrder)
ASSUME NodeAssumption ==
  /\ NodeList \in Seq(Nodes) /\ Distinct(NodeList) /\ NoNode \notin Nodes
  /\ NoLabel \notin Models
  /\ NodeProduct \in [Nodes -> [Vendors -> Models \cup {NoLabel}]]
  /\ NodeAlloc \in [Nodes -> Requests]
ASSUME PodAssumption ==
  /\ PodList \in Seq(Pods) /\ Distinct(PodList)
  /\ PodSpec \in [Pods -> [containers : Seq(Requests), init : Seq(Requests)]]
ASSUME SelectorAssumption ==
  Selectors \subseteq [mode : {"unset", "valid", "invalid"}, nodes : SUBSET Nodes]

(* The two loops of the code over a list: total += x, and the running      *)
(* maximum from 0 (if x > max { max = x }), of f[1], ..., f[n].            *)
SumTo(f, n) ==
  LET acc[i \in 0..n] == IF i = 0 THEN 0 ELSE acc[i - 1] + f[i]
  IN  acc[n]
MaxTo(f, n) ==
  LET acc[i \in 0..n] == IF i = 0 THEN 0 ELSE IF f[i] > acc[i - 1] THEN f[i] ELSE acc[i - 1]
  IN  acc[n]
Phases == {"Pending", "Running", "Succeeded", "Failed"}
Terminated == {"Succeeded", "Failed"}

VARIABLES
  pods,         \* pods[p]: [node, phase]; phase "Deleted" once the object is gone
  discovered,   \* outcome of the last Discover: "none", "ok" or "error"
  inv,          \* its inventory: node -> (model -> count)
  usageState,   \* outcome of the last DiscoverUsage
  usage,        \* its usageByType: model -> count
  selector      \* os.Getenv("WVA_NODE_SELECTOR"), fixed when the process starts

vars == <<pods, discovered, inv, usageState, usage, selector>>

-----------------------------------------------------------------------------
(* The cluster reads. *)

HasProduct(n, v) == NodeProduct[n][v] # NoLabel
GpuNode(n) == \E v \in Vendors : HasProduct(n, v)

(* listGPUOperatorNodes: the user selector as-is, or the union over       *)
(* vendors of the nodes with a <vendor>/gpu.product label.  Keyed by name, *)
(* so a node listed for several vendors appears once.                      *)
ListGPUOperatorNodes ==
  IF selector.mode = "valid" THEN selector.nodes ELSE {n \in Nodes : GpuNode(n)}

(* The index in vendor order of the last vendor whose product label on    *)
(* node n is model m.                                                      *)
LastVendorIdx(n, m) ==
  CHOOSE i \in DOMAIN VendorOrder :
    /\ NodeProduct[n][VendorOrder[i]] = m
    /\ \A j \in DOMAIN VendorOrder : NodeProduct[n][VendorOrder[j]] = m => j <= i

(* Discover: for each listed node and each vendor whose product label it   *)
(* has, inv[node][model] = allocatable count; a later vendor with the same *)
(* model overwrites an earlier one.                                        *)
InventoryOf(listed) ==
  LET gpuNodes == {n \in listed : GpuNode(n)}
      models(n) == {NodeProduct[n][v] : v \in {w \in Vendors : HasProduct(n, w)}}
  IN  [n \in gpuNodes |-> [m \in models(n) |-> NodeAlloc[n][VendorOrder[LastVendorIdx(n, m)]]]]

(* The index in vendor order of the first vendor whose product label node  *)
(* n has.                                                                  *)
FirstVendorIdx(n) ==
  CHOOSE i \in DOMAIN VendorOrder :
    /\ HasProduct(n, VendorOrder[i])
    /\ \A j \in DOMAIN VendorOrder : HasProduct(n, VendorOrder[j]) => i <= j

(* Fault variant: the type map of every GPU node, the shard ignored.       *)
NodeGPUTypesUnsharded(listed) ==
  LET firstIdx(n) == FirstVendorIdx(n)
  IN  [n \in {n \in Nodes : GpuNode(n)} |-> NodeProduct[n][VendorOrder[firstIdx(n)]]]

(* discoverNodeGPUTypes: the product label of the first vendor, in vendor  *)
(* order, that the node has (the break).                                   *)
NodeGPUTypes(listed) ==
  LET firstIdx(n) == FirstVendorIdx(n)
  IN  [n \in {n \in listed : GpuNode(n)} |-> NodeProduct[n][VendorOrder[firstIdx(n)]]]

(* The GPUs of one container: its requests of every vendor, added up.      *)
ContainerGPUs(c) == SumTo([k \in DOMAIN VendorOrder |-> c[VendorOrder[k]]], Len(VendorOrder))

(* Fault variant: init containers added to the regular ones.              *)
GetPodGPURequestsInitAdded(p) ==
  LET spec == PodSpec[p]
      regularTotal == SumTo([i \in DOMAIN spec.containers |-> ContainerGPUs(spec.containers[i])],
                            Len(spec.containers))
      initMax == MaxTo([i \in DOMAIN spec.init |-> ContainerGPUs(spec.init[i])], Len(spec.init))
  IN  regularTotal + initMax

(* getPodGPURequests: max(sum over regular containers of all vendors'      *)
(* GPUs, max over init containers of each one's sum over vendors).         *)
GetPodGPURequests(p) ==
  LET spec == PodSpec[p]
      regularTotal == SumTo([i \in DOMAIN spec.containers |-> ContainerGPUs(spec.containers[i])],
                            Len(spec.containers))
      initMax == MaxTo([i \in DOMAIN spec.init |-> ContainerGPUs(spec.init[i])], Len(spec.init))
  IN  IF initMax > regularTotal THEN initMax ELSE regularTotal

(* The pods DiscoverUsage adds up: listed, scheduled, not terminated, on a *)
(* node that has a GPU type.                                               *)
CountedPods(types) ==
  {p \in Pods : /\ pods[p].phase \in Phases
                /\ pods[p].node # NoNode
                /\ pods[p].phase \notin Terminated
                /\ pods[p].node \in DOMAIN types}

(* What the loop adds to usageByType[m] for each pod of the list.          *)
Charge(types, m) ==
  [i \in DOMAIN PodList |->
     IF PodList[i] \in CountedPods(types) /\ types[pods[PodList[i]].node] = m
     THEN GetPodGPURequests(PodList[i]) ELSE 0]

(* Fault variant: the gpuCount > 0 guard dropped.                          *)
UsageByTypeWithZeros(types) ==
  LET counted == CountedPods(types)
  IN  [m \in {types[pods[p].node] : p \in counted} |-> SumTo(Charge(types, m), Len(PodList))]

(* DiscoverUsage's loop: usageByType[gpuType] += gpuCount when > 0, so a   *)
(* type has an entry only when some pod adds a positive count.             *)
UsageByType(types) ==
  LET counted == CountedPods(types)
      used == {types[pods[p].node] : p \in {q \in counted : GetPodGPURequests(q) > 0}}
  IN  [m \in used |-> SumTo(Charge(types, m), Len(PodList))]

-----------------------------------------------------------------------------
(* The discoverer's calls.  A failed List ends the call with nil, err;     *)
(* an invalid WVA_NODE_SELECTOR makes every node List fail.                *)

Init ==
  /\ pods = [p \in Pods |-> [node |-> NoNode, phase |-> "Pending"]]
  /\ discovered = "none" /\ inv = <<>>
  /\ usageState = "none" /\ usage = <<>>
  /\ selector \in Selectors

Discover ==
  /\ selector.mode # "invalid"
  /\ discovered' = "ok"
  /\ inv' = InventoryOf(ListGPUOperatorNodes)
  /\ UNCHANGED <<pods, usageState, usage, selector>>

DiscoverFails ==
  /\ discovered' = "error" /\ inv' = <<>>
  /\ UNCHANGED <<pods, usageState, usage, selector>>

DiscoverUsage ==
  /\ selector.mode # "invalid"
  /\ usageState' = "ok"
  /\ usage' = UsageByType(NodeGPUTypes(ListGPUOperatorNodes))
  /\ UNCHANGED <<pods, discovered, inv, selector>>

DiscoverUsageFails ==
  /\ usageState' = "error" /\ usage' = <<>>
  /\ UNCHANGED <<pods, discovered, inv, selector>>

-----------------------------------------------------------------------------
(* The cluster the discoverer reads: the scheduler binds a pending pod to  *)
(* a node whose allocatable GPUs of every vendor cover the effective       *)
(* requests (max of the init maximum and the regular sum, per resource) of *)
(* the pods already bound there and not terminated.                        *)

EffectiveRequest(p, v) ==
  LET spec == PodSpec[p]
      regular == SumTo([i \in DOMAIN spec.containers |-> spec.containers[i][v]],
                       Len(spec.containers))
      initMax == MaxTo([i \in DOMAIN spec.init |-> spec.init[i][v]], Len(spec.init))
  IN  IF initMax > regular THEN initMax ELSE regular

Holds(q, n) == pods[q].node = n /\ pods[q].phase \in Phases \ Terminated

\* The effective requests of resource v of the pods that hold node n.
HoldReq(n, v) ==
  [i \in DOMAIN PodList |-> IF Holds(PodList[i], n) THEN EffectiveRequest(PodList[i], v) ELSE 0]

Fits(p, n) ==
  \A v \in Vendors : SumTo(HoldReq(n, v), Len(PodList)) + EffectiveRequest(p, v) <= NodeAlloc[n][v]

Schedule(p, n) ==
  /\ pods[p] = [node |-> NoNode, phase |-> "Pending"]
  /\ Fits(p, n)
  /\ pods' = [pods EXCEPT ![p].node = n]
  /\ UNCHANGED <<discovered, inv, usageState, usage, selector>>

Start(p) ==
  /\ pods[p].node # NoNode /\ pods[p].phase = "Pending"
  /\ pods' = [pods EXCEPT ![p].phase = "Running"]
  /\ UNCHANGED <<discovered, inv, usageState, usage, selector>>

Terminate(p, ph) ==
  /\ pods[p].node # NoNode /\ pods[p].phase \in {"Pending", "Running"}
  /\ pods' = [pods EXCEPT ![p].phase = ph]
  /\ UNCHANGED <<discovered, inv, usageState, usage, selector>>

Delete(p) ==
  /\ pods[p].phase \in Phases
  /\ pods' = [pods EXCEPT ![p].phase = "Deleted"]
  /\ UNCHANGED <<discovered, inv, usageState, usage, selector>>

Next ==
  \/ Discover \/ DiscoverFails \/ DiscoverUsage \/ DiscoverUsageFails
  \/ \E p \in Pods :
       \/ \E n \in Nodes : Schedule(p, n)
       \/ Start(p)
       \/ \E ph \in Terminated : Terminate(p, ph)
       \/ Delete(p)

Spec == Init /\ [][Next]_vars

-----------------------------------------------------------------------------
(* Properties *)

TypeOK ==
  /\ pods \in [Pods -> [node : Nodes \cup {NoNode}, phase : Phases \cup {"Deleted"}]]
  /\ selector \in Selectors
  /\ discovered \in {"none", "ok", "error"} /\ usageState \in {"none", "ok", "error"}
  /\ DOMAIN inv \subseteq Nodes
  /\ \A n \in DOMAIN inv : DOMAIN inv[n] \subseteq Models /\ inv[n] \in [DOMAIN inv[n] -> Nat]
  /\ DOMAIN usage \subseteq Models /\ usage \in [DOMAIN usage -> Nat \ {0}]

(* The GPUs of a model that the inventory of the last Discover holds.      *)
Capacity(m) ==
  SumTo([j \in DOMAIN NodeList |->
           IF NodeList[j] \in DOMAIN inv /\ m \in DOMAIN inv[NodeList[j]]
           THEN inv[NodeList[j]][m] ELSE 0], Len(NodeList))

(***************************************************************************)
(* DiscoverUsage "returns a map of accelerator type to used GPU count":    *)
(* whatever the pods did between and around the two calls, the GPUs it     *)
(* reports in use of a model never exceed the GPUs of that model that      *)
(* Discover reports.  It rests on getPodGPURequests agreeing with the      *)
(* scheduler's effective request, on the terminated-pod filter, and on the *)
(* first-vendor GPU type of a node being the model its GPUs are.           *)
(***************************************************************************)
UsageWithinCapacity ==
  (discovered = "ok" /\ usageState = "ok") =>
    \A m \in DOMAIN usage : usage[m] <= Capacity(m)
=============================================================================
