--------------------------- MODULE MC_GpuDiscovery ---------------------------
(* Model-checking instances of GpuDiscovery: two vendors (nvidia.com,     *)
(* amd.com, in that order), two models and three nodes, one of them       *)
(* without GPUs.                                                          *)
EXTENDS GpuDiscovery

CONSTANTS v1, v2, m1, m2, n1, n2, n3, p1, p2, p3

MC_VendorOrder == <<v1, v2>>
MC_Models == {m1, m2}
MC_NodeList == <<n1, n2, n3>>
MC_PodList == <<p1, p2, p3>>
MC_Nodes == {n1, n2, n3}
MC_Pods == {p1, p2, p3}

Req(a, b) == [v \in {v1, v2} |-> IF v = v1 THEN a ELSE b]
NoGpus == [v \in {v1, v2} |-> NoLabel]

(* One vendor per node: n1 has one nvidia m1, n2 two amd m2, n3 none.     *)
MC_NodeProduct ==
  [n \in MC_Nodes |-> CASE n = n1 -> [NoGpus EXCEPT ![v1] = m1]
                        [] n = n2 -> [NoGpus EXCEPT ![v2] = m2]
                        [] OTHER  -> NoGpus]
MC_NodeAlloc ==
  [n \in MC_Nodes |-> CASE n = n1 -> Req(1, 0) [] n = n2 -> Req(0, 2) [] OTHER -> Req(0, 0)]

(* n1 carries both vendors' GPUs and labels: one m1 and one m2.           *)
MC_MixedProduct ==
  [n \in MC_Nodes |-> CASE n = n1 -> [v \in {v1, v2} |-> IF v = v1 THEN m1 ELSE m2]
                        [] n = n2 -> [NoGpus EXCEPT ![v2] = m2]
                        [] OTHER  -> NoGpus]
MC_MixedAlloc ==
  [n \in MC_Nodes |-> CASE n = n1 -> Req(1, 1) [] n = n2 -> Req(0, 2) [] OTHER -> Req(0, 0)]

(* p1 wants one nvidia GPU; p2 runs two amd containers (one GPU, none)    *)
(* after an init container that wants two; p3 wants no GPU.              *)
MC_PodSpec ==
  [p \in MC_Pods |->
     CASE p = p1 -> [containers |-> <<Req(1, 0)>>, init |-> <<>>]
       [] p = p2 -> [containers |-> <<Req(0, 1), Req(0, 0)>>, init |-> <<Req(0, 2)>>]
       [] OTHER  -> [containers |-> <<Req(0, 0)>>, init |-> <<>>]]
(* p2 wants one amd GPU and no init container.                            *)
MC_MixedPodSpec ==
  [p \in MC_Pods |->
     CASE p = p2 -> [containers |-> <<Req(0, 1)>>, init |-> <<>>]
       [] OTHER  -> [containers |-> <<Req(1, 0)>>, init |-> <<>>]]

MC_Unset == [mode |-> "unset", nodes |-> {}]
MC_Shard == [mode |-> "valid", nodes |-> {n1, n3}]
MC_Invalid == [mode |-> "invalid", nodes |-> {}]
\* Unset, a shard of n1 and n3 (the pods bound to n2 must then drop out of
\* the usage as n2 drops out of the inventory), and a selector that fails
\* to parse.
MC_Selectors == {MC_Unset, MC_Shard, MC_Invalid}
MC_UnsetOnly == {MC_Unset}
=============================================================================
