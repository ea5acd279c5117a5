\* Node n1 carries one nvidia and one amd GPU with both product labels.
\* DiscoverUsage charges both to the first vendor's model.
CONSTANTS
  v1 = v1  v2 = v2  m1 = m1  m2 = m2  n1 = n1  n2 = n2  n3 = n3
  p1 = p1  p2 = p2  p3 = p3  NoLabel = NoLabel
  VendorOrder <- MC_VendorOrder
  Models <- MC_Models
  NodeList <- MC_NodeList
  PodList <- MC_PodList
  NodeProduct <- MC_MixedProduct
  NodeAlloc <- MC_MixedAlloc
  PodSpec <- MC_MixedPodSpec
  Selectors <- MC_UnsetOnly
SPECIFICATION Spec
INVARIANTS
  UsageWithinCapacity
