\* Single-vendor nodes; pods scheduled, started, terminated and deleted
\* around and between the two discovery calls.
CONSTANTS
  v1 = v1  v2 = v2  m1 = m1  m2 = m2  n1 = n1  n2 = n2  n3 = n3
  p1 = p1  p2 = p2  p3 = p3  NoLabel = NoLabel
  VendorOrder <- MC_VendorOrder
  Models <- MC_Models
  NodeList <- MC_NodeList
  PodList <- MC_PodList
  NodeProduct <- MC_NodeProduct
  NodeAlloc <- MC_NodeAlloc
  PodSpec <- MC_PodSpec
  Selectors <- MC_Selectors
SPECIFICATION Spec
INVARIANTS
  TypeOK
  UsageWithinCapacity
