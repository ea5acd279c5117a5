\* A queue of capacity one: MaxBatchSize = 1 and MaxQueueToBatchRatio = 1.
CONSTANTS
  K = 1
  ServRates <- MC_ServRates
  Lambdas <- MC_Lambdas
  Mus <- MC_Mus
SPECIFICATION Spec
INVARIANT ValidBelowServiceRate
