CONSTANTS
  K = 4
  ServRates <- MC_ServRates
  Lambdas <- MC_Lambdas
  Mus <- MC_Mus
SPECIFICATION Spec
INVARIANTS
  TypeOK
  SteadyStateOfCurrentRate
  MetricsMatchQueueingLaws
PROPERTIES
  MonotoneInRate
