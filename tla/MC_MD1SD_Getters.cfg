\* Positive arrival rates against the service rates 0 and 1: a valid Solve
\* followed by one at mu = 0, which the validity check rejects.
CONSTANTS
  K = 4
  ServRates <- MC_ServRates
  Lambdas <- MC_ContractLambdas
  Mus <- MC_ContractMus
SPECIFICATION Spec
PROPERTIES
  GettersImplementQueueModel
