\* The same instance as MC_MD1SD.cfg; an idle variant is solved at lambda = 0.
CONSTANTS
  K = 4
  ServRates <- MC_ServRates
  Lambdas <- MC_Lambdas
  Mus <- MC_Mus
SPECIFICATION Spec
INVARIANT WaitDefinedWhenValid
