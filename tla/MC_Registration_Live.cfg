\* One registration call per process lifetime, under the fairness of
\* FairSpec.
CONSTANTS
  kvCache = kvCache  waiting = waiting  eppKvCache = eppKvCache
  eppQueue = eppQueue  other = other
  Expected <- MC_Expected
  Reported <- MC_Reported
  Exposures <- MC_Exposures
  MaxCalls = 1
SPECIFICATION FairSpec
PROPERTIES
  RegistrationTakesEffect
