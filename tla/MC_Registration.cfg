\* Startup, up to three registration calls (a repeated one panics on a duplicate) and
\* refreshes in every order, with a restart after the panic.
CONSTANTS
  kvCache = kvCache  waiting = waiting  eppKvCache = eppKvCache
  eppQueue = eppQueue  other = other
  Expected <- MC_Expected
  Reported <- MC_Reported
  Exposures <- MC_Exposures
  MaxCalls = 3
SPECIFICATION Spec
INVARIANTS
  TypeOK
  FilteredAfterRegistration
  PanicOnlyWhenComplete

