\* Capacity 2 so that the truncation min(K, n - 1 + j) is reached; three
\* passes of the chain, enough for the idle chain to converge and stop early.
CONSTANTS
  K = 2
  MaxIter = 3
  Inputs <- MC_Inputs
  ExpNeg <- MC_ExpNeg
  Tolerance <- MC_Tolerance
SPECIFICATION Spec
INVARIANT ResponseIsWaitPlusService
