SPECIFICATION MixBinSpec
CONSTANTS
  MaxBranches = 1
CHECK_DEADLOCK FALSE
INVARIANT DrainEnds
