\* Two runs of a caster and three connections; every interleaving of Stop with
\* the service thread.
SPECIFICATION FairSpec
CONSTANTS
  Conns = {c1, c2, c3}
  Finite = TRUE
  MaxRuns = 2
INVARIANTS LifecycleTypeOK BrokenOnlyInHaste StopIsFinal StopEmpties
PROPERTIES StopReturns
CHECK_DEADLOCK FALSE
