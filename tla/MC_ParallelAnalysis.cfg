\* Five ranks, tree and broadcasts rooted at rank 0 (hpcprof-mpi's choice).
CONSTANTS
  Rank <- MCRank
  RootRank = 0
  Prog <- MCProg0
SPECIFICATION Spec
INVARIANTS
  TypeOK
  ReductionComplete
  BroadcastAgrees
  ReceiveMatchesKind
  NoWaitCycle
PROPERTIES
  ImplementsAtomicReduction
