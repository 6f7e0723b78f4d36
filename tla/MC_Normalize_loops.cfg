\* Normalize called twice on loop nests under one procedure: every shape of
\* three loops and two duplicate statements, loop header lines 5 or 6.
CONSTANTS
  G = G
  F = F
  F2 = F2
  P = P
  A1 = A1
  A2 = A2
  L1 = L1
  L2 = L2
  L3 = L3
  S1 = S1
  S2 = S2
  Self = Self
  Other = Other
  NoNode = NoNode
  Node <- MCNode
  Kind <- MCKind
  Root = G
  SortIds <- MCSortIds
  InitSortId <- MCInitSortId
  Sites <- MCSites
  Fuzz = 0
  Unsafe = TRUE
  InitParent <- LoopTrees
  InitLines <- LoopLines
  InitSite <- LoopSites
SPECIFICATION Spec
INVARIANTS
  NormalizeKeepsAddresses
  PerfectNestsMerged
  Idempotent
