\* Normalize called twice on Alien nests: two Aliens of the procedure's own
\* or another site at line 5 or 6, one loop, two duplicate statements.
CONSTANTS
  G = G
  F = F
  F2 = F2
  P = P
  A1 = A1
  A2 = A2
  L1 = L1
  L2 = L2
  L3 = L3
  S1 = S1
  S2 = S2
  Self = Self
  Other = Other
  NoNode = NoNode
  Node <- MCNode
  Kind <- MCKind
  Root = G
  SortIds <- MCSortIds
  InitSortId <- MCInitSortId
  Sites <- MCSites
  Fuzz = 0
  Unsafe = TRUE
  InitParent <- AlienTrees
  InitLines <- AlienLines
  InitSite <- AlienSites
SPECIFICATION Spec
INVARIANTS
  NormalizeKeepsAddresses
PROPERTIES
  Termination
