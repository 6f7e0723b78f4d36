\* CoalesceDuplicateStmts with Case 2 (cross-loop) merging enabled or disabled.
CONSTANTS
  P = P
  A = A
  L1 = L1
  L2 = L2
  S1 = S1
  S2 = S2
  S3 = S3
  NoNode = NoNode
  Node <- MCNode
  Kind <- MCKind
  Root = P
  SortIds <- MCSortIds
  InitParent <- MCInitParent
  InitSortId <- MCInitSortId
  InitLines <- MCInitLines
  UnsafeModes = {TRUE, FALSE}
SPECIFICATION Spec
INVARIANTS
  TypeOK
  NoLostAddresses
  NoDanglingReference
  RestartCaught
  MapLevelsCurrent
  NoDuplicateStmts
PROPERTIES
  Termination
  ImplementsStmtCoalescing
