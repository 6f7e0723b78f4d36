\* The loop-nest builder on every Nested SCR tree of six flow nodes, with
\* irreducible intervals taken as loops or not, followed by a second piece
\* of the same procedure.
CONSTANTS
  P1 = P1
  PieceProc <- MCPieceProc
  NoScope = NoScope
  FlowNode <- MCFlowNode
  Inputs <- MCInputs
  IrrModes = {TRUE, FALSE}
  Insns <- MCInsns
  InEdges <- MCInEdges
  HeadLine <- MCHeadLine
  CallIdInit <- MCCallIdInit
SPECIFICATION Spec
INVARIANTS
  TypeOK
  AllBuilt
  QueueSections
  PlacedInNearestLoop
  StmtsUnique
  CallIdsDistinctInProc
  LoopAtLowestBackBranch
PROPERTIES
  BuiltBreadthFirst
  ImplementsPlacement
