\* The same calls with the tree and both broadcasts rooted at rank 1.
CONSTANTS
  Rank <- MCRank
  RootRank = 1
  Prog <- MCProg1
SPECIFICATION Spec
INVARIANTS
  BroadcastAgrees
