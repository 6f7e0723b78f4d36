\* Line information with a zero begin line.
CONSTANTS
  Fc = Fc
  Fd = Fd
  Gc = Gc
  Orphan = Orphan
  NoFile = NoFile
  NoNode = NoNode
  RealPath <- MCRealPath
  BaseName <- MCBaseName
  Findable <- MCFindable
  Filtering = FALSE
  Inputs <- LineInputs
SPECIFICATION Spec
INVARIANTS
  LineBoundsPaired
