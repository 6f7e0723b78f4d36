\* Sound nested procedures, possibly split, in two files; files filtered by
\* the canonical path list.
CONSTANTS
  Fc = Fc
  Fd = Fd
  Gc = Gc
  Orphan = Orphan
  NoFile = NoFile
  NoNode = NoNode
  RealPath <- MCRealPath
  BaseName <- MCBaseName
  Findable <- MCFindable
  Filtering = TRUE
  Inputs <- NestInputs
SPECIFICATION Spec
INVARIANTS
  ProcsFused
  NestedUnderParent
