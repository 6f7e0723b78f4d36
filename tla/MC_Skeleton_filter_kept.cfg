\* The same inputs: does filtering drop only the procedures of dropped files?
CONSTANTS
  Fc = Fc
  Fd = Fd
  Gc = Gc
  Orphan = Orphan
  NoFile = NoFile
  NoNode = NoNode
  RealPath <- MCRealPath
  BaseName <- MCBaseName
  Findable <- MCFindable
  Filtering = TRUE
  Inputs <- NestInputs
SPECIFICATION Spec
INVARIANTS
  AcceptedProcsKept
