\* A file name taken from the entry address's debug info.
CONSTANTS
  Fc = Fc
  Fd = Fd
  Gc = Gc
  Orphan = Orphan
  NoFile = NoFile
  NoNode = NoNode
  RealPath <- MCRealPath
  BaseName <- MCBaseName
  Findable <- MCFindable
  Filtering = FALSE
  Inputs <- DbgFileInputs
SPECIFICATION Spec
INVARIANTS
  FilesCanonical
