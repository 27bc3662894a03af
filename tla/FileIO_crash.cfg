\* A small store whose calls stop at every point that is safe to stop at.
CONSTANTS
  PAGESIZE = 4
  MaxSize = 4
  Data <- LinkLikeData
  NULL = NULL
  Sources <- AnySource
  FaultMode = "safe"
  Client = "refree"
SPECIFICATION Spec
INVARIANTS
  TypeOK
  FreeListOnDisk
  PagesAccounted
  IInv
PROPERTIES
  AllocGivesFreshPage
  LivePagesKeepData
  Refines
