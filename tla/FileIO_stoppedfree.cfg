\* free_page stops between its first and second pwrite.
CONSTANTS
  PAGESIZE = 4
  MaxSize = 4
  Data <- LinkLikeData
  NULL = NULL
  Sources <- AnySource
  FaultMode = "any"
  Client = "owner"
SPECIFICATION Spec
INVARIANTS
  LinksNameFreePages
