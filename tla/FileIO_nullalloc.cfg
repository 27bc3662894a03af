\* A page allocated without a source, taken from the list.
CONSTANTS
  PAGESIZE = 4
  MaxSize = 4
  Data <- LinkLikeData
  NULL = NULL
  Sources <- AnySource
  FaultMode = "none"
  Client = "owner"
SPECIFICATION Spec
PROPERTIES
  NullAllocIsBlank
