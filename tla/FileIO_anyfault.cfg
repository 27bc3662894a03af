\* Calls stop anywhere; the clients' pages are text.
CONSTANTS
  PAGESIZE = 2
  MaxSize = 5
  Data <- TextData
  NULL = NULL
  Sources <- TextData
  FaultMode = "any"
  Client = "owner"
SPECIFICATION Spec
INVARIANTS
  PlainInv
PROPERTIES
  MetadataWrittenLast
  AllocGivesFreshPage
  LivePagesKeepData
  Refines
