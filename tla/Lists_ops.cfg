\* Two lists of three entries, two hash lists of three nodes.
CONSTANTS
  NULL = NULL
  LIST_POISON1 = LIST_POISON1
  LIST_POISON2 = LIST_POISON2
  Heads = {h1, h2}
  Entries = {e1, e2, e3}
  HashHeads = {g1, g2}
  HashNodes = {n1, n2, n3}
SPECIFICATION BothSpec
INVARIANTS
  ListTypeOK
  ListsWellLinked
  LoopVisitsAll
  LoopNeverFaults
  HashTypeOK
  HashWellLinked
PROPERTIES
  StacksAndQueues
  ListsAreSequences
  LoopTerminates
  HashListsAreSequences
