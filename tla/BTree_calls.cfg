\* Three frames; reads, writes and allocations may fail. The process may end.
CONSTANTS
  N = 3
  MaxPages = 3
  MaxPins = 3
  s1 = s1
  s2 = s2
  Slots <- TwoSlots
  Data <- Nodes
  Absent = Absent
  Free = Free
  Blank = Blank
  Outside = 1000000
  Faults = TRUE
SPECIFICATION TreeSpec
SYMMETRY Interchangeable
CHECK_DEADLOCK FALSE
INVARIANTS
  NodesNeverSaved
  TreeInv
PROPERTIES
  LostPinsStayLost
  Refines
