\* Three frames, no fault, two stack addresses. The process may end.
CONSTANTS
  N = 3
  MaxPages = 3
  MaxPins = 3
  s1 = s1
  s2 = s2
  Slots <- TwoSlots
  Data <- Nodes
  Absent = Absent
  Free = Free
  Blank = Blank
  Outside = 1000000
  Faults = FALSE
SPECIFICATION TreeSpec
CHECK_DEADLOCK FALSE
PROPERTIES
  CreateMakesTree
