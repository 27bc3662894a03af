\* Three frames, no fault.
CONSTANTS
  N = 3
  MaxPages = 2
  MaxPins = 2
  s1 = s1
  s2 = s2
  d1 = d1
  d2 = d2
  Slots <- TwoSlots
  Data <- TwoData
  Absent = Absent
  Free = Free
  Blank = Blank
  Faults = FALSE
SPECIFICATION Spec
CHECK_DEADLOCK FALSE
PROPERTIES
  PinReturnsPage
