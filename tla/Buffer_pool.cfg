\* Three frames; reads and writes may fail. The process may end.
CONSTANTS
  N = 3
  MaxPages = 2
  MaxPins = 2
  s1 = s1
  s2 = s2
  d1 = d1
  d2 = d2
  Slots <- TwoSlots
  Data <- TwoData
  Absent = Absent
  Free = Free
  Blank = Blank
  Faults = TRUE
SPECIFICATION Spec
SYMMETRY Interchangeable
CHECK_DEADLOCK FALSE
INVARIANTS
  TypeOK
  SingleFrame
  WritebackHoldsDirty
  CrashNeedsTwoAddresses
  IInv
PROPERTIES
  WriteBackSaves
  Refines
