\* Three messages at most in four slots, the ring wrapped twice, one observer.
SPECIFICATION Spec
CONSTANTS
  b1 = b1
  b2 = b2
  b3 = b3
  b4 = b4
  Buffer <- FourBuffers
  None = None
  capacity = 4
  Observer = {o}
  MaxPushes = 9
SYMMETRY BufferSymmetry
CHECK_DEADLOCK FALSE
INVARIANTS
  NoSlotRace
  PoppedIsAllocated
  NoLeak
PROPERTIES
  ImplementsFifo
