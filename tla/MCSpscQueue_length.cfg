\* The length asked for while messages are pushed and popped: the code may underflow.
SPECIFICATION Spec
CONSTANTS
  b1 = b1
  b2 = b2
  b3 = b3
  b4 = b4
  Buffer <- FourBuffers
  None = None
  capacity = 4
  Observer = {o}
  MaxPushes = 9
SYMMETRY BufferSymmetry
CHECK_DEADLOCK FALSE
INVARIANTS
  LengthAnswered
