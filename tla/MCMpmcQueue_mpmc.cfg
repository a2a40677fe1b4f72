\* The ring wraps, with a push and a pop under way; one thread runs, the others
\* may stop inside a call.
SPECIFICATION MCSpec
CONSTANTS
  t1 = t1
  t2 = t2
  t3 = t3
  v1 = v1
  v2 = v2
  Thread <- ThreeThreads
  Value <- TwoValues
  None = None
  capacity = 2
  MaxPushes = 3
  Running <- OneRunning
INVARIANTS
  NoSlotRace
PROPERTIES
  ImplementsFifo
  CallsReturn
