\* Two thieves over an array that grows from one cell to four.
SPECIFICATION Spec
CONSTANTS
  s1 = s1
  s2 = s2
  Owner = owner
  Stealer <- TwoStealers
  capacity = 1
  None = None
  Torn = Torn
  MaxPushes = 4
  AllocMayFail = TRUE
SYMMETRY StealerSymmetry
PROPERTIES
  ImplementsDeque
