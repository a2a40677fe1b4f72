\* Two rivals over three terms, no client: the only entries are the leaders' noops.
SPECIFICATION Spec
CONSTANTS
  n1 = n1
  n2 = n2
  n3 = n3
  Node <- ThreeNodes
  Command = {}
  Noop = Noop
  Payload <- Submitted
  Nil = Nil
  MaxEntriesPerRpc = 3
  ElectionTimers <- Rivals
  Tickers <- ThreeNodes
  MaxStaleness = 0
  MaxLogLength = 0
  ApplyFailers = {n3}
SYMMETRY RivalSymmetry
VIEW LiveView
CHECK_DEADLOCK FALSE
INVARIANTS
  ElectionSafety
  StateMachineSafety
  LeaderCompleteness
