\* The same with the safety of applied entries: the code violates it.
SPECIFICATION LateSpec
CONSTANTS
  n1 = n1
  n2 = n2
  n3 = n3
  Node <- ThreeNodes
  Command = {c}
  Noop = Noop
  Payload <- Submitted
  Nil = Nil
  MaxEntriesPerRpc = 3
  ElectionTimers <- Return
  Tickers <- TwoTickers
  MaxStaleness = 0
  MaxLogLength = 3
  ApplyFailers = {}
VIEW LiveView
CHECK_DEADLOCK FALSE
INVARIANTS
  StateMachineSafety
