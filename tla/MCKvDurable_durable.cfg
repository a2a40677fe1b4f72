\* A first leader with a client, or two rivals in term 3; the node between them crashes.
SPECIFICATION LateDurableSpec
CONSTANTS
  n1 = n1
  n2 = n2
  n3 = n3
  Node <- ThreeNodes
  Command = {c}
  Noop = Noop
  Nil = Nil
  Freed = Freed
  Payload <- SubmittedOrFreed
  MaxEntriesPerRpc = 2
  ElectionTimers <- ThirdTerm
  Tickers <- TwoTickers
  MaxStaleness = 0
  MaxLogLength = 2
  Crashers <- Voter
  MaxCrashes = 1
  ApplyFailers = {}
CHECK_DEADLOCK FALSE
VIEW DurableView
INVARIANTS
  DoubleVoteOnlyAfterElection
  RecordsGiveLog
