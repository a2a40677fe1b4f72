\* Two pids under the process monitors; two threads under the hooks on every call; the lists.
SPECIFICATION MCSpec
CONSTANTS
  Pids = {p1, p2}
  ObserverRing = 1
  ShepherdRing = 1
  MaxStates = 1
  CommSize = 4
  PrefixSize = 2
  OracleSize = 3
  CodexSize = 4
  Letters <- TwoLetters
  MaxLength = 4
  Programs <- TwoPrograms
  ClaudeNames <- OneClaude
  Codices <- OneList
  MaxForks = 1
  Threads = {t1, t2}
  Numbers = {n1, n2}
  Monitored = {n1}
  PidOf <- OneProcess
  RingSize = 1
  MaxKeys = 1
  MaxTotal = 4
  MaxCalls = 3
  MaxWatchedCalls = 1
INVARIANTS
  CountersAddUp
  WorstVerdictReached
  TableIsTruthful
  InstancesFollowTable
  ListsAreRead
PROPERTIES
  RecordsAreAnswered
CHECK_DEADLOCK FALSE
