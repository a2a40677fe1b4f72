\* Two workers, a client that spawns and one that awaits, asks, stops and destroys.
SPECIFICATION FairSpec
CONSTANTS
  w1 = w1
  w2 = w2
  c1 = c1
  c2 = c2
  k1 = k1
  k2 = k2
  Worker <- TwoWorkers
  Task <- TwoTasks
  None = None
  injector_batch = 2
  PushMayFail = TRUE
  Client <- TwoClients
  Spawners <- First
  Waiters <- Second
  Stoppers <- Second
  Askers <- Second
CHECK_DEADLOCK FALSE
INVARIANTS
  NoUseAfterFree
  RunsOnce
  NoEntryLeaks
PROPERTIES
  SpawnedIsRun
  AwaitReturns
