SPECIFICATION FairSpec
CONSTANTS
  t1 = t1
  t2 = t2
  t3 = t3
  stop = stop
  h1 = h1
  h2 = h2
  c1 = c1
  c2 = c2
  Tasks <- TwoTasks
  StopTask = stop
  Handlers <- MCHandlers
  Clients <- MCClients
  NoTask = NoTask
  Cancellable = TRUE
INVARIANTS TypeOK WgBalance StopIsABarrier
PROPERTIES WaitQuiesces ImplementsExecutor AwakeDrains StopEndsProgram
CHECK_DEADLOCK FALSE
