SPECIFICATION Spec
CONSTANTS
  j1 = j1
  j2 = j2
  j3 = j3
  c1 = c1
  c2 = c2
  Jobs <- MCJobs
  Consumers <- MCConsumers
  NoJob = NoJob
INVARIANT BlocksOnlyWhileEmpty
CHECK_DEADLOCK FALSE
