\* Two threads, four tasks, submitted or linked, the pool dropped at any time.
SPECIFICATION FairSpec
CONSTANTS
  Size = 2
  MaxJobs = 4
INVARIANTS
  TypeOK
  DropFinishesTasks
  StopPerThread
PROPERTIES
  TasksRun
  DropReturns
