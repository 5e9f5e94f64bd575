\* A System whose listen may fail, without eager shutdown, then another on the same pool
\* (as ThreadPool::for_config makes it).
SPECIFICATION Spec
CONSTANTS
  System = {"a", "b"}
  PoolSize = 4
  actor_worker_threads = 2
  extra_worker_threads = 1
  EagerShutdown = FALSE
  RemoteEnabled = {"a"}
  Concurrent = FALSE
PROPERTIES
  RestartRuns
CHECK_DEADLOCK FALSE
