\* Three Systems with two workers each, started one after the other on a pool
\* that is big enough for one.
SPECIFICATION Spec
CONSTANTS
  System = {"a", "b", "c"}
  PoolSize = 4
  actor_worker_threads = 2
  extra_worker_threads = 1
  EagerShutdown = TRUE
  RemoteEnabled = {"a", "b"}
  Concurrent = FALSE
INVARIANTS
  TypeOK
PROPERTIES
  EachImplementsLifecycle
  AllEnd
