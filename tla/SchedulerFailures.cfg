\* Receive panics, hooks panic and kill their worker, failed actors are respawned;
\* logs are reported, metrics are kept; eager shutdown.
SPECIFICATION Spec
CONSTANTS
  Address = {CLIENT}
  Remote = {}
  CLIENT = CLIENT
  NoAddress = NoAddress
  Worker = {w1, w2}
  EagerShutdown = TRUE
  LoggingEnabled = TRUE
  MetricReporting = FALSE
  HalfPrecision = 0
  Durations = {}
  HookPanics = TRUE
  RunEnds = {"shutdown", "drop"}
  MaxSpawns = 2
  MaxSends = 2
  MaxStops = 1
  MaxNotes = 1
  MaxTime = 1
SYMMETRY WorkerSymmetry
PROPERTIES
  ImplementsLifecycle
INVARIANTS
  BoundOnceUntilStop
  ActiveHasActor
  SchedulerSurvives
  NotesConserved
