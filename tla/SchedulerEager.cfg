\* The last actor is stopped under eager shutdown.
SPECIFICATION Spec
CONSTANTS
  Address = {a, CLIENT}
  Remote = {}
  CLIENT = CLIENT
  NoAddress = NoAddress
  Worker = {w1, w2}
  EagerShutdown = TRUE
  LoggingEnabled = FALSE
  MetricReporting = FALSE
  HalfPrecision = 0
  Durations = {}
  HookPanics = FALSE
  RunEnds = {"drop"}
  MaxSpawns = 1
  MaxSends = 1
  MaxStops = 1
  MaxNotes = 0
  MaxTime = 1
INVARIANTS
  StopIsAnnounced
