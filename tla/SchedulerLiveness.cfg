\* Delayed and remote envelopes, and progress under fair threads.
SPECIFICATION FairSpec
CONSTANTS
  Address = {r, CLIENT}
  Remote = {r}
  CLIENT = CLIENT
  NoAddress = NoAddress
  Worker = {w1, w2}
  EagerShutdown = FALSE
  LoggingEnabled = FALSE
  MetricReporting = FALSE
  HalfPrecision = 1
  Durations = {2}
  HookPanics = FALSE
  RunEnds = {"shutdown"}
  MaxSpawns = 1
  MaxSends = 2
  MaxStops = 1
  MaxNotes = 0
  MaxTime = 2
INVARIANTS
  NotEarly
  RemoteViaClient
PROPERTIES
  DueFired
  MailIsReceived
  DelayFires
  ShutdownCompletes
