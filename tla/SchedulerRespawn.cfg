\* Stop and respawn of an address, two workers, shutdown at any time.
SPECIFICATION Spec
CONSTANTS
  Address = {a, CLIENT}
  Remote = {}
  CLIENT = CLIENT
  NoAddress = NoAddress
  Worker = {w1, w2}
  EagerShutdown = FALSE
  LoggingEnabled = FALSE
  MetricReporting = FALSE
  HalfPrecision = 0
  Durations = {}
  HookPanics = FALSE
  RunEnds = {"shutdown"}
  MaxSpawns = 2
  MaxSends = 3
  MaxStops = 1
  MaxNotes = 0
  MaxTime = 1
SYMMETRY WorkerSymmetry
INVARIANTS
  TypeOK
  MailboxIffActive
  WaitingIsDrained
  SentInOrder
  NoSilentDrop
  WorkersCanSend
