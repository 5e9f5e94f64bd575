----------------------------- MODULE Lifecycle -----------------------------
(***************************************************************************)
(* What an actor runtime promises to the thread pool it runs on and to the *)
(* application that holds its Run: who leaves when.  The scheduler leaves  *)
(* its loop for a reason, the workers leave after it, and it returns only  *)
(* when nobody can send to it any more.  Module Scheduler implements this; *)
(* module Systems puts several of these on one pool.                       *)
(***************************************************************************)
EXTENDS FiniteSets

CONSTANTS
  Worker,         \* the worker threads (or the jobs that will run on them)
  EagerShutdown,  \* config.eager_shutdown_enabled
  HookPanics      \* may on_fail and on_stop panic?

VARIABLES
  phase,  \* of the scheduler: "loop", "left", "done" or "panicked"
  live,   \* the workers that hold their ends of the channels
  run     \* "open" or "gone"

lifeVars == <<phase, live, run>>

LifeInit == phase = "loop" /\ live = Worker /\ run = "open"

EndRun == run = "open" /\ run' = "gone" /\ UNCHANGED <<phase, live>>

\* A Shutdown from the Run, or no actors with eager shutdown enabled.
Leave ==
  /\ phase = "loop" /\ (run = "gone" \/ EagerShutdown)
  /\ phase' = "left"
  /\ UNCHANGED <<live, run>>

\* A worker takes its Shutdown event, or is killed by a hook.
WorkerLeaves(w) ==
  /\ w \in live /\ (phase = "left" \/ HookPanics)
  /\ live' = live \ {w}
  /\ UNCHANGED <<phase, run>>

Return ==
  /\ phase = "left" /\ live = {} /\ run = "gone"
  /\ phase' = "done"
  /\ UNCHANGED <<live, run>>

\* An unwrap() on a channel nobody receives from.
Panic ==
  /\ phase \in {"loop", "left"} /\ live = {}
  /\ phase' = "panicked"
  /\ UNCHANGED <<live, run>>

LifeNext == EndRun \/ Leave \/ (\E w \in Worker : WorkerLeaves(w)) \/ Return \/ Panic

LifeSpec == LifeInit /\ [][LifeNext]_lifeVars

=============================================================================
