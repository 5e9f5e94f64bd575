---------------------------- MODULE MCScheduler ----------------------------
(***************************************************************************)
(* Scheduler for TLC: worker threads are interchangeable.                  *)
(***************************************************************************)
EXTENDS Scheduler, TLC

WorkerSymmetry == Permutations(Worker)

=============================================================================
