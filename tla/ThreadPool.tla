----------------------------- MODULE ThreadPool -----------------------------
(***************************************************************************)
(* The thread pool of src/src/pool.rs: a crossbeam channel of jobs, the    *)
(* threads that take them, the closures made by link(), which submit jobs  *)
(* without the pool, and the drop of the pool, which stops its threads.    *)
(*                                                                         *)
(* A task is its number: the n-th ever sent is n.  What it does is not     *)
(* known to the pool; it returns or panics.                                *)
(***************************************************************************)
EXTENDS Naturals, Sequences, FiniteSets

CONSTANTS
  Size,     \* the number of threads
  MaxJobs   \* bound of the model: tasks submitted

ASSUME SizeAssumption == Size \in Nat /\ MaxJobs \in Nat

VARIABLES
  jobs,       \* the channel
  thread,     \* what each thread is doing
  pool,       \* the owner: "open", or in drop(): "stopping", "joining", "dropped"
  stopped,    \* Job::Stop sent by drop()
  joined,     \* threads joined by drop(), in the order of `workers`
  submitted,  \* tasks sent
  owned,      \* history: those sent by submit()
  done        \* history: tasks that have returned or panicked

vars == <<jobs, thread, pool, stopped, joined, submitted, owned, done>>

Threads == 1..Size

Job == [type : {"Task"}, id : Nat] \cup [type : {"Stop"}]

\* "recv": blocked in recv(); "run": in a task; "exit": left the loop.
Activity == [pc : {"recv", "run", "exit"}, id : Nat]

TypeOK ==
  /\ jobs \in Seq(Job)
  /\ thread \in [Threads -> Activity]
  /\ pool \in {"open", "stopping", "joining", "dropped"}
  /\ stopped \in 0..Size /\ joined \in 0..Size
  /\ submitted \in Nat
  /\ owned \subseteq 1..submitted
  /\ done \subseteq 1..submitted

\* ThreadPool::new
Init ==
  /\ jobs = <<>>
  /\ thread = [t \in Threads |-> [pc |-> "recv", id |-> 0]]
  /\ pool = "open" /\ stopped = 0 /\ joined = 0
  /\ submitted = 0 /\ owned = {} /\ done = {}

-----------------------------------------------------------------------------
(* The owner and the holders of links.                                     *)

\* Every receiver is in a thread; without one the unwrap() of a send panics
\* in the caller, and nothing is sent.
Receivers == \E t \in Threads : thread[t].pc # "exit"

SendTask ==
  /\ submitted < MaxJobs /\ Receivers
  /\ submitted' = submitted + 1
  /\ jobs' = Append(jobs, [type |-> "Task", id |-> submitted + 1])

\* submit() borrows the pool, so drop() has not begun.
submit ==
  /\ pool = "open"
  /\ SendTask
  /\ owned' = owned \cup {submitted + 1}
  /\ UNCHANGED <<thread, pool, stopped, joined, done>>

\* The closure of link() holds a sender of its own, and works until the last
\* thread has left: also while the pool is dropped.
link ==
  /\ SendTask
  /\ UNCHANGED <<thread, pool, stopped, joined, owned, done>>

Drop ==
  /\ pool = "open"
  /\ pool' = "stopping"
  /\ UNCHANGED <<jobs, thread, stopped, joined, submitted, owned, done>>

\* Mutant: one Stop too many.
SendStopOnceMore ==
  /\ pool = "stopping" /\ stopped <= Size /\ Receivers
  /\ stopped' = stopped + 1
  /\ jobs' = Append(jobs, [type |-> "Stop"])
  /\ UNCHANGED <<thread, pool, joined, submitted, owned, done>>

\* Without a receiver the unwrap() panics and the drop is stuck here.  It never
\* is: a thread that leaves takes a Stop with it (StopPerThread).
SendStop ==
  /\ pool = "stopping" /\ stopped < Size /\ Receivers
  /\ stopped' = stopped + 1
  /\ jobs' = Append(jobs, [type |-> "Stop"])
  /\ UNCHANGED <<thread, pool, joined, submitted, owned, done>>

\* Mutant: one Stop too few.
BeginJoinEarly ==
  /\ pool = "stopping" /\ stopped + 1 = Size
  /\ pool' = "joining"
  /\ UNCHANGED <<jobs, thread, stopped, joined, submitted, owned, done>>

BeginJoin ==
  /\ pool = "stopping" /\ stopped = Size
  /\ pool' = "joining"
  /\ UNCHANGED <<jobs, thread, stopped, joined, submitted, owned, done>>

\* Mutant: the thread is detached.
JoinDetached ==
  /\ pool = "joining" /\ joined < Size
  /\ joined' = joined + 1
  /\ UNCHANGED <<jobs, thread, pool, stopped, submitted, owned, done>>

Join ==
  /\ pool = "joining" /\ joined < Size
  /\ thread[joined + 1].pc = "exit"
  /\ joined' = joined + 1
  /\ UNCHANGED <<jobs, thread, pool, stopped, submitted, owned, done>>

Dropped ==
  /\ pool = "joining" /\ joined = Size
  /\ pool' = "dropped"
  /\ UNCHANGED <<jobs, thread, stopped, joined, submitted, owned, done>>

-----------------------------------------------------------------------------
(* A thread: the closure of Worker::new.                                   *)

\* The next job, for this thread alone.  (recv fails when there is no sender
\* left; the pool has one until all its threads have left.)
recv(t, job) ==
  /\ thread[t].pc = "recv" /\ jobs # <<>>
  /\ job = Head(jobs)
  /\ jobs' = Tail(jobs)

TakeTask(t) ==
  /\ \E job \in {jobs[i] : i \in DOMAIN jobs} :
       /\ recv(t, job) /\ job.type = "Task"
       /\ thread' = [thread EXCEPT ![t] = [pc |-> "run", id |-> job.id]]
  /\ UNCHANGED <<pool, stopped, joined, submitted, owned, done>>

TakeStop(t) ==
  /\ \E job \in {jobs[i] : i \in DOMAIN jobs} : recv(t, job) /\ job.type = "Stop"
  /\ thread' = [thread EXCEPT ![t].pc = "exit"]
  /\ UNCHANGED <<pool, stopped, joined, submitted, owned, done>>

\* Mutant: a panic of a task unwinds its thread.
FinishUncaught(t) ==
  /\ thread[t].pc = "run"
  /\ \E pc \in {"recv", "exit"} : thread' = [thread EXCEPT ![t] = [pc |-> pc, id |-> 0]]
  /\ done' = done \cup {thread[t].id}
  /\ UNCHANGED <<jobs, pool, stopped, joined, submitted, owned>>

\* The task returns, or panics and catch_unwind catches it.
Finish(t) ==
  /\ thread[t].pc = "run"
  /\ thread' = [thread EXCEPT ![t] = [pc |-> "recv", id |-> 0]]
  /\ done' = done \cup {thread[t].id}
  /\ UNCHANGED <<jobs, pool, stopped, joined, submitted, owned>>

-----------------------------------------------------------------------------

DropNext == SendStop \/ BeginJoin \/ Join \/ Dropped

ThreadNext(t) == TakeTask(t) \/ TakeStop(t) \/ Finish(t)

\* Nothing is left to do; not a step of the system.
Finished == pool = "dropped" /\ UNCHANGED vars

Next ==
  \/ submit \/ link
  \/ Drop \/ DropNext
  \/ \E t \in Threads : ThreadNext(t)
  \/ Finished

\* Threads run, tasks end, and a drop that has begun goes on; nobody has to
\* submit or to drop.
Fairness == WF_vars(DropNext) /\ \A t \in Threads : WF_vars(ThreadNext(t))

Spec == Init /\ [][Next]_vars
FairSpec == Spec /\ Fairness

-----------------------------------------------------------------------------
(* Properties.                                                             *)

Running(id) == \E t \in Threads : thread[t].pc = "run" /\ thread[t].id = id

\* When the drop of the pool returns, every task given to submit() is over,
\* however many links were still submitting behind the Stop jobs.
DropFinishesTasks == pool = "dropped" => owned \subseteq done

\* drop() never sends to, or waits for, threads in the wrong number: the Stop
\* jobs in the channel are those sent minus one for each thread that has left.
\* So no thread leaves for another reason (a panic of a task), the sends of
\* drop() find a receiver, and the joins find a Stop for every thread.
StopPerThread ==
  stopped = Cardinality({i \in DOMAIN jobs : jobs[i].type = "Stop"})
            + Cardinality({t \in Threads : thread[t].pc = "exit"})

\* Every task given to submit() runs, also when the pool is dropped meanwhile.
TasksRun == \A id \in 1..MaxJobs : (id \in owned) ~> (id \in done)

\* The drop of the pool returns if the tasks do.
DropReturns == (pool = "stopping") ~> (pool = "dropped")

=============================================================================
