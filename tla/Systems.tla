------------------------------ MODULE Systems ------------------------------
(***************************************************************************)
(* Several Systems on one ThreadPool: System::run, Runtime::start and      *)
(* start_actor_runtime of src/src/core.rs, on the pool of src/src/pool.rs. *)
(* A runtime is what Lifecycle promises of it: its scheduler and each of   *)
(* its workers are jobs that occupy a thread of the pool until they leave. *)
(* A restart is another System with the same configuration.                *)
(***************************************************************************)
EXTENDS Naturals, Sequences, FiniteSets

CONSTANTS
  System,               \* the Systems that will be started
  PoolSize,             \* threads of the pool
  actor_worker_threads, extra_worker_threads,  \* SchedulerConfig, of each
  EagerShutdown,        \* eager_shutdown_enabled, of each
  RemoteEnabled,        \* the Systems that listen
  Concurrent            \* is System::run called by several threads at a time?

ASSUME SystemsAssumption ==
  /\ {PoolSize, actor_worker_threads, extra_worker_threads} \subseteq Nat
  /\ {EagerShutdown, Concurrent} \subseteq BOOLEAN
  /\ RemoteEnabled \subseteq System

VARIABLES
  jobs,    \* the channel of the pool
  thread,  \* the job of each thread of the pool
  status,  \* of each System, see below
  phase,   \* of its scheduler, as in Lifecycle
  ended    \* how many of its worker jobs have returned

vars == <<jobs, thread, status, phase, ended>>

Thread == 1..PoolSize
Workers == 1..actor_worker_threads

\* worker: which worker_loop it is, 0 for the job that runs event_loop.
Job == [sys : System, worker : {0} \cup Workers]
Idle == [sys |-> "none", worker |-> 0]

\* "new"; "starting": submitting its jobs; "small": ThreadPoolTooSmall; "open":
\* the application has its Run; "failed": Server::listen failed and the Run
\* was dropped; "gone": the Run was shut down.
Status == {"new", "starting", "small", "open", "failed", "gone"}

TypeOK ==
  /\ jobs \in Seq(Job)
  /\ thread \in [Thread -> Job \cup {Idle}]
  /\ status \in [System -> Status]
  /\ phase \in [System -> {"loop", "left", "done"}]
  /\ ended \in [System -> SUBSET Workers]

Init ==
  /\ jobs = <<>> /\ thread = [t \in Thread |-> Idle]
  /\ status = [s \in System |-> "new"]
  /\ phase = [s \in System |-> "loop"]
  /\ ended = [s \in System |-> {}]

-----------------------------------------------------------------------------
(* Starting.                                                               *)

total_threads_required == actor_worker_threads + extra_worker_threads + 1

\* System::run, up to the first submit.
Run(s) ==
  /\ status[s] = "new"
  /\ Concurrent \/ \A r \in System : status[r] # "starting"
  /\ status' = [status EXCEPT ![s] =
                  IF PoolSize < total_threads_required THEN "small" ELSE "starting"]
  /\ UNCHANGED <<jobs, thread, phase, ended>>

Pending(s) ==
  Cardinality({i \in DOMAIN jobs : jobs[i].sys = s})
  + Cardinality({t \in Thread : thread[t].sys = s}) + Cardinality(ended[s])

\* Mutant: the workers are counted as if there was no scheduler.
JobAfter(n) == n + 1
\* The job submitted after n others: a worker, or last the scheduler.
NextJob(n) == (n + 1) % (actor_worker_threads + 1)

\* start_actor_runtime submits the workers one by one, then the scheduler.
submit(s) ==
  /\ status[s] = "starting" /\ Pending(s) <= actor_worker_threads
  /\ jobs' = Append(jobs, [sys |-> s, worker |-> NextJob(Pending(s))])
  /\ UNCHANGED <<thread, status, phase, ended>>

\* Server::listen fails for an address that is none, or cannot be bound.
listen == {"open", "failed"}

\* The rest of Runtime::start: it listens if it has to, when everything is
\* already running.
start(s) ==
  /\ status[s] = "starting" /\ Pending(s) > actor_worker_threads
  /\ \E outcome \in IF s \in RemoteEnabled THEN listen ELSE {"open"} :
       status' = [status EXCEPT ![s] = outcome]
  /\ UNCHANGED <<jobs, thread, phase, ended>>

shutdown(s) ==
  /\ status[s] = "open"
  /\ status' = [status EXCEPT ![s] = "gone"]
  /\ UNCHANGED <<jobs, thread, phase, ended>>

-----------------------------------------------------------------------------
(* Running.                                                                *)

Take(t) ==
  /\ thread[t] = Idle /\ jobs # <<>>
  /\ thread' = [thread EXCEPT ![t] = Head(jobs)]
  /\ jobs' = Tail(jobs)
  /\ UNCHANGED <<status, phase, ended>>

\* Mutant: a runtime without actors waits for a Shutdown.
LeavesWhenTold(s) == status[s] = "gone"
MayLeave(s) == status[s] = "gone" \/ EagerShutdown

\* event_loop ends with a Shutdown, or because no actor is left.
LeaveLoop(t) ==
  LET s == thread[t].sys IN
  /\ thread[t] # Idle /\ thread[t].worker = 0
  /\ phase[s] = "loop" /\ MayLeave(s)
  /\ phase' = [phase EXCEPT ![s] = "left"]
  /\ UNCHANGED <<jobs, thread, status, ended>>

\* A worker takes its Shutdown event.
WorkerReturns(t) ==
  LET s == thread[t].sys IN
  /\ thread[t] # Idle /\ thread[t].worker # 0 /\ phase[s] = "left"
  /\ ended' = [ended EXCEPT ![s] = @ \cup {thread[t].worker}]
  /\ thread' = [thread EXCEPT ![t] = Idle]
  /\ UNCHANGED <<jobs, status, phase>>

\* Mutant: the scheduler does not wait for the senders of its channel.
NobodySendsTo(s) == TRUE
\* Every Sender<Action> is dropped: those of the workers, also of the ones that
\* still wait in the pool's channel, and the Run's.
Disconnected(s) == ended[s] = Workers /\ status[s] \in {"failed", "gone"}

SchedulerReturns(t) ==
  LET s == thread[t].sys IN
  /\ thread[t] # Idle /\ thread[t].worker = 0
  /\ phase[s] = "left" /\ Disconnected(s)
  /\ phase' = [phase EXCEPT ![s] = "done"]
  /\ thread' = [thread EXCEPT ![t] = Idle]
  /\ UNCHANGED <<jobs, status, ended>>

-----------------------------------------------------------------------------

ThreadNext(t) == Take(t) \/ WorkerReturns(t) \/ SchedulerReturns(t)

AppNext(s) == Run(s) \/ submit(s) \/ start(s)

\* Nothing is left to do; not a step of the system.
Finished == (\A s \in System : status[s] = "small" \/ phase[s] = "done") /\ UNCHANGED vars

Next ==
  \/ \E s \in System : AppNext(s) \/ shutdown(s)
  \/ \E t \in Thread : ThreadNext(t) \/ LeaveLoop(t)
  \/ Finished

\* An idle thread takes a job and a job that can return does; a loop with a
\* Shutdown, or one whose start failed and that has no actors, is left; the
\* application starts its Systems and shuts down what it has started.
Fairness ==
  /\ \A t \in Thread : WF_vars(ThreadNext(t))
                       /\ WF_vars(LeaveLoop(t) /\ status[thread[t].sys] # "open")
  /\ \A s \in System : WF_vars(AppNext(s)) /\ WF_vars(shutdown(s))

Spec == Init /\ [][Next]_vars /\ Fairness

-----------------------------------------------------------------------------
(* Properties.                                                             *)

L(s) == INSTANCE Lifecycle WITH
  Worker <- Workers, HookPanics <- FALSE,
  phase <- phase[s], live <- Workers \ ended[s],
  run <- IF status[s] \in {"failed", "gone"} THEN "gone" ELSE "open"

\* Each runtime lives as Lifecycle says, whatever the others do and wherever
\* its jobs wait.
EachImplementsLifecycle ==
  /\ \A s \in System : L(s)!LifeInit
  /\ [][\A s \in System : [L(s)!LifeNext]_(L(s)!lifeVars)]_vars

\* A System that System::run did not refuse comes to its end and gives all its
\* threads back, however many were started before it and still hold theirs.
AllEnd == \A s \in System : (status[s] # "new") ~> (status[s] = "small" \/ phase[s] = "done")

\* doc/design-guide.md: "If failed to start, the initial configuration remains,
\* thus can be restarted any required number of attempts".  A later start that
\* succeeds comes to run: some thread takes its scheduler.
RestartRuns == \A s \in System : (status[s] = "open") ~> (\E t \in Thread :
                                    thread[t].sys = s /\ thread[t].worker = 0)

=============================================================================
