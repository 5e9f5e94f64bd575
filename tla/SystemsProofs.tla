--------------------------- MODULE SystemsProofs ---------------------------
(***************************************************************************)
(* Theorems about Systems, for any set of Systems, any pool and any        *)
(* configuration.                                                          *)
(***************************************************************************)
EXTENDS Systems, FiniteSetTheorems, TLAPS

-----------------------------------------------------------------------------
(* Type correctness.                                                       *)

\* The jobs of a System can be counted.
LEMMA PendingType ==
  ASSUME TypeOK, NEW s \in System
  PROVE  Pending(s) \in Nat
<1> USE SystemsAssumption DEF TypeOK
<1>1. IsFiniteSet({i \in DOMAIN jobs : jobs[i].sys = s})
  <2>1. DOMAIN jobs = 1..Len(jobs) /\ Len(jobs) \in Nat
    OBVIOUS
  <2>2. IsFiniteSet(1..Len(jobs))
    BY <2>1, FS_Interval
  <2> QED BY <2>1, <2>2, FS_Subset
<1>2. IsFiniteSet({t \in Thread : thread[t].sys = s})
  <2>1. IsFiniteSet(1..PoolSize)
    BY FS_Interval
  <2> QED BY <2>1, FS_Subset DEF Thread
<1>3. IsFiniteSet(ended[s])
  <2>1. IsFiniteSet(1..actor_worker_threads)
    BY FS_Interval
  <2> QED BY <2>1, FS_Subset DEF Workers
<1> QED BY <1>1, <1>2, <1>3, FS_CardinalityType DEF Pending

\* What start_actor_runtime submits is a worker or the scheduler.
LEMMA NextJobType ==
  ASSUME NEW n \in Nat
  PROVE  NextJob(n) \in {0} \cup Workers
<1>1. actor_worker_threads \in Nat
  BY SystemsAssumption
<1>2. (n + 1) % (actor_worker_threads + 1) \in 0..actor_worker_threads
  BY <1>1
<1> QED BY <1>1, <1>2 DEF NextJob, Workers

\* A step of the application keeps the types.
LEMMA AppType ==
  ASSUME TypeOK, NEW s \in System, AppNext(s) \/ shutdown(s)
  PROVE  TypeOK'
<1> USE DEF TypeOK
<1>1. CASE Run(s)
  BY <1>1 DEF Run, Status
<1>2. CASE submit(s)
  <2>1. [sys |-> s, worker |-> NextJob(Pending(s))] \in Job
    BY PendingType, NextJobType DEF Job
  <2>2. jobs' \in Seq(Job)
    BY <1>2, <2>1 DEF submit
  <2> QED BY <1>2, <2>2 DEF submit
<1>3. CASE start(s)
  BY <1>3 DEF start, listen, Status
<1>4. CASE shutdown(s)
  BY <1>4 DEF shutdown, Status
<1> QED BY <1>1, <1>2, <1>3, <1>4 DEF AppNext

\* A thread that has a job has one of some System.
LEMMA Busy ==
  ASSUME TypeOK, NEW t \in Thread, thread[t] # Idle
  PROVE  thread[t].sys \in System /\ thread[t].worker \in {0} \cup Workers
BY DEF TypeOK, Job

\* A step of a thread keeps the types.
LEMMA ThreadType ==
  ASSUME TypeOK, NEW t \in Thread, ThreadNext(t) \/ LeaveLoop(t)
  PROVE  TypeOK'
<1> USE DEF TypeOK
<1>1. CASE Take(t)
  <2>1. Head(jobs) \in Job /\ Tail(jobs) \in Seq(Job)
    BY <1>1 DEF Take
  <2> QED BY <1>1, <2>1 DEF Take
<1>2. CASE WorkerReturns(t)
  <2>1. thread[t].sys \in System /\ thread[t].worker \in Workers
    BY <1>2, Busy DEF WorkerReturns
  <2> QED BY <1>2, <2>1 DEF WorkerReturns
<1>3. CASE SchedulerReturns(t)
  BY <1>3 DEF SchedulerReturns
<1>4. CASE LeaveLoop(t)
  BY <1>4 DEF LeaveLoop
<1> QED BY <1>1, <1>2, <1>3, <1>4 DEF ThreadNext

\* Every step keeps the types.
LEMMA TypeStep == TypeOK /\ [Next]_vars => TypeOK'
<1> SUFFICES ASSUME TypeOK, [Next]_vars PROVE TypeOK'
  OBVIOUS
<1>1. CASE Finished \/ UNCHANGED vars
  BY <1>1 DEF Finished, vars, TypeOK
<1> QED BY <1>1, AppType, ThreadType DEF Next

\* However many Systems share the pool, its jobs are workers and schedulers of
\* these Systems, and each worker that returns is one of its System.
THEOREM TypeCorrect == Spec => []TypeOK
<1>1. Init => TypeOK
  BY DEF Init, TypeOK, Status
<1> QED BY <1>1, TypeStep, PTL DEF Spec

-----------------------------------------------------------------------------
(* Each System is a Lifecycle.                                             *)

\* What is left alone in the view of r.
Still(r) ==
  /\ phase'[r] = phase[r] /\ ended'[r] = ended[r]
  /\ (status'[r] \in {"failed", "gone"}) = (status[r] \in {"failed", "gone"})

\* Then Lifecycle sees nothing.
LEMMA StillLife ==
  ASSUME NEW r \in System, Still(r)
  PROVE  [L(r)!LifeNext]_(L(r)!lifeVars)
BY DEF Still, L!lifeVars

\* A step of the application that starts or ends s.
LEMMA AppLife ==
  ASSUME TypeOK, NEW s \in System, AppNext(s) \/ shutdown(s), NEW r \in System
  PROVE  [L(r)!LifeNext]_(L(r)!lifeVars)
<1> USE DEF TypeOK
<1>1. CASE r # s \/ Run(s) \/ submit(s)
  <2>1. Still(r)
    BY <1>1 DEF Still, AppNext, Run, submit, start, shutdown
  <2> QED BY <2>1, StillLife
<1>2. CASE r = s /\ (start(s) \/ shutdown(s))
  <2>1. /\ status[r] \notin {"failed", "gone"}
        /\ status'[r] \in {"open", "failed", "gone"}
        /\ phase' = phase /\ ended' = ended
    BY <1>2 DEF start, shutdown, listen
  <2>2. CASE status'[r] = "open"
    <3>1. Still(r)
      BY <2>1, <2>2 DEF Still
    <3> QED BY <3>1, StillLife
  <2>3. CASE status'[r] \in {"failed", "gone"}
    BY <2>1, <2>3 DEF L!LifeNext, L!EndRun
  <2> QED BY <2>1, <2>2, <2>3
<1> QED BY <1>1, <1>2 DEF AppNext

\* A step of a thread: one for the System whose job it has.
LEMMA ThreadLife ==
  ASSUME TypeOK, NEW t \in Thread, ThreadNext(t) \/ LeaveLoop(t), NEW r \in System
  PROVE  [L(r)!LifeNext]_(L(r)!lifeVars)
<1> USE DEF TypeOK
<1>1. CASE Take(t) \/ r # thread[t].sys
  <2>1. Still(r)
    BY <1>1 DEF Still, ThreadNext, Take, WorkerReturns, SchedulerReturns, LeaveLoop
  <2> QED BY <2>1, StillLife
<1>2. CASE r = thread[t].sys /\ WorkerReturns(t)
  <2>1. /\ thread[t].worker \in Workers /\ phase[r] = "left"
        /\ ended'[r] = ended[r] \cup {thread[t].worker}
        /\ phase' = phase /\ status' = status
    BY <1>2, Busy DEF WorkerReturns
  <2>2. CASE thread[t].worker \in ended[r]
    <3>1. Still(r)
      BY <2>1, <2>2 DEF Still
    <3> QED BY <3>1, StillLife
  <2>3. CASE thread[t].worker \notin ended[r]
    BY <2>1, <2>3 DEF L!LifeNext, L!WorkerLeaves
  <2> QED BY <2>2, <2>3
<1>3. CASE r = thread[t].sys /\ SchedulerReturns(t)
  BY <1>3 DEF SchedulerReturns, Disconnected, L!LifeNext, L!Return
<1>4. CASE r = thread[t].sys /\ LeaveLoop(t)
  BY <1>4 DEF LeaveLoop, MayLeave, L!LifeNext, L!Leave
<1> QED BY <1>1, <1>2, <1>3, <1>4 DEF ThreadNext

\* Each runtime lives as Lifecycle says, however many share the pool, however
\* small it is and wherever their jobs wait: none is ended by another one.
THEOREM SystemsImplementLifecycle == Spec => EachImplementsLifecycle
<1>1. Init => \A s \in System : L(s)!LifeInit
  BY DEF Init, L!LifeInit
<1>2. TypeOK /\ [Next]_vars => [\A s \in System : [L(s)!LifeNext]_(L(s)!lifeVars)]_vars
  <2> SUFFICES ASSUME TypeOK, Next, NEW r \in System
               PROVE  [L(r)!LifeNext]_(L(r)!lifeVars)
    OBVIOUS
  <2>1. CASE Finished
    <3>1. Still(r)
      BY <2>1 DEF Finished, vars, Still
    <3> QED BY <3>1, StillLife
  <2> QED BY <2>1, AppLife, ThreadLife DEF Next
<1> QED BY <1>1, <1>2, TypeCorrect, PTL DEF Spec, EachImplementsLifecycle

=============================================================================
