-------------------------- MODULE ThreadPoolProofs --------------------------
(***************************************************************************)
(* Theorems about ThreadPool, for any number of threads and tasks.         *)
(***************************************************************************)
EXTENDS ThreadPool, FiniteSetTheorems, FunctionTheorems, TLAPS

\* Where a task given to submit() is.
Accounted ==
  \A id \in owned :
    \/ id \in done
    \/ Running(id)
    \/ \E i \in DOMAIN jobs : jobs[i] = [type |-> "Task", id |-> id]

\* What a link sends is not owned.
LateFrom(n) == \A i \in DOMAIN jobs : i > n /\ jobs[i].type = "Task" => jobs[i].id \notin owned

\* No task of submit() waits behind a Stop job, nor any once a thread has
\* taken one,
StopsLast == \A n \in DOMAIN jobs : jobs[n].type = "Stop" => LateFrom(n)
LeftLast == (\E t \in Threads : thread[t].pc = "exit") => LateFrom(0)

\* because there are none while submit() can be called.
OpenRuns ==
  pool = "open" =>
    /\ \A i \in DOMAIN jobs : jobs[i].type # "Stop"
    /\ \A t \in Threads : thread[t].pc # "exit"

\* join() returns when a thread has left, and without threads nothing can be
\* submitted.
JoinedLeft ==
  /\ \A t \in Threads : t <= joined => thread[t].pc = "exit"
  /\ pool = "dropped" => joined = Size
  /\ owned # {} => Size > 0

\* Only what was sent is run.
RunsSubmitted ==
  /\ \A i \in DOMAIN jobs : jobs[i].type = "Task" => jobs[i].id \in 1..submitted
  /\ \A t \in Threads : thread[t].pc = "run" => thread[t].id \in 1..submitted

PoolInv ==
  /\ TypeOK /\ RunsSubmitted
  /\ Accounted /\ StopsLast /\ LeftLast /\ OpenRuns /\ JoinedLeft

-----------------------------------------------------------------------------
(* The channel.                                                            *)

\* Appending keeps what is there and adds the last.
LEMMA AppendJob ==
  ASSUME jobs \in Seq(Job), NEW job \in Job, jobs' = Append(jobs, job)
  PROVE  /\ jobs' \in Seq(Job)
         /\ \A i \in DOMAIN jobs : i \in DOMAIN jobs' /\ jobs'[i] = jobs[i]
         /\ \A i \in DOMAIN jobs' :
              (i \in DOMAIN jobs /\ jobs'[i] = jobs[i]) \/ (i = Len(jobs) + 1 /\ jobs'[i] = job)
         /\ \A i \in DOMAIN jobs : i \in Nat /\ i > 0 /\ i < Len(jobs) + 1
         /\ Len(jobs) \in Nat
OBVIOUS

\* Taking the first moves the others forward.
LEMMA TailJob ==
  ASSUME jobs \in Seq(Job), jobs # <<>>, jobs' = Tail(jobs)
  PROVE  /\ jobs' \in Seq(Job)
         /\ Head(jobs) = jobs[1] /\ Head(jobs) \in Job /\ 1 \in DOMAIN jobs
         /\ \A i \in DOMAIN jobs' :
              i \in Nat /\ i > 0 /\ i + 1 \in DOMAIN jobs /\ jobs'[i] = jobs[i + 1]
         /\ \A i \in DOMAIN jobs :
              i = 1 \/ \E j \in DOMAIN jobs' : jobs'[j] = jobs[i]
<1>1. \A i \in DOMAIN jobs : i = 1 \/ (i - 1 \in DOMAIN jobs' /\ jobs'[i - 1] = jobs[i])
  OBVIOUS
<1>2. \A i \in DOMAIN jobs' :
        i \in Nat /\ i > 0 /\ i + 1 \in DOMAIN jobs /\ jobs'[i] = jobs[i + 1]
  OBVIOUS
<1>3. Head(jobs) = jobs[1] /\ Head(jobs) \in Job /\ 1 \in DOMAIN jobs /\ jobs' \in Seq(Job)
  OBVIOUS
<1> QED BY <1>1, <1>2, <1>3

-----------------------------------------------------------------------------
(* The inductive step, one lemma for the callers and one for the threads.  *)

\* A task sent by submit() or by a link goes to the end of the channel.
LEMMA SendStep ==
  ASSUME PoolInv, submit \/ link
  PROVE  PoolInv'
<1> DEFINE task == [type |-> "Task", id |-> submitted + 1]
<1>1. TypeOK /\ submitted \in Nat /\ jobs \in Seq(Job) /\ task \in Job
  BY DEF PoolInv, TypeOK, Job
<1>2. /\ jobs' = Append(jobs, task) /\ submitted' = submitted + 1 /\ Receivers
      /\ UNCHANGED <<thread, pool, stopped, joined, done>>
      /\ owned' = owned \/ (pool = "open" /\ owned' = owned \cup {submitted + 1})
  BY DEF submit, link, SendTask
<1>3. task.type = "Task" /\ task.id = submitted + 1
  OBVIOUS
<1> HIDE DEF task
<1>4. /\ jobs' \in Seq(Job)
      /\ \A i \in DOMAIN jobs : i \in DOMAIN jobs' /\ jobs'[i] = jobs[i]
      /\ \A i \in DOMAIN jobs' :
           (i \in DOMAIN jobs /\ jobs'[i] = jobs[i]) \/ (i = Len(jobs) + 1 /\ jobs'[i] = task)
      /\ \A i \in DOMAIN jobs : i \in Nat /\ i > 0 /\ i < Len(jobs) + 1
      /\ Len(jobs) \in Nat
  BY <1>1, <1>2, AppendJob
<1>5. submitted + 1 \notin owned /\ owned \subseteq 1..submitted /\ done \subseteq 1..submitted
  BY <1>1 DEF TypeOK
<1>6. TypeOK'
  <2>1. 1..submitted \subseteq 1..(submitted + 1) /\ submitted + 1 \in 1..(submitted + 1)
    BY <1>1
  <2>2. submitted' \in Nat
    BY <1>1, <1>2
  <2>3. owned' \subseteq 1..submitted'
    <3>1. CASE owned' = owned
      BY <1>2, <1>5, <2>1, <3>1
    <3>2. CASE owned' = owned \cup {submitted + 1}
      BY <1>2, <1>5, <2>1, <3>2
    <3> QED BY <1>2, <3>1, <3>2
  <2>4. done' \subseteq 1..submitted'
    BY <1>2, <1>5, <2>1
  <2> QED BY <1>1, <1>2, <1>4, <2>2, <2>3, <2>4 DEF TypeOK
<1>7. RunsSubmitted'
  <2>1. 1..submitted \subseteq 1..submitted' /\ submitted + 1 \in 1..submitted'
    BY <1>1, <1>2
  <2> QED BY <1>2, <1>3, <1>4, <2>1 DEF PoolInv, RunsSubmitted
<1>8. Accounted'
  <2>1. \A id \in owned : Accounted!(id)'
    BY <1>2, <1>4 DEF PoolInv, Accounted, Running
  <2>2. \E i \in DOMAIN jobs' : jobs'[i] = [type |-> "Task", id |-> submitted + 1]
    <3>1. Len(jobs) + 1 \in DOMAIN jobs' /\ jobs'[Len(jobs) + 1] = task
      BY <1>1, <1>2
    <3> QED BY <3>1 DEF task
  <2> QED BY <1>2, <2>1, <2>2 DEF Accounted
<1>9. ASSUME NEW n \in Nat, LateFrom(n), pool # "open"
      PROVE  LateFrom(n)'
  BY <1>2, <1>3, <1>4, <1>5, <1>9 DEF LateFrom
<1>10. CASE pool = "open"
  <2>1. OpenRuns'
    BY <1>2, <1>3, <1>4, <1>10 DEF PoolInv, OpenRuns
  <2>2. StopsLast' /\ LeftLast'
    BY <1>2, <1>10, <2>1 DEF OpenRuns, StopsLast, LeftLast
  <2>3. JoinedLeft'
    <3>1. Size > 0
      BY <1>2, SizeAssumption DEF Receivers, Threads
    <3> QED BY <1>2, <3>1 DEF PoolInv, JoinedLeft
  <2> QED BY <1>6, <1>8, <1>7, <2>1, <2>2, <2>3 DEF PoolInv
<1>11. CASE pool # "open"
  <2>1. StopsLast'
    BY <1>2, <1>3, <1>4, <1>9, <1>11 DEF PoolInv, StopsLast
  <2>2. LeftLast'
    BY <1>2, <1>9, <1>11 DEF PoolInv, LeftLast
  <2>3. OpenRuns' /\ JoinedLeft'
    BY <1>2, <1>11 DEF PoolInv, OpenRuns, JoinedLeft
  <2> QED BY <1>6, <1>8, <1>7, <2>1, <2>2, <2>3 DEF PoolInv
<1> QED BY <1>10, <1>11

\* drop() appends Stop jobs, then joins the threads in their order.
LEMMA DropStep ==
  ASSUME PoolInv, Drop \/ DropNext
  PROVE  PoolInv'
<1> USE SizeAssumption
<1>1. TypeOK /\ jobs \in Seq(Job) /\ stopped \in 0..Size /\ joined \in 0..Size
  BY DEF PoolInv, TypeOK
<1>2. UNCHANGED <<thread, submitted, owned, done>>
  BY DEF Drop, DropNext, SendStop, BeginJoin, Join, Dropped
<1>3. CASE SendStop
  <2> DEFINE stop == [type |-> "Stop"]
  <2>1. /\ jobs' = Append(jobs, stop) /\ stopped' \in 0..Size
        /\ pool = "stopping" /\ UNCHANGED <<pool, joined>>
    BY <1>1, <1>3 DEF SendStop
  <2>2. stop.type = "Stop" /\ stop \in Job
    BY DEF Job
  <2> HIDE DEF stop
  <2>3. /\ jobs' \in Seq(Job)
        /\ \A i \in DOMAIN jobs : i \in DOMAIN jobs' /\ jobs'[i] = jobs[i]
        /\ \A i \in DOMAIN jobs' :
             (i \in DOMAIN jobs /\ jobs'[i] = jobs[i]) \/ (i = Len(jobs) + 1 /\ jobs'[i] = stop)
        /\ \A i \in DOMAIN jobs : i \in Nat /\ i > 0 /\ i < Len(jobs) + 1
        /\ Len(jobs) \in Nat
    BY <1>1, <2>1, <2>2, AppendJob
  <2>4. TypeOK'
    BY <1>1, <1>2, <2>1, <2>3 DEF TypeOK
  <2>5. Accounted'
    BY <1>2, <2>3 DEF PoolInv, Accounted, Running
  <2>6. \A n \in Nat : LateFrom(n) => LateFrom(n)'
    BY <1>2, <2>2, <2>3 DEF LateFrom
  <2>7. \A n \in Nat : n = Len(jobs) + 1 => LateFrom(n)'
    BY <2>3 DEF LateFrom
  <2>8. StopsLast'
    BY <2>2, <2>3, <2>6, <2>7 DEF PoolInv, StopsLast
  <2>9. LeftLast' /\ OpenRuns' /\ JoinedLeft'
    BY <1>2, <2>1, <2>6 DEF PoolInv, LeftLast, OpenRuns, JoinedLeft
  <2>10. RunsSubmitted'
    BY <1>2, <2>2, <2>3 DEF PoolInv, RunsSubmitted
  <2> QED BY <2>4, <2>5, <2>8, <2>9, <2>10 DEF PoolInv
<1>4. CASE Drop \/ BeginJoin \/ Join \/ Dropped
  <2>1. UNCHANGED <<jobs, stopped>> /\ pool' \in {"stopping", "joining", "dropped"}
    BY <1>4 DEF Drop, BeginJoin, Join, Dropped
  <2>2. joined' \in 0..Size
    BY <1>1, <1>4 DEF Drop, BeginJoin, Join, Dropped
  <2>3. TypeOK'
    BY <1>1, <1>2, <2>1, <2>2 DEF TypeOK
  <2>4. Accounted' /\ StopsLast' /\ LeftLast' /\ OpenRuns' /\ RunsSubmitted'
    BY <1>2, <2>1 DEF PoolInv, RunsSubmitted, Accounted, Running, StopsLast, LeftLast, LateFrom, OpenRuns
  <2>5. \A t \in Threads : t <= joined' => thread[t].pc = "exit"
    <3>1. CASE Join
      <4>1. joined' = joined + 1 /\ thread[joined + 1].pc = "exit"
        BY <3>1 DEF Join
      <4>2. \A t \in Threads : t <= joined' => t <= joined \/ t = joined + 1
        BY <1>1, <4>1 DEF Threads
      <4> QED BY <4>1, <4>2 DEF PoolInv, JoinedLeft
    <3>2. CASE joined' = joined
      BY <3>2 DEF PoolInv, JoinedLeft
    <3> QED BY <1>4, <3>1, <3>2 DEF Drop, BeginJoin, Dropped
  <2>6. pool' = "dropped" => joined' = Size
    BY <1>4 DEF Drop, BeginJoin, Join, Dropped
  <2>7. JoinedLeft'
    BY <1>2, <2>5, <2>6 DEF PoolInv, JoinedLeft
  <2> QED BY <2>3, <2>4, <2>7 DEF PoolInv
<1> QED BY <1>3, <1>4 DEF DropNext

\* A thread takes the first job only: when that is a Stop, nothing owned is
\* behind it.
LEMMA ThreadStep ==
  ASSUME PoolInv, NEW t \in Threads, ThreadNext(t)
  PROVE  PoolInv'
<1>1. TypeOK /\ jobs \in Seq(Job) /\ thread \in [Threads -> Activity]
  BY DEF PoolInv, TypeOK
<1>2. UNCHANGED <<pool, stopped, joined, submitted, owned>>
  BY DEF ThreadNext, TakeTask, TakeStop, Finish
<1>3. CASE TakeTask(t)
  <2>1. /\ jobs # <<>> /\ jobs' = Tail(jobs) /\ Head(jobs).type = "Task"
        /\ thread[t].pc = "recv" /\ done' = done
        /\ thread' = [thread EXCEPT ![t] = [pc |-> "run", id |-> Head(jobs).id]]
    BY <1>3 DEF TakeTask, recv
  <2>2. /\ jobs' \in Seq(Job)
        /\ Head(jobs) = jobs[1] /\ Head(jobs) \in Job /\ 1 \in DOMAIN jobs
        /\ \A i \in DOMAIN jobs' :
             i \in Nat /\ i > 0 /\ i + 1 \in DOMAIN jobs /\ jobs'[i] = jobs[i + 1]
        /\ \A i \in DOMAIN jobs :
             i = 1 \/ \E j \in DOMAIN jobs' : jobs'[j] = jobs[i]
    BY <1>1, <2>1, TailJob
  <2>3. Head(jobs).id \in Nat
    BY <2>1, <2>2 DEF Job
  <2>4. /\ thread' \in [Threads -> Activity]
        /\ thread'[t].pc = "run" /\ thread'[t].id = Head(jobs).id
        /\ \A u \in Threads : u # t => thread'[u] = thread[u]
    BY <1>1, <2>1, <2>3 DEF Activity
  <2>5. TypeOK'
    BY <1>1, <1>2, <2>1, <2>2, <2>4 DEF TypeOK
  <2>6. \A id : Running(id) => Running(id)'
    BY <2>1, <2>4 DEF Running
  <2>7. \A id : id = Head(jobs).id => Running(id)'
    BY <2>4 DEF Running
  <2>8. Accounted'
    <3> SUFFICES ASSUME NEW id \in owned
                 PROVE  Accounted!(id)'
      BY <1>2 DEF Accounted
    <3>1. id \in done \/ Running(id) \/ \E i \in DOMAIN jobs : jobs[i] = [type |-> "Task", id |-> id]
      BY DEF PoolInv, Accounted
    <3>2. CASE \E i \in DOMAIN jobs : jobs[i] = [type |-> "Task", id |-> id]
      <4>1. PICK i \in DOMAIN jobs : jobs[i] = [type |-> "Task", id |-> id]
        BY <3>2
      <4>2. CASE i = 1
        <5>1. Head(jobs).id = id
          BY <2>2, <4>1, <4>2
        <5> QED BY <2>7, <5>1
      <4>3. CASE i # 1
        BY <2>2, <4>1, <4>3
      <4> QED BY <4>2, <4>3
    <3> QED BY <2>1, <2>6, <3>1, <3>2
  <2>9. \A n \in Nat : LateFrom(n + 1) => LateFrom(n)'
    BY <1>2, <2>2 DEF LateFrom
  <2>10. LateFrom(0) => LateFrom(0)'
    BY <1>2, <2>2 DEF LateFrom
  <2>11. StopsLast'
    BY <2>2, <2>9 DEF PoolInv, StopsLast
  <2>12. LeftLast' /\ OpenRuns' /\ JoinedLeft'
    BY <1>2, <2>1, <2>2, <2>4, <2>10 DEF PoolInv, LeftLast, OpenRuns, JoinedLeft
  <2>13. RunsSubmitted'
    BY <1>2, <2>1, <2>2, <2>4 DEF PoolInv, RunsSubmitted
  <2> QED BY <2>5, <2>8, <2>11, <2>12, <2>13 DEF PoolInv
<1>4. CASE TakeStop(t)
  <2>1. /\ jobs # <<>> /\ jobs' = Tail(jobs) /\ Head(jobs).type = "Stop"
        /\ thread[t].pc = "recv" /\ done' = done
        /\ thread' = [thread EXCEPT ![t].pc = "exit"]
    BY <1>4 DEF TakeStop, recv
  <2>2. /\ jobs' \in Seq(Job)
        /\ Head(jobs) = jobs[1] /\ Head(jobs) \in Job /\ 1 \in DOMAIN jobs
        /\ \A i \in DOMAIN jobs' :
             i \in Nat /\ i > 0 /\ i + 1 \in DOMAIN jobs /\ jobs'[i] = jobs[i + 1]
        /\ \A i \in DOMAIN jobs :
             i = 1 \/ \E j \in DOMAIN jobs' : jobs'[j] = jobs[i]
    BY <1>1, <2>1, TailJob
  <2>3. /\ thread' \in [Threads -> Activity]
        /\ thread'[t].pc = "exit"
        /\ \A u \in Threads : u # t => thread'[u] = thread[u]
    BY <1>1, <2>1 DEF Activity
  <2>4. TypeOK'
    BY <1>1, <1>2, <2>1, <2>2, <2>3 DEF TypeOK
  <2>5. Accounted'
    <3> SUFFICES ASSUME NEW id \in owned
                 PROVE  Accounted!(id)'
      BY <1>2 DEF Accounted
    <3>1. id \in done \/ Running(id) \/ \E i \in DOMAIN jobs : jobs[i] = [type |-> "Task", id |-> id]
      BY DEF PoolInv, Accounted
    <3>2. Running(id) => Running(id)'
      BY <2>1, <2>3 DEF Running
    <3>3. ASSUME NEW i \in DOMAIN jobs, jobs[i] = [type |-> "Task", id |-> id]
          PROVE  \E j \in DOMAIN jobs' : jobs'[j] = [type |-> "Task", id |-> id]
      <4>1. i # 1
        BY <2>1, <2>2, <3>3
      <4> QED BY <2>2, <3>3, <4>1
    <3> QED BY <2>1, <3>1, <3>2, <3>3
  <2>6. LateFrom(1)
    BY <2>1, <2>2 DEF PoolInv, StopsLast
  <2>7. LateFrom(0)'
    BY <1>2, <2>2, <2>6 DEF LateFrom
  <2>8. StopsLast' /\ LeftLast'
    BY <2>2, <2>7 DEF StopsLast, LeftLast, LateFrom
  <2>9. OpenRuns' /\ JoinedLeft'
    BY <1>2, <2>1, <2>2, <2>3 DEF PoolInv, OpenRuns, JoinedLeft
  <2>10. RunsSubmitted'
    BY <1>2, <2>2, <2>3 DEF PoolInv, RunsSubmitted
  <2> QED BY <2>4, <2>5, <2>8, <2>9, <2>10 DEF PoolInv
<1>5. CASE Finish(t)
  <2>1. /\ thread[t].pc = "run" /\ jobs' = jobs /\ done' = done \cup {thread[t].id}
        /\ thread' = [thread EXCEPT ![t] = [pc |-> "recv", id |-> 0]]
    BY <1>5 DEF Finish
  <2>2. /\ thread' \in [Threads -> Activity]
        /\ thread'[t].pc = "recv"
        /\ \A u \in Threads : u # t => thread'[u] = thread[u]
    BY <1>1, <2>1 DEF Activity
  <2>3. TypeOK'
    <3>1. thread[t].id \in 1..submitted
      BY <2>1 DEF PoolInv, RunsSubmitted
    <3> QED BY <1>1, <1>2, <2>1, <2>2, <3>1 DEF TypeOK
  <2>4. Accounted'
    <3>1. \A id : Running(id) => Running(id)' \/ id \in done'
      BY <2>1, <2>2 DEF Running
    <3> QED BY <1>2, <2>1, <3>1 DEF PoolInv, Accounted
  <2>5. StopsLast' /\ LeftLast' /\ OpenRuns' /\ JoinedLeft'
    BY <1>2, <2>1, <2>2 DEF PoolInv, StopsLast, LeftLast, LateFrom, OpenRuns, JoinedLeft
  <2>6. RunsSubmitted'
    BY <1>2, <2>1, <2>2 DEF PoolInv, RunsSubmitted
  <2> QED BY <2>3, <2>4, <2>5, <2>6 DEF PoolInv
<1> QED BY <1>3, <1>4, <1>5 DEF ThreadNext

-----------------------------------------------------------------------------

\* PoolInv is inductive and always holds.
THEOREM PoolSafe == Spec => []PoolInv
<1>1. Init => PoolInv
  BY SizeAssumption DEF Init, PoolInv, TypeOK, RunsSubmitted, Accounted, StopsLast,
     LeftLast, LateFrom, OpenRuns, JoinedLeft, Threads, Activity, Job
<1>2. PoolInv /\ [Next]_vars => PoolInv'
  <2> SUFFICES ASSUME PoolInv, [Next]_vars
               PROVE  PoolInv'
    OBVIOUS
  <2>1. CASE UNCHANGED vars
    BY <2>1 DEF vars, PoolInv, TypeOK, RunsSubmitted, Accounted, Running, StopsLast,
       LeftLast, LateFrom, OpenRuns, JoinedLeft
  <2>2. CASE submit \/ link
    BY <2>2, SendStep
  <2>3. CASE Drop \/ DropNext
    BY <2>3, DropStep
  <2>4. CASE \E t \in Threads : ThreadNext(t)
    BY <2>4, ThreadStep
  <2> QED BY <2>1, <2>2, <2>3, <2>4 DEF Next, Finished
<1> QED BY <1>1, <1>2, PTL DEF Spec

\* When ThreadPool::drop returns, every task given to submit() is over: all
\* threads have left, each by a Stop job, and no such task is behind one.
THEOREM DropWaits == Spec => []DropFinishesTasks
<1>1. PoolInv => DropFinishesTasks
  <2> SUFFICES ASSUME PoolInv, pool = "dropped", NEW id \in owned
               PROVE  id \in done
    BY DEF DropFinishesTasks
  <2>1. \A t \in Threads : thread[t].pc = "exit"
    BY SizeAssumption DEF PoolInv, JoinedLeft, Threads
  <2>2. ~Running(id)
    BY <2>1 DEF Running
  <2>3. Threads # {}
    <3>1. Size > 0 /\ 1 \in 1..Size
      BY SizeAssumption DEF PoolInv, JoinedLeft
    <3> QED BY <3>1 DEF Threads
  <2>4. LateFrom(0)
    BY <2>1, <2>3 DEF PoolInv, LeftLast
  <2>5. \A i \in DOMAIN jobs : i > 0
    BY DEF PoolInv, TypeOK
  <2>6. \A i \in DOMAIN jobs : jobs[i] # [type |-> "Task", id |-> id]
    BY <2>4, <2>5 DEF LateFrom
  <2> QED BY <2>2, <2>6 DEF PoolInv, Accounted
<1> QED BY <1>1, PoolSafe, PTL

\* The pool keeps its types: drop() sends at most one Stop job per thread,
\* joins no more threads than there are, and only what was sent is done.
THEOREM PoolTypes == Spec => []TypeOK
<1>1. PoolInv => TypeOK
  BY DEF PoolInv
<1> QED BY <1>1, PoolSafe, PTL

-----------------------------------------------------------------------------
(* How many Stop jobs there are.                                           *)

StopJobs(seq) == {i \in DOMAIN seq : seq[i].type = "Stop"}
Left == {t \in Threads : thread[t].pc = "exit"}

\* They can be counted.
LEMMA StopsFinite ==
  ASSUME NEW seq \in Seq(Job)
  PROVE  IsFiniteSet(StopJobs(seq)) /\ Cardinality(StopJobs(seq)) \in Nat
<1>1. IsFiniteSet(1..Len(seq))
  BY FS_Interval
<1>2. StopJobs(seq) \subseteq 1..Len(seq)
  BY DEF StopJobs
<1>3. IsFiniteSet(StopJobs(seq))
  BY <1>1, <1>2, FS_Subset
<1> QED BY <1>3, FS_CardinalityType

\* A send adds one when it sends a Stop,
LEMMA StopsAppend ==
  ASSUME NEW seq \in Seq(Job), NEW job \in Job
  PROVE  Cardinality(StopJobs(Append(seq, job))) =
           Cardinality(StopJobs(seq)) + (IF job.type = "Stop" THEN 1 ELSE 0)
<1> DEFINE last == Len(seq) + 1
<1>1. /\ last \notin DOMAIN seq
      /\ \A i : i \in DOMAIN Append(seq, job) <=> i \in DOMAIN seq \/ i = last
      /\ \A i \in DOMAIN seq : Append(seq, job)[i] = seq[i]
      /\ Append(seq, job)[last] = job
  OBVIOUS
<1>2. last \notin StopJobs(seq)
  BY <1>1 DEF StopJobs
<1>3. IsFiniteSet(StopJobs(seq)) /\ Cardinality(StopJobs(seq)) \in Nat
  BY StopsFinite
<1> HIDE DEF last
<1>4. CASE job.type = "Stop"
  <2>1. StopJobs(Append(seq, job)) = StopJobs(seq) \cup {last}
    BY <1>1, <1>4 DEF StopJobs
  <2>2. Cardinality(StopJobs(seq) \cup {last}) = Cardinality(StopJobs(seq)) + 1
    BY <1>2, <1>3, FS_AddElement
  <2> QED BY <1>4, <2>1, <2>2
<1>5. CASE job.type # "Stop"
  <2>1. StopJobs(Append(seq, job)) = StopJobs(seq)
    BY <1>1, <1>5 DEF StopJobs
  <2> QED BY <1>3, <1>5, <2>1
<1> QED BY <1>4, <1>5

\* and a recv removes one when it takes a Stop; the others move up by one.
LEMMA StopsTail ==
  ASSUME NEW seq \in Seq(Job), seq # <<>>
  PROVE  Cardinality(StopJobs(seq)) =
           Cardinality(StopJobs(Tail(seq))) + (IF Head(seq).type = "Stop" THEN 1 ELSE 0)
<1> DEFINE ahead == StopJobs(Tail(seq))
           behind == StopJobs(seq) \ {1}
           shift == [i \in ahead |-> i + 1]
<1>1. /\ \A i \in DOMAIN Tail(seq) : i \in Nat /\ i > 0 /\ i + 1 \in DOMAIN seq /\ Tail(seq)[i] = seq[i + 1]
      /\ \A i \in DOMAIN seq : i \in Nat /\ (i = 1 \/ (i - 1 \in DOMAIN Tail(seq) /\ Tail(seq)[i - 1] = seq[i]))
      /\ 1 \in DOMAIN seq /\ Head(seq) = seq[1] /\ Tail(seq) \in Seq(Job)
  OBVIOUS
<1>2. shift \in Bijection(ahead, behind)
  <2>1. \A i \in ahead : i \in Nat /\ i + 1 \in behind
    BY <1>1 DEF StopJobs
  <2>2. \A j \in behind : j - 1 \in ahead /\ (j - 1) + 1 = j
    BY <1>1 DEF StopJobs
  <2>3. shift \in [ahead -> behind]
    BY <2>1
  <2>4. \A i, j \in ahead : shift[i] = shift[j] => i = j
    BY <2>1
  <2>5. \A j \in behind : \E i \in ahead : shift[i] = j
    BY <2>2
  <2> HIDE DEF shift, ahead, behind
  <2> QED BY <2>3, <2>4, <2>5, Fun_IsBij
<1>3. IsFiniteSet(ahead) /\ IsFiniteSet(StopJobs(seq)) /\ Cardinality(StopJobs(seq)) \in Nat
      /\ Cardinality(ahead) \in Nat
  BY <1>1, StopsFinite
<1>4. IsFiniteSet(behind)
  BY <1>3, FS_RemoveElement
<1>5. Cardinality(ahead) = Cardinality(behind)
  <2>1. ExistsBijection(ahead, behind)
    BY <1>2 DEF ExistsBijection
  <2> HIDE DEF ahead, behind
  <2> QED BY <1>3, <1>4, <2>1, FS_Bijection
<1>6. CASE Head(seq).type = "Stop"
  <2>1. 1 \in StopJobs(seq)
    BY <1>1, <1>6 DEF StopJobs
  <2>2. Cardinality(behind) = Cardinality(StopJobs(seq)) - 1
    BY <1>3, <2>1, FS_RemoveElement
  <2> HIDE DEF ahead, behind
  <2>3. Cardinality(StopJobs(seq)) = Cardinality(ahead) + 1
    BY <1>3, <1>5, <2>2
  <2> QED BY <1>6, <2>3 DEF ahead
<1>7. CASE Head(seq).type # "Stop"
  <2>1. behind = StopJobs(seq)
    BY <1>1, <1>7 DEF StopJobs
  <2>2. Cardinality(StopJobs(seq)) = Cardinality(ahead)
    BY <1>5, <2>1
  <2> HIDE DEF ahead, behind
  <2> QED BY <1>3, <1>7, <2>2 DEF ahead
<1> QED BY <1>6, <1>7

\* A thread that leaves is counted once.
LEMMA LeftFinite == IsFiniteSet(Left) /\ Cardinality(Left) \in Nat
<1>1. IsFiniteSet(Threads)
  BY SizeAssumption, FS_Interval DEF Threads
<1>2. IsFiniteSet(Left)
  BY <1>1, FS_Subset DEF Left
<1> QED BY <1>2, FS_CardinalityType

\* One Stop job is sent, or taken by a thread that leaves, at a time.
LEMMA StopStep == PoolInv /\ StopPerThread /\ [Next]_vars => StopPerThread'
<1> SUFFICES ASSUME PoolInv, [Next]_vars,
                    stopped = Cardinality(StopJobs(jobs)) + Cardinality(Left)
             PROVE  stopped' = Cardinality(StopJobs(jobs')) + Cardinality(Left')
  BY DEF StopPerThread, StopJobs, Left
<1>0. jobs \in Seq(Job) /\ thread \in [Threads -> Activity] /\ submitted \in Nat
  BY DEF PoolInv, TypeOK
<1>1. CASE submit \/ link
  <2> DEFINE task == [type |-> "Task", id |-> submitted + 1]
  <2>1. /\ jobs' = Append(jobs, task) /\ task \in Job /\ task.type # "Stop"
        /\ UNCHANGED <<thread, stopped>>
    BY <1>0, <1>1 DEF submit, link, SendTask, Job
  <2> HIDE DEF task
  <2>2. Cardinality(StopJobs(jobs')) = Cardinality(StopJobs(jobs)) + 0
    BY <1>0, <2>1, StopsAppend
  <2> QED BY <1>0, <2>1, <2>2, StopsFinite DEF Left
<1>2. CASE SendStop
  <2> DEFINE job == [type |-> "Stop"]
  <2>1. /\ jobs' = Append(jobs, job) /\ job \in Job /\ job.type = "Stop"
        /\ thread' = thread /\ stopped' = stopped + 1
    BY <1>2 DEF SendStop, Job
  <2> HIDE DEF job
  <2>2. Cardinality(StopJobs(jobs')) = Cardinality(StopJobs(jobs)) + 1
    BY <1>0, <2>1, StopsAppend
  <2>3. Left' = Left
    BY <2>1 DEF Left
  <2> QED BY <1>0, <2>1, <2>2, <2>3, StopsFinite, LeftFinite
<1>3. CASE Drop \/ BeginJoin \/ Join \/ Dropped \/ UNCHANGED vars
  <2>1. UNCHANGED <<jobs, thread, stopped>>
    BY <1>3 DEF Drop, BeginJoin, Join, Dropped, vars
  <2> QED BY <2>1 DEF Left
<1>4. ASSUME NEW t \in Threads, ThreadNext(t)
      PROVE  stopped' = Cardinality(StopJobs(jobs')) + Cardinality(Left')
  <2>1. stopped' = stopped
    BY <1>4 DEF ThreadNext, TakeTask, TakeStop, Finish
  <2>2. CASE TakeTask(t)
    <3>1. /\ jobs # <<>> /\ jobs' = Tail(jobs) /\ Head(jobs).type # "Stop"
          /\ thread[t].pc # "exit"
          /\ thread' = [thread EXCEPT ![t] = [pc |-> "run", id |-> Head(jobs).id]]
      BY <2>2 DEF TakeTask, recv
    <3>2. Left' = Left
      BY <1>0, <3>1 DEF Left
    <3>3. Cardinality(StopJobs(jobs)) = Cardinality(StopJobs(jobs')) + 0 /\ jobs' \in Seq(Job)
      BY <1>0, <3>1, StopsTail
    <3> QED BY <2>1, <3>2, <3>3, StopsFinite
  <2>3. CASE TakeStop(t)
    <3>1. /\ jobs # <<>> /\ jobs' = Tail(jobs) /\ Head(jobs).type = "Stop"
          /\ thread[t].pc # "exit"
          /\ thread' = [thread EXCEPT ![t].pc = "exit"]
      BY <2>3 DEF TakeStop, recv
    <3>2. Left' = Left \cup {t} /\ t \notin Left
      BY <1>0, <3>1 DEF Left, Activity
    <3>3. Cardinality(Left') = Cardinality(Left) + 1
      BY <3>2, LeftFinite, FS_AddElement
    <3>4. Cardinality(StopJobs(jobs)) = Cardinality(StopJobs(jobs')) + 1 /\ jobs' \in Seq(Job)
      BY <1>0, <3>1, StopsTail
    <3> QED BY <2>1, <3>3, <3>4, StopsFinite, LeftFinite
  <2>4. CASE Finish(t)
    <3>1. /\ jobs' = jobs /\ thread[t].pc # "exit"
          /\ thread' = [thread EXCEPT ![t] = [pc |-> "recv", id |-> 0]]
      BY <2>4 DEF Finish
    <3>2. Left' = Left
      BY <1>0, <3>1 DEF Left
    <3> QED BY <2>1, <3>1, <3>2
  <2> QED BY <1>4, <2>2, <2>3, <2>4 DEF ThreadNext
<1> QED BY <1>1, <1>2, <1>3, <1>4 DEF Next, DropNext, Finished

\* The Stop jobs sent by ThreadPool::drop are those in the channel and one for
\* every thread that has left: no thread leaves for another reason, a panic of
\* its task included, so the unwrap() of each send finds a receiver and each
\* join a thread with a Stop for it.
THEOREM StopsMatchThreads == Spec => []StopPerThread
<1>1. Init => StopPerThread
  <2> SUFFICES ASSUME Init PROVE StopPerThread
    OBVIOUS
  <2>1. StopJobs(jobs) = {} /\ Left = {}
    BY DEF Init, StopJobs, Left
  <2>2. stopped = 0
    BY DEF Init
  <2>3. Cardinality(StopJobs(jobs)) = 0 /\ Cardinality(Left) = 0
    BY <2>1, FS_EmptySet
  <2>4. stopped = Cardinality(StopJobs(jobs)) + Cardinality(Left)
    BY <2>2, <2>3
  <2> QED BY <2>4 DEF StopPerThread, StopJobs, Left
<1> QED BY <1>1, PoolSafe, StopStep, PTL DEF Spec

\* While ThreadPool::drop still sends Stop jobs, somebody receives: the unwrap()
\* of its sends does not panic, whatever the threads did before.
THEOREM StopFindsReceiver == Spec => [](pool = "stopping" /\ stopped < Size => Receivers)
<1>1. ASSUME PoolInv, StopPerThread, pool = "stopping", stopped < Size
      PROVE  Receivers
  <2>1. IsFiniteSet(Threads) /\ Cardinality(Threads) = Size
    BY SizeAssumption, FS_Interval DEF Threads
  <2>2. jobs \in Seq(Job)
    BY <1>1 DEF PoolInv, TypeOK
  <2>3. stopped = Cardinality(StopJobs(jobs)) + Cardinality(Left)
    BY <1>1 DEF StopPerThread, StopJobs, Left
  <2>4. Cardinality(Left) < Cardinality(Threads)
    BY <1>1, <2>1, <2>2, <2>3, StopsFinite, LeftFinite, SizeAssumption
  <2>5. Left # Threads
    BY <2>4, LeftFinite
  <2> QED BY <2>5 DEF Left, Receivers
<1> QED BY <1>1, PoolSafe, StopsMatchThreads, PTL

=============================================================================
