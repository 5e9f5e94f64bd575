-------------------------- MODULE LifecycleProofs --------------------------
(***************************************************************************)
(* Scheduler implements Lifecycle, and panics only after a hook killed a   *)
(* worker, for any finite set of workers, any configuration and any bounds.*)
(***************************************************************************)
EXTENDS SchedulerProofs, FunctionTheorems

\* A Shutdown event is only sent after the loop, and a Shutdown action only by
\* a Run that is consumed by it.
ShutdownTold ==
  /\ \A i \in DOMAIN events : events[i].type = "Shutdown" => ~LoopRuns
  /\ \A i \in DOMAIN actions : actions[i].type = "Shutdown" => run = "gone"

LifeInv == TypeOK /\ WorkersCanSend /\ ShutdownTold

-----------------------------------------------------------------------------
(* The channels.                                                           *)

\* What is in a channel after something was added was there, or is new.
LEMMA AppendItems ==
  ASSUME NEW T, NEW seq \in Seq(T), NEW item
  PROVE  \A i \in DOMAIN Append(seq, item) :
           \/ i \in DOMAIN seq /\ Append(seq, item)[i] = seq[i]
           \/ Append(seq, item)[i] = item
OBVIOUS

\* What is in a channel after its first item was taken was there.
LEMMA TailItems ==
  ASSUME NEW T, NEW seq \in Seq(T), seq # <<>>
  PROVE  /\ \A i \in DOMAIN Tail(seq) : \E j \in DOMAIN seq : Tail(seq)[i] = seq[j]
         /\ 1 \in DOMAIN seq /\ Head(seq) = seq[1]
<1>1. \A i \in DOMAIN Tail(seq) : i + 1 \in DOMAIN seq /\ Tail(seq)[i] = seq[i + 1]
  OBVIOUS
<1> QED BY <1>1

\* A step that only takes from the channels, or adds what is no Shutdown.
Quiet ==
  /\ \A i \in DOMAIN events' : events'[i].type = "Shutdown" =>
       \E j \in DOMAIN events : events[j].type = "Shutdown"
  /\ \A i \in DOMAIN actions' : actions'[i].type = "Shutdown" =>
       \E j \in DOMAIN actions : actions[j].type = "Shutdown"

\* The loop does not begin again, and the Run does not come back.
Onward == (LoopRuns' => LoopRuns) /\ (run = "gone" => run' = "gone")

\* Such steps keep ShutdownTold.
LEMMA QuietTold ==
  ASSUME ShutdownTold, Quiet, Onward
  PROVE  ShutdownTold'
BY DEF ShutdownTold, Quiet, Onward

\* A call of the application or of a handler.
LEMMA CallQuiet ==
  ASSUME TypeOK, Call, UNCHANGED events
  PROVE  Quiet
<1>1. PICK action : actions' = Append(actions, action) /\ action.type # "Shutdown"
  <2>1. PICK address \in Address :
          \/ send(address) \/ spawn(address) \/ stop(address)
          \/ \E duration \in Durations : delay(address, duration)
    BY DEF Call
  <2>2. CASE send(address)
    <3> DEFINE new == [type |-> "Queue", tag |-> adjust_remote_address(address),
                       envelope |-> NewEnvelope(address, 0)]
    <3>1. actions' = Append(actions, new) /\ new.type # "Shutdown"
      BY <2>2 DEF send, Push
    <3> QED BY <3>1
  <2>3. CASE spawn(address)
    <3> DEFINE new == [type |-> "Spawn", tag |-> address, actor |-> spawned + 1]
    <3>1. actions' = Append(actions, new) /\ new.type # "Shutdown"
      BY <2>3 DEF spawn, Push
    <3> QED BY <3>1
  <2>4. CASE stop(address)
    <3> DEFINE new == [type |-> "Stop", tag |-> address]
    <3>1. actions' = Append(actions, new) /\ new.type # "Shutdown"
      BY <2>4 DEF stop, Push
    <3> QED BY <3>1
  <2>5. ASSUME NEW duration \in Durations, delay(address, duration)
        PROVE  \E new : actions' = Append(actions, new) /\ new.type # "Shutdown"
    <3> DEFINE new == [type |-> "Delay",
                       entry |-> [tag |-> adjust_remote_address(address),
                                  envelope |-> NewEnvelope(address, now + duration)]]
    <3>1. actions' = Append(actions, new) /\ new.type # "Shutdown"
      BY <2>5 DEF delay, Push
    <3> QED BY <3>1
  <2> QED BY <2>1, <2>2, <2>3, <2>4, <2>5
<1>2. actions \in Seq(Action)
  BY DEF TypeOK
<1>3. \A i \in DOMAIN actions' :
        (i \in DOMAIN actions /\ actions'[i] = actions[i]) \/ actions'[i] = action
  BY <1>1, <1>2, AppendItems
<1> QED BY <1>1, <1>3 DEF Quiet

\* An event for a worker, or none when there is nobody to take it.
LEMMA SendEventQuiet ==
  ASSUME TypeOK, NEW event, event.type # "Shutdown", SendEvent(event)
  PROVE  \A i \in DOMAIN events' : events'[i].type = "Shutdown" =>
           \E j \in DOMAIN events : events[j].type = "Shutdown"
<1>1. events \in Seq(Event)
  BY DEF TypeOK
<1>2. CASE events' = events
  BY <1>2
<1>3. CASE events' = Append(events, event)
  <2>1. \A i \in DOMAIN events' :
          (i \in DOMAIN events /\ events'[i] = events[i]) \/ events'[i] = event
    BY <1>1, <1>3, AppendItems
  <2> QED BY <2>1
<1> QED BY <1>2, <1>3 DEF SendEvent

-----------------------------------------------------------------------------
(* The steps.                                                              *)

\* The arms of the match but Shutdown: they stay in the loop or panic.
LEMMA MatchQuiet ==
  ASSUME TypeOK,
         \/ ReturnFailed \/ ReturnNext \/ ReturnIdle \/ ReturnStopped
         \/ QueueBusy \/ QueueIdle \/ SpawnNew \/ Delay \/ StopActive
         \/ Collect \/ Drop
  PROVE  /\ Quiet /\ sched = "recv" /\ UNCHANGED <<run, worker>>
         /\ sched' \in {"recv", "tasks"} \/ (sched' = "panicked" /\ ~EventsOpen)
<1> USE DEF loop, registry, budget, history
<1>1. /\ sched = "recv" /\ actions # <<>> /\ actions' = Tail(actions)
      /\ UNCHANGED <<run, worker>>
  BY DEF ReturnFailed, ReturnNext, ReturnIdle, ReturnStopped, QueueBusy, QueueIdle,
         SpawnNew, Delay, StopActive, Collect, Drop, Receive
<1>2. \/ UNCHANGED events /\ sched' \in {"recv", "tasks"}
      \/ \E event : event.type # "Shutdown" /\ SendEvent(event)
  <2>1. CASE ReturnNext
    BY <2>1 DEF ReturnNext, MailEvent
  <2>2. CASE ReturnStopped
    BY <2>2 DEF ReturnStopped, StopEvent, EndMatch
  <2>3. CASE QueueIdle
    BY <2>3 DEF QueueIdle, MailEvent
  <2>4. CASE StopActive
    BY <2>4 DEF StopActive, StopEvent, EndMatch
  <2>5. CASE ReturnFailed \/ ReturnIdle \/ QueueBusy \/ SpawnNew \/ Delay \/ Collect \/ Drop
    BY <1>1, <2>5 DEF ReturnFailed, ReturnIdle, QueueBusy, SpawnNew, Delay, Collect, Drop, EndMatch
  <2> QED BY <2>1, <2>2, <2>3, <2>4, <2>5
<1>3. \A i \in DOMAIN events' : events'[i].type = "Shutdown" =>
        \E j \in DOMAIN events : events[j].type = "Shutdown"
  BY <1>2, SendEventQuiet
<1>4. \A i \in DOMAIN actions' : \E j \in DOMAIN actions : actions'[i] = actions[j]
  BY <1>1, TailItems DEF TypeOK
<1>5. sched' \in {"recv", "tasks"} \/ (sched' = "panicked" /\ ~EventsOpen)
  BY <1>2 DEF SendEvent, EndMatch
<1> QED BY <1>1, <1>3, <1>4, <1>5 DEF Quiet

\* What the workers do to the channels.
LEMMA WorkerQuiet ==
  ASSUME TypeOK, NEW w \in Worker, WorkerNext(w)
  PROVE  Quiet /\ UNCHANGED <<sched, run>>
<1> USE DEF loop, registry, budget, history
<1>1. UNCHANGED <<sched, run>>
  BY DEF WorkerNext, TakeMail, TakeStop, TakeShutdown, HandlerCall, HandlerNote,
         ReceivePanic, SendReturn, StopReturn, HookPanic, Drain, Drained
<1>2. CASE TakeMail(w) \/ TakeStop(w) \/ TakeShutdown(w)
  <2>1. events # <<>> /\ events' = Tail(events) /\ actions' = actions
    BY <1>2 DEF TakeMail, TakeStop, TakeShutdown, Take
  <2>2. \A i \in DOMAIN events' : \E j \in DOMAIN events : events'[i] = events[j]
    BY <2>1, TailItems DEF TypeOK
  <2> QED BY <1>1, <2>1, <2>2 DEF Quiet
<1>3. CASE HandlerCall(w)
  BY <1>1, <1>3, CallQuiet DEF HandlerCall
<1>4. CASE SendReturn(w) \/ Drain(w)
  <2>1. PICK action : actions' = Append(actions, action) /\ action.type # "Shutdown"
    <3>1. CASE SendReturn(w)
      <4> DEFINE new == [type |-> "Return", tag |-> worker[w].tag, actor |-> worker[w].actor,
                         ok |-> worker[w].pc = "receive"]
      <4>1. actions' = Append(actions, new) /\ new.type # "Shutdown"
        BY <3>1 DEF SendReturn, Push
      <4> QED BY <4>1
    <3>2. CASE Drain(w)
      <4>1. PICK k \in Note : Push([type |-> k, n |-> worker[w].notes[k]])
        BY <3>2 DEF Drain
      <4> DEFINE new == [type |-> k, n |-> worker[w].notes[k]]
      <4>2. actions' = Append(actions, new) /\ new.type # "Shutdown"
        BY <4>1 DEF Push, Note
      <4> QED BY <4>2
    <3> QED BY <1>4, <3>1, <3>2
  <2>2. events' = events
    BY <1>4 DEF SendReturn, Drain
  <2>3. \A i \in DOMAIN actions' :
          (i \in DOMAIN actions /\ actions'[i] = actions[i]) \/ actions'[i] = action
    BY <2>1, AppendItems DEF TypeOK
  <2> QED BY <1>1, <2>1, <2>2, <2>3 DEF Quiet
<1>5. CASE HandlerNote(w) \/ ReceivePanic(w) \/ StopReturn(w) \/ HookPanic(w) \/ Drained(w)
  <2>1. UNCHANGED <<events, actions>>
    BY <1>5 DEF HandlerNote, ReceivePanic, StopReturn, HookPanic, Drained
  <2> QED BY <1>1, <2>1 DEF Quiet
<1> QED BY <1>2, <1>3, <1>4, <1>5 DEF WorkerNext

\* A worker leaves with its Shutdown event, after the loop, or in a hook.
LEMMA WorkerLife ==
  ASSUME LifeInv, NEW w \in Worker, WorkerNext(w)
  PROVE  \/ live' = live
         \/ /\ w \in live /\ live' = live \ {w}
            /\ sched \in {"closing", "drain"} \/ HookPanics
<1> USE DEF LifeInv, TypeOK, Live
<1>1. worker[w].pc \in {"idle", "receive", "on_fail", "on_stop", "drain"} /\ w \in live
  BY DEF WorkerNext, TakeMail, TakeStop, TakeShutdown, Take, HandlerCall, HandlerNote,
         InHandler, ReceivePanic, SendReturn, StopReturn, HookPanic, Drain, Drained, live
<1>2. worker' \in [Worker -> Thread] /\ \A v \in Worker \ {w} : worker'[v] = worker[v]
  <2>1. worker' \in [Worker -> Thread]
    BY TypeWorker
  <2>2. \A v \in Worker \ {w} : worker'[v] = worker[v]
    BY DEF WorkerNext, TakeMail, TakeStop, TakeShutdown, HandlerCall, HandlerNote,
           ReceivePanic, SendReturn, StopReturn, HookPanic, Drain, Drained, Enter
  <2> QED BY <2>1, <2>2
<1>3. CASE TakeShutdown(w)
  <2>1. events # <<>> /\ Head(events).type = "Shutdown" /\ worker'[w].pc = "exit"
    BY <1>3 DEF TakeShutdown, Take, Enter
  <2>2. ~LoopRuns
    BY <2>1, TailItems DEF ShutdownTold
  <2>3. sched \notin {"done", "panicked"}
    BY <1>1 DEF WorkersCanSend, live
  <2>4. sched \in {"closing", "drain"}
    BY <2>2, <2>3 DEF LoopRuns, Phase
  <2>5. live' = live \ {w}
    BY <1>1, <1>2, <2>1 DEF live
  <2> QED BY <1>1, <2>4, <2>5
<1>4. CASE HookPanic(w)
  <2>1. worker'[w].pc = "dead" /\ HookPanics
    BY <1>4 DEF HookPanic, Enter
  <2>2. live' = live \ {w}
    BY <1>1, <1>2, <2>1 DEF live
  <2> QED BY <1>1, <2>1, <2>2
<1>5. CASE ~TakeShutdown(w) /\ ~HookPanic(w)
  <2>1. worker'[w].pc \notin {"exit", "dead"}
    <3>1. CASE TakeMail(w) \/ TakeStop(w) \/ Drained(w)
      BY <3>1 DEF TakeMail, TakeStop, Drained, Idle
    <3>2. CASE ReceivePanic(w) \/ SendReturn(w) \/ StopReturn(w)
      BY <3>2 DEF ReceivePanic, SendReturn, StopReturn, Enter, Thread
    <3>3. CASE HandlerCall(w)
      BY <1>1, <3>3 DEF HandlerCall
    <3>4. CASE HandlerNote(w)
      BY <1>1, <3>4 DEF HandlerNote, Thread
    <3>5. CASE Drain(w)
      BY <1>1, <3>5 DEF Drain, Thread
    <3> QED BY <1>5, <3>1, <3>2, <3>3, <3>4, <3>5 DEF WorkerNext
  <2>2. live' = live
    BY <1>1, <1>2, <2>1 DEF live
  <2> QED BY <2>2
<1> QED BY <1>3, <1>4, <1>5

-----------------------------------------------------------------------------
(* The refinement.                                                         *)

\* The abstract phase of each concrete one.
LEMMA PhaseOf ==
  /\ sched \in {"recv", "tasks"} => phase = "loop"
  /\ sched \in {"closing", "drain"} => phase = "left"
  /\ sched \in {"done", "panicked"} => phase = sched
BY DEF phase, LoopRuns

\* The same of the next state.
LEMMA PhaseNext ==
  /\ sched' \in {"recv", "tasks"} => phase' = "loop"
  /\ sched' \in {"closing", "drain"} => phase' = "left"
  /\ sched' \in {"done", "panicked"} => phase' = sched'
BY DEF phase, LoopRuns

\* A scheduler that panics finds no receiver.
LEMMA NobodyLive == ~EventsOpen <=> live = {}
BY DEF EventsOpen, live

\* A step of Lifecycle, or none.
Abstract == [L!LifeNext]_(L!lifeVars)

\* A step of the application, the clock, or nobody.
LEMMA OutsideLife ==
  ASSUME LifeInv, RunCall \/ RunShutdown \/ RunDrop \/ Tick \/ Finished \/ UNCHANGED vars
  PROVE  ShutdownTold' /\ Abstract
<1> USE DEF loop, registry, budget, history
<1>1. worker' = worker /\ sched' = sched /\ events' = events
  BY DEF RunCall, RunShutdown, RunDrop, Tick, Finished, vars
<1>2. live' = live /\ phase' = phase
  BY <1>1 DEF live, Live, phase, LoopRuns
<1>3. CASE RunShutdown \/ RunDrop
  <2>1. run = "open" /\ run' = "gone"
    BY <1>3 DEF RunShutdown, RunDrop
  <2>2. ShutdownTold'
    BY <1>1, <2>1 DEF LifeInv, ShutdownTold, LoopRuns
  <2> QED BY <1>2, <2>1, <2>2 DEF Abstract, L!LifeNext, L!EndRun
<1>4. CASE RunCall
  <2>1. Quiet /\ run' = run
    BY <1>1, <1>4, CallQuiet DEF LifeInv, RunCall
  <2>2. ShutdownTold'
    BY <1>1, <2>1, QuietTold DEF LifeInv, Onward, LoopRuns
  <2> QED BY <1>2, <2>1, <2>2 DEF Abstract, L!lifeVars
<1>5. CASE Tick \/ Finished \/ UNCHANGED vars
  <2>1. UNCHANGED <<actions, run>>
    BY <1>5 DEF Tick, Finished, vars
  <2>2. ShutdownTold'
    BY <1>1, <2>1 DEF LifeInv, ShutdownTold, LoopRuns
  <2> QED BY <1>2, <2>1, <2>2 DEF Abstract, L!lifeVars
<1> QED BY <1>3, <1>4, <1>5

\* A step of a worker.
LEMMA WorkerAbstract ==
  ASSUME LifeInv, NEW w \in Worker, WorkerNext(w)
  PROVE  ShutdownTold' /\ Abstract
<1>1. Quiet /\ UNCHANGED <<sched, run>>
  BY WorkerQuiet DEF LifeInv
<1>2. ShutdownTold'
  BY <1>1, QuietTold DEF LifeInv, Onward, LoopRuns
<1>3. phase' = phase
  BY <1>1 DEF phase, LoopRuns
<1>4. CASE live' = live
  BY <1>1, <1>2, <1>3, <1>4 DEF Abstract, L!lifeVars
<1>5. CASE /\ w \in live /\ live' = live \ {w}
           /\ sched \in {"closing", "drain"} \/ HookPanics
  <2>1. phase = "left" \/ HookPanics
    BY <1>5, PhaseOf
  <2>2. L!WorkerLeaves(w)
    BY <1>1, <1>3, <1>5, <2>1 DEF L!WorkerLeaves
  <2> QED BY <1>2, <2>2 DEF Abstract, L!LifeNext
<1> QED BY <1>4, <1>5, WorkerLife

\* A step of the scheduler.
LEMMA SchedulerAbstract ==
  ASSUME LifeInv, SchedulerNext
  PROVE  ShutdownTold' /\ Abstract
<1> USE DEF loop, registry, budget, history
<1>1. worker' = worker /\ run' = run /\ live' = live
  <2>1. worker' = worker /\ run' = run
    BY DEF SchedulerNext, ReturnFailed, ReturnNext, ReturnIdle, ReturnStopped,
       QueueBusy, QueueIdle, SpawnNew, Delay, StopActive, Collect, Drop, Miss, Shutdown,
       FireTask, NextIteration, EagerExit, SendShutdown, AllNotified, DrainAction, Done
  <2> QED BY <2>1 DEF live, Live
<1>2. CASE \/ ReturnFailed \/ ReturnNext \/ ReturnIdle \/ ReturnStopped
           \/ QueueBusy \/ QueueIdle \/ SpawnNew \/ Delay \/ StopActive
           \/ Collect \/ Drop
  <2>1. /\ Quiet /\ sched = "recv"
        /\ sched' \in {"recv", "tasks"} \/ (sched' = "panicked" /\ ~EventsOpen)
    BY <1>2, MatchQuiet DEF LifeInv
  <2>2. ShutdownTold'
    BY <1>1, <2>1, QuietTold DEF LifeInv, Onward, LoopRuns
  <2>3. CASE sched' \in {"recv", "tasks"}
    BY <1>1, <2>1, <2>2, <2>3, PhaseOf, PhaseNext DEF Abstract, L!lifeVars
  <2>4. CASE sched' = "panicked" /\ ~EventsOpen
    <3>1. phase = "loop" /\ phase' = "panicked" /\ live = {}
      BY <2>1, <2>4, PhaseOf, PhaseNext, NobodyLive
    <3> QED BY <1>1, <2>2, <3>1 DEF Abstract, L!LifeNext, L!Panic
  <2> QED BY <2>1, <2>3, <2>4
<1>3. CASE Shutdown
  <2>1. /\ sched = "recv" /\ sched' = "closing" /\ events' = events
        /\ actions # <<>> /\ Head(actions).type = "Shutdown" /\ actions' = Tail(actions)
    BY <1>3 DEF Shutdown, Receive, LeaveLoop
  <2>2. /\ \A i \in DOMAIN actions' : \E j \in DOMAIN actions : actions'[i] = actions[j]
        /\ 1 \in DOMAIN actions /\ Head(actions) = actions[1]
    BY <2>1, TailItems DEF LifeInv, TypeOK
  <2>3. run = "gone"
    BY <2>1, <2>2 DEF LifeInv, ShutdownTold
  <2>4. ShutdownTold'
    BY <1>1, <2>1, <2>2 DEF LifeInv, ShutdownTold, LoopRuns
  <2>5. phase = "loop" /\ phase' = "left"
    BY <2>1, PhaseOf, PhaseNext
  <2> QED BY <1>1, <2>3, <2>4, <2>5 DEF Abstract, L!LifeNext, L!Leave
<1>4. CASE EagerExit
  <2>1. sched = "tasks" /\ sched' = "closing" /\ UNCHANGED <<events, actions>> /\ EagerShutdown
    BY <1>4 DEF EagerExit, LeaveLoop
  <2>2. ShutdownTold'
    BY <1>1, <2>1 DEF LifeInv, ShutdownTold, LoopRuns
  <2>3. phase = "loop" /\ phase' = "left"
    BY <2>1, PhaseOf, PhaseNext
  <2> QED BY <1>1, <2>1, <2>2, <2>3 DEF Abstract, L!LifeNext, L!Leave
<1>5. CASE Miss \/ NextIteration
  <2>1. /\ sched \in {"recv", "tasks"} /\ sched' \in {"recv", "tasks"}
        /\ UNCHANGED <<events, actions>>
    BY <1>5 DEF Miss, NextIteration, EndMatch
  <2>2. ShutdownTold'
    BY <1>1, <2>1 DEF LifeInv, ShutdownTold, LoopRuns
  <2>3. phase' = phase
    BY <2>1, PhaseOf, PhaseNext
  <2> QED BY <1>1, <2>2, <2>3 DEF Abstract, L!lifeVars
<1>6. CASE FireTask
  <2>1. PICK e \in tasks :
          actions' = Append(actions, [type |-> "Queue", tag |-> e.tag, envelope |-> e.envelope])
    BY <1>6 DEF FireTask, Push
  <2>2. sched' = sched /\ events' = events
    BY <1>6 DEF FireTask
  <2>3. \A i \in DOMAIN actions' :
          \/ i \in DOMAIN actions /\ actions'[i] = actions[i]
          \/ actions'[i] = [type |-> "Queue", tag |-> e.tag, envelope |-> e.envelope]
    BY <2>1, AppendItems DEF LifeInv, TypeOK
  <2>4. \A i \in DOMAIN actions' : actions'[i].type = "Shutdown" =>
          i \in DOMAIN actions /\ actions'[i] = actions[i]
    BY <2>3
  <2>5. ShutdownTold'
    BY <1>1, <2>2, <2>4 DEF LifeInv, ShutdownTold, LoopRuns
  <2>6. phase' = phase
    BY <2>2 DEF phase, LoopRuns
  <2> QED BY <1>1, <2>5, <2>6 DEF Abstract, L!lifeVars
<1>7. CASE SendShutdown
  <2>1. /\ sched = "closing" /\ actions' = actions
        /\ sched' = "closing" \/ (sched' = "panicked" /\ ~EventsOpen)
    BY <1>7 DEF SendShutdown
  <2>2. ShutdownTold'
    BY <1>1, <2>1 DEF LifeInv, ShutdownTold, LoopRuns
  <2>3. CASE sched' = "closing"
    BY <1>1, <2>1, <2>2, <2>3, PhaseOf, PhaseNext DEF Abstract, L!lifeVars
  <2>4. CASE sched' = "panicked" /\ ~EventsOpen
    <3>1. phase = "left" /\ phase' = "panicked" /\ live = {}
      BY <2>1, <2>4, PhaseOf, PhaseNext, NobodyLive
    <3> QED BY <1>1, <2>2, <3>1 DEF Abstract, L!LifeNext, L!Panic
  <2> QED BY <2>1, <2>3, <2>4
<1>8. CASE AllNotified \/ DrainAction
  <2>1. /\ sched \in {"closing", "drain"} /\ sched' = "drain" /\ events' = events
        /\ actions' = actions \/ (actions # <<>> /\ actions' = Tail(actions))
    BY <1>8 DEF AllNotified, DrainAction
  <2>2. \A i \in DOMAIN actions' : \E j \in DOMAIN actions : actions'[i] = actions[j]
    <3>1. CASE actions' = actions
      BY <3>1
    <3>2. CASE actions # <<>> /\ actions' = Tail(actions)
      BY <3>2, TailItems DEF LifeInv, TypeOK
    <3> QED BY <2>1, <3>1, <3>2
  <2>3. ShutdownTold'
    BY <1>1, <2>1, <2>2 DEF LifeInv, ShutdownTold, LoopRuns
  <2> QED BY <1>1, <2>1, <2>3, PhaseOf, PhaseNext DEF Abstract, L!lifeVars
<1>9. CASE Done
  <2>1. sched = "drain" /\ sched' = "done" /\ UNCHANGED <<events, actions>> /\ Disconnected
    BY <1>9 DEF Done
  <2>2. ShutdownTold'
    BY <1>1, <2>1 DEF LifeInv, ShutdownTold, LoopRuns
  <2>3. phase = "left" /\ phase' = "done" /\ live = {} /\ run = "gone"
    BY <2>1, PhaseOf, PhaseNext DEF Disconnected, live
  <2> QED BY <1>1, <2>2, <2>3 DEF Abstract, L!LifeNext, L!Return
<1> QED BY <1>2, <1>3, <1>4, <1>5, <1>6, <1>7, <1>8, <1>9 DEF SchedulerNext

\* Every step keeps ShutdownTold and is a step of Lifecycle or none.
LEMMA LifeStep == LifeInv /\ [Next]_vars => ShutdownTold' /\ Abstract
BY OutsideLife, WorkerAbstract, SchedulerAbstract DEF Next

\* The actor runtime starts and leaves as Lifecycle says: no worker leaves
\* before event_loop has ended unless a hook killed it, and the scheduler
\* returns after all workers and the Run are gone.
THEOREM RuntimeImplementsLifecycle == Spec => ImplementsLifecycle
<1>1. Init => ShutdownTold /\ L!LifeInit
  <2> SUFFICES ASSUME Init PROVE ShutdownTold /\ L!LifeInit
    OBVIOUS
  <2>1. ShutdownTold
    BY DEF Init, ShutdownTold
  <2>2. live = Worker
    BY DEF Init, live, Live, Idle
  <2>3. phase = "loop" /\ run = "open"
    BY PhaseOf DEF Init
  <2> QED BY <2>1, <2>2, <2>3 DEF L!LifeInit
<1>2. Spec => []TypeOK /\ []WorkersCanSend
  BY TypeCorrect, DrainCoversWorkers, PTL
<1>3. TypeOK /\ WorkersCanSend /\ ShutdownTold /\ [Next]_vars => ShutdownTold' /\ Abstract
  BY LifeStep DEF LifeInv
<1> QED BY <1>1, <1>2, <1>3, PTL DEF Spec, ImplementsLifecycle, L!LifeSpec, Abstract

-----------------------------------------------------------------------------
(* The Shutdown events are counted.                                        *)

ShutdownEvents(seq) == {i \in DOMAIN seq : seq[i].type = "Shutdown"}
Exited == {w \in Worker : worker[w].pc = "exit"}

\* Every Shutdown event sent is in the channel or was taken by one worker, which
\* has left; none is sent while the loop runs.
ShutCounted ==
  /\ shut = Cardinality(ShutdownEvents(events)) + Cardinality(Exited)
  /\ LoopRuns => shut = 0

SurvivalInv == TypeOK /\ ShutCounted /\ SchedulerSurvives

\* The events and the workers that left can be counted.
LEMMA ShutFinite ==
  ASSUME NEW seq \in Seq(Event)
  PROVE  /\ IsFiniteSet(ShutdownEvents(seq)) /\ Cardinality(ShutdownEvents(seq)) \in Nat
         /\ IsFiniteSet(Exited) /\ Cardinality(Exited) \in Nat
<1>1. IsFiniteSet(1..Len(seq))
  BY FS_Interval
<1>2. IsFiniteSet(ShutdownEvents(seq))
  <2>1. ShutdownEvents(seq) \subseteq 1..Len(seq)
    BY DEF ShutdownEvents
  <2> QED BY <1>1, <2>1, FS_Subset
<1>3. IsFiniteSet(Worker) /\ Exited \subseteq Worker
  BY ConfigAssumption DEF Exited
<1>4. IsFiniteSet(Exited)
  BY <1>3, FS_Subset
<1> QED BY <1>2, <1>4, FS_CardinalityType

\* A send adds one when it sends a Shutdown,
LEMMA ShutAppend ==
  ASSUME NEW seq \in Seq(Event), NEW event
  PROVE  Cardinality(ShutdownEvents(Append(seq, event))) =
           Cardinality(ShutdownEvents(seq)) + (IF event.type = "Shutdown" THEN 1 ELSE 0)
<1> DEFINE last == Len(seq) + 1
<1>1. /\ last \notin DOMAIN seq
      /\ \A i : i \in DOMAIN Append(seq, event) <=> i \in DOMAIN seq \/ i = last
      /\ \A i \in DOMAIN seq : Append(seq, event)[i] = seq[i]
      /\ Append(seq, event)[last] = event
  OBVIOUS
<1>2. last \notin ShutdownEvents(seq)
  BY <1>1 DEF ShutdownEvents
<1>3. IsFiniteSet(ShutdownEvents(seq)) /\ Cardinality(ShutdownEvents(seq)) \in Nat
  BY ShutFinite
<1> HIDE DEF last
<1>4. CASE event.type = "Shutdown"
  <2>1. ShutdownEvents(Append(seq, event)) = ShutdownEvents(seq) \cup {last}
    BY <1>1, <1>4 DEF ShutdownEvents
  <2>2. Cardinality(ShutdownEvents(seq) \cup {last}) = Cardinality(ShutdownEvents(seq)) + 1
    BY <1>2, <1>3, FS_AddElement
  <2> QED BY <1>4, <2>1, <2>2
<1>5. CASE event.type # "Shutdown"
  <2>1. ShutdownEvents(Append(seq, event)) = ShutdownEvents(seq)
    BY <1>1, <1>5 DEF ShutdownEvents
  <2> QED BY <1>3, <1>5, <2>1
<1> QED BY <1>4, <1>5

\* and a recv removes one when it takes a Shutdown; the others move up by one.
LEMMA ShutTail ==
  ASSUME NEW seq \in Seq(Event), seq # <<>>
  PROVE  Cardinality(ShutdownEvents(seq)) =
           Cardinality(ShutdownEvents(Tail(seq))) + (IF Head(seq).type = "Shutdown" THEN 1 ELSE 0)
<1> DEFINE ahead == ShutdownEvents(Tail(seq))
           behind == ShutdownEvents(seq) \ {1}
           shift == [i \in ahead |-> i + 1]
<1>1. /\ \A i \in DOMAIN Tail(seq) : i \in Nat /\ i > 0 /\ i + 1 \in DOMAIN seq /\ Tail(seq)[i] = seq[i + 1]
      /\ \A i \in DOMAIN seq : i \in Nat /\ (i = 1 \/ (i - 1 \in DOMAIN Tail(seq) /\ Tail(seq)[i - 1] = seq[i]))
      /\ 1 \in DOMAIN seq /\ Head(seq) = seq[1] /\ Tail(seq) \in Seq(Event)
  OBVIOUS
<1>2. shift \in Bijection(ahead, behind)
  <2>1. \A i \in ahead : i \in Nat /\ i + 1 \in behind
    BY <1>1 DEF ShutdownEvents
  <2>2. \A j \in behind : j - 1 \in ahead /\ (j - 1) + 1 = j
    BY <1>1 DEF ShutdownEvents
  <2>3. shift \in [ahead -> behind]
    BY <2>1
  <2>4. \A i, j \in ahead : shift[i] = shift[j] => i = j
    BY <2>1
  <2>5. \A j \in behind : \E i \in ahead : shift[i] = j
    BY <2>2
  <2> HIDE DEF shift, ahead, behind
  <2> QED BY <2>3, <2>4, <2>5, Fun_IsBij
<1>3. /\ IsFiniteSet(ahead) /\ Cardinality(ahead) \in Nat
      /\ IsFiniteSet(ShutdownEvents(seq)) /\ Cardinality(ShutdownEvents(seq)) \in Nat
  BY <1>1, ShutFinite
<1>4. IsFiniteSet(behind)
  BY <1>3, FS_RemoveElement
<1>5. Cardinality(ahead) = Cardinality(behind)
  <2>1. ExistsBijection(ahead, behind)
    BY <1>2 DEF ExistsBijection
  <2> HIDE DEF ahead, behind
  <2> QED BY <1>3, <1>4, <2>1, FS_Bijection
<1>6. CASE Head(seq).type = "Shutdown"
  <2>1. 1 \in ShutdownEvents(seq)
    BY <1>1, <1>6 DEF ShutdownEvents
  <2>2. Cardinality(behind) = Cardinality(ShutdownEvents(seq)) - 1
    BY <1>3, <2>1, FS_RemoveElement
  <2> HIDE DEF ahead, behind
  <2>3. Cardinality(ShutdownEvents(seq)) = Cardinality(ahead) + 1
    BY <1>3, <1>5, <2>2
  <2> QED BY <1>6, <2>3 DEF ahead
<1>7. CASE Head(seq).type # "Shutdown"
  <2>1. behind = ShutdownEvents(seq)
    BY <1>1, <1>7 DEF ShutdownEvents
  <2>2. Cardinality(ShutdownEvents(seq)) = Cardinality(ahead)
    BY <1>5, <2>1
  <2> HIDE DEF ahead, behind
  <2> QED BY <1>3, <1>7, <2>2 DEF ahead
<1> QED BY <1>6, <1>7

\* When nobody is left to take an event although fewer than all workers were
\* told to leave, a hook killed one.
LEMMA SomebodyDied ==
  ASSUME TypeOK, ShutCounted, ~EventsOpen, shut < Cardinality(Worker)
  PROVE  \E w \in Worker : worker[w].pc = "dead"
<1>1. Cardinality(Exited) <= shut /\ Cardinality(Exited) \in Nat
  BY ShutFinite DEF TypeOK, ShutCounted
<1>2. Cardinality(Exited) < Cardinality(Worker)
  BY <1>1, WorkerCount DEF TypeOK
<1>3. Exited # Worker
  BY <1>1, <1>2
<1> QED BY <1>3 DEF Exited, EventsOpen, Live

\* A scheduler that panics in the loop, where nobody was told to leave.
LEMMA LoopPanic ==
  ASSUME TypeOK, ShutCounted, ~EventsOpen, LoopRuns
  PROVE  Worker = {} \/ \E w \in Worker : worker[w].pc = "dead"
<1>1. CASE Cardinality(Worker) = 0
  BY <1>1, ConfigAssumption, FS_EmptySet
<1>2. CASE Cardinality(Worker) # 0
  <2>1. shut < Cardinality(Worker)
    BY <1>2, WorkerCount DEF ShutCounted
  <2> QED BY <2>1, SomebodyDied
<1> QED BY <1>1, <1>2

\* A step of a worker.
LEMMA SurvivalWorker ==
  ASSUME SurvivalInv, NEW w \in Worker, WorkerNext(w)
  PROVE  ShutCounted' /\ SchedulerSurvives'
<1> USE DEF loop, registry, budget, history
<1>1. UNCHANGED <<sched, shut>>
  BY DEF WorkerNext, TakeMail, TakeStop, TakeShutdown, HandlerCall, HandlerNote,
         ReceivePanic, SendReturn, StopReturn, HookPanic, Drain, Drained
<1>2. worker \in [Worker -> Thread] /\ events \in Seq(Event)
  BY DEF SurvivalInv, TypeOK
<1>3. worker[w].pc \in {"idle", "receive", "on_fail", "on_stop", "drain"}
  BY DEF WorkerNext, TakeMail, TakeStop, TakeShutdown, Take, HandlerCall, HandlerNote,
         InHandler, ReceivePanic, SendReturn, StopReturn, HookPanic, Drain, Drained
<1>4. \A v \in Worker \ {w} : worker'[v] = worker[v]
  BY <1>2 DEF WorkerNext, TakeMail, TakeStop, TakeShutdown, HandlerCall, HandlerNote,
     ReceivePanic, SendReturn, StopReturn, HookPanic, Drain, Drained, Enter
<1>5. SchedulerSurvives'
  <2>1. \A v \in Worker : worker[v].pc = "dead" => worker'[v].pc = "dead"
    BY <1>3, <1>4
  <2> QED BY <1>1, <2>1 DEF SurvivalInv, SchedulerSurvives
<1>6. CASE TakeShutdown(w)
  <2>1. /\ events # <<>> /\ Head(events).type = "Shutdown" /\ events' = Tail(events)
        /\ worker'[w].pc = "exit"
    BY <1>2, <1>6 DEF TakeShutdown, Take, Enter, Thread
  <2>2. Exited' = Exited \cup {w} /\ w \notin Exited
    BY <1>3, <1>4, <2>1 DEF Exited
  <2>3. Cardinality(Exited') = Cardinality(Exited) + 1
    BY <1>2, <2>2, ShutFinite, FS_AddElement
  <2>4. Cardinality(ShutdownEvents(events)) = Cardinality(ShutdownEvents(events')) + 1
    BY <1>2, <2>1, ShutTail
  <2>5. Cardinality(ShutdownEvents(events')) \in Nat /\ Cardinality(Exited) \in Nat
    BY <1>2, <2>1, ShutFinite, HeadEvent DEF SurvivalInv
  <2>6. shut' = Cardinality(ShutdownEvents(events')) + Cardinality(Exited')
    BY <1>1, <2>3, <2>4, <2>5 DEF SurvivalInv, ShutCounted
  <2> QED BY <1>1, <1>5, <2>6 DEF SurvivalInv, ShutCounted, LoopRuns
<1>7. CASE ~TakeShutdown(w)
  <2>1. worker'[w].pc # "exit"
    <3>1. CASE TakeMail(w) \/ TakeStop(w) \/ Drained(w)
      BY <1>2, <3>1 DEF TakeMail, TakeStop, Drained, Idle
    <3>2. CASE ReceivePanic(w) \/ SendReturn(w) \/ StopReturn(w) \/ HookPanic(w)
      BY <1>2, <3>2 DEF ReceivePanic, SendReturn, StopReturn, HookPanic, Enter, Thread
    <3>3. CASE HandlerCall(w)
      BY <1>3, <3>3 DEF HandlerCall
    <3>4. CASE HandlerNote(w)
      BY <1>2, <1>3, <3>4 DEF HandlerNote, Thread
    <3>5. CASE Drain(w)
      BY <1>2, <1>3, <3>5 DEF Drain, Thread
    <3> QED BY <1>7, <3>1, <3>2, <3>3, <3>4, <3>5 DEF WorkerNext
  <2>2. Exited' = Exited
    BY <1>3, <1>4, <2>1 DEF Exited
  <2>3. Cardinality(ShutdownEvents(events')) = Cardinality(ShutdownEvents(events))
    <3>1. CASE TakeMail(w) \/ TakeStop(w)
      <4>1. events # <<>> /\ Head(events).type # "Shutdown" /\ events' = Tail(events)
        BY <3>1 DEF TakeMail, TakeStop, Take
      <4>2. Cardinality(ShutdownEvents(events)) = Cardinality(ShutdownEvents(events')) + 0
        BY <1>2, <4>1, ShutTail
      <4>3. Cardinality(ShutdownEvents(events')) \in Nat
        BY <4>1, ShutFinite, HeadEvent DEF SurvivalInv
      <4> QED BY <4>2, <4>3
    <3>2. CASE ~TakeMail(w) /\ ~TakeStop(w)
      <4>1. events' = events
        BY <1>7, <3>2 DEF WorkerNext, HandlerCall, HandlerNote, ReceivePanic, SendReturn,
           StopReturn, HookPanic, Drain, Drained
      <4> QED BY <4>1
    <3> QED BY <3>1, <3>2
  <2> QED BY <1>1, <1>5, <2>2, <2>3 DEF SurvivalInv, ShutCounted, LoopRuns
<1> QED BY <1>6, <1>7

\* A step of the scheduler.
LEMMA SurvivalScheduler ==
  ASSUME SurvivalInv, SchedulerNext
  PROVE  ShutCounted' /\ SchedulerSurvives'
<1> USE DEF loop, registry, budget, history
<1>1. worker' = worker /\ Exited' = Exited
  <2>1. worker' = worker
    BY DEF SchedulerNext, ReturnFailed, ReturnNext, ReturnIdle, ReturnStopped,
       QueueBusy, QueueIdle, SpawnNew, Delay, StopActive, Collect, Drop, Miss, Shutdown,
       FireTask, NextIteration, EagerExit, SendShutdown, AllNotified, DrainAction, Done
  <2> QED BY <2>1 DEF Exited
<1>2. TypeOK /\ events \in Seq(Event) /\ shut \in Nat
  BY WorkerCount DEF SurvivalInv, TypeOK
<1>3. CASE SendShutdown
  <2>1. CASE EventsOpen
    <3> DEFINE event == [type |-> "Shutdown"]
    <3>1. /\ events' = Append(events, event) /\ shut' = shut + 1 /\ sched' = sched
          /\ sched = "closing" /\ event.type = "Shutdown"
      BY <1>3, <2>1 DEF SendShutdown
    <3> HIDE DEF event
    <3>2. Cardinality(ShutdownEvents(events')) = Cardinality(ShutdownEvents(events)) + 1
      BY <1>2, <3>1, ShutAppend
    <3>3. shut' = Cardinality(ShutdownEvents(events')) + Cardinality(Exited')
      BY <1>1, <1>2, <3>1, <3>2, ShutFinite DEF SurvivalInv, ShutCounted
    <3> QED BY <3>1, <3>3 DEF ShutCounted, SchedulerSurvives, LoopRuns
  <2>2. CASE ~EventsOpen
    <3>1. sched' = "panicked" /\ UNCHANGED <<shut, events>> /\ shut < Cardinality(Worker)
      BY <1>3, <2>2 DEF SendShutdown
    <3>2. \E w \in Worker : worker[w].pc = "dead"
      BY <1>2, <2>2, <3>1, SomebodyDied DEF SurvivalInv
    <3> QED BY <1>1, <3>1, <3>2 DEF SurvivalInv, ShutCounted, SchedulerSurvives, LoopRuns
  <2> QED BY <2>1, <2>2
<1>4. CASE \/ ReturnFailed \/ ReturnNext \/ ReturnIdle \/ ReturnStopped
           \/ QueueBusy \/ QueueIdle \/ SpawnNew \/ Delay \/ StopActive
           \/ Collect \/ Drop
  <2>1. sched = "recv" /\ shut' = shut
    BY <1>4 DEF ReturnFailed, ReturnNext, ReturnIdle, ReturnStopped, QueueBusy, QueueIdle,
       SpawnNew, Delay, StopActive, Collect, Drop, Receive, EndMatch, SendEvent
  <2>2. \/ UNCHANGED events
        \/ \E event : event.type # "Shutdown" /\ events' = Append(events, event)
    <3>1. CASE ReturnNext
      BY <3>1 DEF ReturnNext, MailEvent, SendEvent
    <3>2. CASE ReturnStopped
      BY <3>2 DEF ReturnStopped, StopEvent, SendEvent
    <3>3. CASE QueueIdle
      BY <3>3 DEF QueueIdle, MailEvent, SendEvent
    <3>4. CASE StopActive
      BY <3>4 DEF StopActive, StopEvent, SendEvent
    <3>5. CASE ReturnFailed \/ ReturnIdle \/ QueueBusy \/ SpawnNew \/ Delay \/ Collect \/ Drop
      BY <3>5 DEF ReturnFailed, ReturnIdle, QueueBusy, SpawnNew, Delay, Collect, Drop
    <3> QED BY <1>4, <3>1, <3>2, <3>3, <3>4, <3>5
  <2>3. Cardinality(ShutdownEvents(events')) = Cardinality(ShutdownEvents(events))
    <3>1. ASSUME NEW event, event.type # "Shutdown", events' = Append(events, event)
          PROVE  Cardinality(ShutdownEvents(events')) = Cardinality(ShutdownEvents(events)) + 0
      BY <1>2, <3>1, ShutAppend
    <3>2. Cardinality(ShutdownEvents(events)) \in Nat
      BY <1>2, ShutFinite
    <3> QED BY <2>2, <3>1, <3>2
  <2>4. ShutCounted'
    BY <1>1, <2>1, <2>3 DEF SurvivalInv, ShutCounted, LoopRuns
  <2>5. sched' = "panicked" => ~EventsOpen
    BY <1>2, <1>4, MatchQuiet
  <2>6. SchedulerSurvives'
    BY <1>1, <1>2, <2>1, <2>5, LoopPanic DEF SurvivalInv, SchedulerSurvives, LoopRuns
  <2> QED BY <2>4, <2>6
<1>5. CASE \/ Miss \/ Shutdown \/ FireTask \/ NextIteration \/ EagerExit
           \/ AllNotified \/ DrainAction \/ Done
  <2>1. UNCHANGED <<shut, events>> /\ sched' # "panicked" /\ (LoopRuns' => LoopRuns)
    BY <1>5 DEF Miss, Shutdown, FireTask, NextIteration, EagerExit, AllNotified, DrainAction,
       Done, LeaveLoop, EndMatch, LoopRuns, Receive
  <2> QED BY <1>1, <2>1 DEF SurvivalInv, ShutCounted, SchedulerSurvives
<1> QED BY <1>3, <1>4, <1>5 DEF SchedulerNext

\* The events channel loses its last receiver under the scheduler only when a
\* panic of on_fail or on_stop has killed a worker (or there is none at all):
\* otherwise no unwrap() on events_tx.send panics, in the loop or while the
\* Shutdown events are sent to workers that take them at once and leave.
THEOREM PanicNeedsDeadWorker == Spec => []SchedulerSurvives
<1>1. Init => ShutCounted /\ SchedulerSurvives
  <2> SUFFICES ASSUME Init PROVE ShutCounted /\ SchedulerSurvives
    OBVIOUS
  <2>1. ShutdownEvents(events) = {} /\ Exited = {}
    BY DEF Init, ShutdownEvents, Exited, Idle
  <2>2. Cardinality(ShutdownEvents(events)) = 0 /\ Cardinality(Exited) = 0
    BY <2>1, FS_EmptySet
  <2>3. shut = 0 /\ sched = "recv"
    BY DEF Init
  <2> QED BY <2>2, <2>3 DEF ShutCounted, SchedulerSurvives
<1>2. TypeOK /\ ShutCounted /\ SchedulerSurvives /\ [Next]_vars => ShutCounted' /\ SchedulerSurvives'
  <2> SUFFICES ASSUME SurvivalInv, [Next]_vars
               PROVE  ShutCounted' /\ SchedulerSurvives'
    BY DEF SurvivalInv
  <2>1. CASE RunCall \/ RunShutdown \/ RunDrop \/ Tick \/ Finished \/ UNCHANGED vars
    <3>1. UNCHANGED <<sched, shut, events, worker>>
      BY <2>1 DEF RunCall, RunShutdown, RunDrop, Tick, Finished, vars, loop
    <3> QED BY <3>1 DEF SurvivalInv, ShutCounted, SchedulerSurvives, Exited, LoopRuns
  <2> QED BY <2>1, SurvivalWorker, SurvivalScheduler DEF Next
<1> QED BY <1>1, <1>2, TypeCorrect, PTL DEF Spec

=============================================================================
