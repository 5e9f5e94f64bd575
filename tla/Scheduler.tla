------------------------------ MODULE Scheduler ------------------------------
(***************************************************************************)
(* The actor runtime of src/src/core.rs: the scheduler thread running      *)
(* event_loop, the threads running worker_loop, the Run handle the         *)
(* application holds, and the two unbounded crossbeam channels between     *)
(* them: `actions` (anybody to the scheduler) and `events` (the scheduler  *)
(* to whichever worker takes the next one).                                *)
(*                                                                         *)
(* An actor is its number: the n-th actor ever constructed is n.  What an  *)
(* actor's receive, on_fail and on_stop do is not known to the runtime:    *)
(* they make any API calls in any order, then return or panic.             *)
(***************************************************************************)
EXTENDS Naturals, Sequences, FiniteSets

CONSTANTS
  Address,          \* the strings used as addresses (tags)
  Remote,           \* those of them that contain '@'
  CLIENT,           \* the tag "$CLIENT"
  NoAddress,        \* the empty string of Envelope::of
  Worker,           \* the actor_worker_threads worker threads
  EagerShutdown,    \* config.eager_shutdown_enabled
  LoggingEnabled,   \* config.logging_enabled
  MetricReporting,  \* config.metric_reporting_enabled
  HalfPrecision,    \* config.delay_precision / 2, in ticks of the clock
  Durations,        \* the durations given to delay()
  HookPanics,       \* may on_fail and on_stop panic?
  RunEnds,          \* how the application may end its Run: "shutdown", "drop"
  MaxSpawns, MaxSends, MaxStops, MaxNotes, MaxTime  \* bounds of the model

ASSUME AddressAssumption ==
  /\ Remote \subseteq Address
  /\ CLIENT \in Address \ Remote
  /\ NoAddress \notin Address

ASSUME ConfigAssumption ==
  /\ IsFiniteSet(Worker)
  /\ {EagerShutdown, LoggingEnabled, MetricReporting, HookPanics} \subseteq BOOLEAN
  /\ RunEnds \subseteq {"shutdown", "drop"}

ASSUME BoundAssumption ==
  /\ HalfPrecision \in Nat
  /\ Durations \subseteq Nat
  /\ {MaxSpawns, MaxSends, MaxStops, MaxNotes, MaxTime} \subseteq Nat

VARIABLES
  sched,     \* where the scheduler thread is: see Phase
  shut,      \* Event::Shutdown events sent after the loop
  horizon,   \* `now` of the current pass over the delayed tasks
  active,    \* scheduler.active
  actors,    \* scheduler.actors: the actors waiting for work, by tag
  queue,     \* scheduler.queue: the mailboxes, by tag
  tasks,     \* scheduler.tasks: delayed envelopes
  notes,     \* event_loop's logs and metrics: how many entries it holds
  actions,   \* the channel to the scheduler
  events,    \* the channel to the workers
  worker,    \* what each worker thread is doing
  run,       \* the application's Run: "open", or "gone" (consumed or dropped)
  now,       \* the clock
  spawned, sent, stops, noted,  \* how many of each the model has issued
  accepted,  \* history: <<actor, tag>> of every spawn the scheduler accepted
  hooked,    \* history: actors whose on_stop or on_fail has been entered
  reported   \* history: log and metric entries handed to the thread pool

loop     == <<sched, shut, horizon>>
registry == <<active, actors, queue>>
budget   == <<spawned, sent, stops, noted>>
history  == <<accepted, hooked, reported>>
vars == <<loop, registry, tasks, notes, actions, events, worker, run, now,
          budget, history>>

-----------------------------------------------------------------------------
(* Types.                                                                  *)

\* "recv": blocked in recv_timeout; "tasks": after the match, until the end
\* of the iteration; "closing": sending the Shutdown events; "drain": the
\* final recv loop; "done": returned; "panicked": unwound by an unwrap().
Phase == {"recv", "tasks", "closing", "drain", "done", "panicked"}

LoopRuns == sched \in {"recv", "tasks"}

\* An envelope is known by the order in which envelopes were created; `at`
\* is its deadline, 0 when it was sent rather than delayed.
Envelope == [id : Nat, at : Nat, to : Address \cup {NoAddress}]
NoEnvelope == [id |-> 0, at |-> 0, to |-> NoAddress]

Entry == [tag : Address, envelope : Envelope]

Note == {"Logs", "Metrics"}
NoNotes == [k \in Note |-> 0]

Action ==
       [type : {"Return"}, tag : Address, actor : Nat, ok : BOOLEAN]
  \cup [type : {"Spawn"}, tag : Address, actor : Nat]
  \cup [type : {"Queue"}, tag : Address, envelope : Envelope]
  \cup [type : {"Delay"}, entry : Entry]
  \cup [type : {"Stop"}, tag : Address]
  \cup [type : Note, n : Nat]
  \cup [type : {"Shutdown"}]

Event ==
       [type : {"Mail"}, tag : Address, actor : Nat, envelope : Envelope]
  \cup [type : {"Stop"}, tag : Address, actor : Nat]
  \cup [type : {"Shutdown"}]

\* "idle": blocked in recv; "drain": Local::drain; "exit": left the loop;
\* "dead": unwound by a panic of on_fail or on_stop.
Activity == {"idle", "receive", "on_fail", "on_stop", "drain", "exit", "dead"}

Thread == [pc : Activity, tag : Address \cup {NoAddress}, actor : Nat,
           envelope : Envelope, notes : [Note -> Nat]]

Idle == [pc |-> "idle", tag |-> NoAddress, actor |-> 0,
         envelope |-> NoEnvelope, notes |-> NoNotes]

\* HashMap::insert and HashMap::remove
Insert(map, key, value) ==
  [k \in DOMAIN map \cup {key} |-> IF k = key THEN value ELSE map[k]]
Without(map, key) == [k \in DOMAIN map \ {key} |-> map[k]]

TypeOK ==
  /\ sched \in Phase
  /\ shut \in 0..Cardinality(Worker)
  /\ horizon \in Nat
  /\ active \subseteq Address
  /\ DOMAIN actors \subseteq Address /\ actors \in [DOMAIN actors -> Nat]
  /\ DOMAIN queue \subseteq Address /\ queue \in [DOMAIN queue -> Seq(Envelope)]
  /\ tasks \subseteq Entry
  /\ notes \in [Note -> Nat]
  /\ actions \in Seq(Action)
  /\ events \in Seq(Event)
  /\ worker \in [Worker -> Thread]
  /\ \A w \in Worker : worker[w].pc \in {"receive", "on_fail", "on_stop"}
                        => worker[w].tag \in Address
  /\ run \in {"open", "gone"}
  /\ now \in Nat
  /\ spawned \in Nat /\ sent \in Nat /\ stops \in Nat /\ noted \in [Note -> Nat]
  /\ accepted \subseteq Nat \X Address
  /\ hooked \subseteq Nat
  /\ reported \in [Note -> Nat]

Init ==
  /\ sched = "recv" /\ shut = 0 /\ horizon = 0
  /\ active = {} /\ actors = <<>> /\ queue = <<>> /\ tasks = {}
  /\ notes = NoNotes
  /\ actions = <<>> /\ events = <<>>
  /\ worker = [w \in Worker |-> Idle]
  /\ run = "open"
  /\ now = 1
  /\ spawned = 0 /\ sent = 0 /\ stops = 0 /\ noted = NoNotes
  /\ accepted = {} /\ hooked = {} /\ reported = NoNotes

-----------------------------------------------------------------------------
(* The API: what Run offers the application and Local (AnySender) offers   *)
(* an actor.  Both send the same actions.                                  *)

Push(action) == actions' = Append(actions, action)

\* Mutant: the remote address stays the tag.
UnadjustedAddress(address) == address

\* A message for a remote actor goes to the client actor, which finds the
\* whole address in the envelope.
adjust_remote_address(address) == IF address \in Remote THEN CLIENT ELSE address

NewEnvelope(address, at) ==
  [id |-> sent + 1, at |-> at,
   to |-> IF address \in Remote THEN address ELSE NoAddress]

send(address) ==
  /\ sent < MaxSends
  /\ sent' = sent + 1
  /\ Push([type |-> "Queue", tag |-> adjust_remote_address(address),
           envelope |-> NewEnvelope(address, 0)])
  /\ UNCHANGED <<spawned, stops>>

delay(address, duration) ==
  /\ sent < MaxSends
  /\ sent' = sent + 1
  /\ Push([type |-> "Delay",
           entry |-> [tag |-> adjust_remote_address(address),
                      envelope |-> NewEnvelope(address, now + duration)]])
  /\ UNCHANGED <<spawned, stops>>

spawn(address) ==
  /\ spawned < MaxSpawns
  /\ spawned' = spawned + 1
  /\ Push([type |-> "Spawn", tag |-> address, actor |-> spawned + 1])
  /\ UNCHANGED <<sent, stops>>

stop(address) ==
  /\ stops < MaxStops
  /\ stops' = stops + 1
  /\ Push([type |-> "Stop", tag |-> address])
  /\ UNCHANGED <<spawned, sent>>

Call ==
  \E address \in Address :
    \/ send(address)
    \/ spawn(address)
    \/ stop(address)
    \/ \E duration \in Durations : delay(address, duration)

\* A call on the Run.  Its unwrap() panics in the caller when the scheduler's
\* receiver is gone, which while the Run is open means the scheduler panicked.
RunCall ==
  /\ run = "open"
  /\ sched # "panicked"
  /\ Call
  /\ UNCHANGED <<loop, registry, tasks, notes, events, worker, run, now, noted, history>>

\* Run::shutdown consumes the Run, and does not care if the send fails.
RunShutdown ==
  /\ run = "open" /\ "shutdown" \in RunEnds
  /\ run' = "gone"
  /\ IF sched = "panicked" THEN UNCHANGED actions ELSE Push([type |-> "Shutdown"])
  /\ UNCHANGED <<loop, registry, tasks, notes, events, worker, now, budget, history>>

\* Run has no Drop: dropping it tells the scheduler nothing.
RunDrop ==
  /\ run = "open" /\ "drop" \in RunEnds
  /\ run' = "gone"
  /\ UNCHANGED <<loop, registry, tasks, notes, actions, events, worker, now, budget, history>>

Tick ==
  /\ now < MaxTime
  /\ now' = now + 1
  /\ UNCHANGED <<loop, registry, tasks, notes, actions, events, worker, run, budget, history>>

-----------------------------------------------------------------------------
(* worker_loop.                                                            *)

\* The worker still holds its ends of the two channels.
Live(w) == worker[w].pc \notin {"exit", "dead"}

\* The worker is running application code.
InHandler(w) == worker[w].pc \in {"receive", "on_fail", "on_stop"}

Enter(w, pc) == worker' = [worker EXCEPT ![w].pc = pc]

\* rx.recv(): only the next event, and only one worker gets it.  (That recv or
\* the send of a Return fails, which also ends worker_loop, would take a
\* scheduler gone before its workers: WorkersCanSend says it never is.)
Take(w, type) ==
  /\ worker[w].pc = "idle"
  /\ events # <<>> /\ Head(events).type = type
  /\ events' = Tail(events)

TakeMail(w) ==
  /\ Take(w, "Mail")
  /\ worker' = [worker EXCEPT ![w] =
                  [pc |-> "receive", tag |-> Head(events).tag, actor |-> Head(events).actor,
                   envelope |-> Head(events).envelope, notes |-> worker[w].notes]]
  /\ UNCHANGED <<loop, registry, tasks, notes, actions, run, now, budget, history>>

TakeStop(w) ==
  /\ Take(w, "Stop")
  /\ worker' = [worker EXCEPT ![w] =
                  [pc |-> "on_stop", tag |-> Head(events).tag, actor |-> Head(events).actor,
                   envelope |-> NoEnvelope, notes |-> worker[w].notes]]
  /\ hooked' = hooked \cup {Head(events).actor}
  /\ UNCHANGED <<loop, registry, tasks, notes, actions, run, now, budget, accepted, reported>>

TakeShutdown(w) ==
  /\ Take(w, "Shutdown")
  /\ Enter(w, "exit")
  /\ UNCHANGED <<loop, registry, tasks, notes, actions, run, now, budget, history>>

\* Local::send, spawn, delay and stop.
HandlerCall(w) ==
  /\ InHandler(w)
  /\ Call
  /\ UNCHANGED <<loop, registry, tasks, notes, events, worker, run, now, noted, history>>

\* Local::log and Local::metric only fill the thread's own buffers.
HandlerNote(w) ==
  /\ InHandler(w)
  /\ \E k \in Note :
       /\ noted[k] < MaxNotes
       /\ noted' = [noted EXCEPT ![k] = @ + 1]
       /\ worker' = [worker EXCEPT ![w].notes[k] = @ + 1]
  /\ UNCHANGED <<loop, registry, tasks, notes, actions, events, run, now,
                 spawned, sent, stops, history>>

\* catch_unwind catches a panic of receive, and on_fail runs.
ReceivePanic(w) ==
  /\ worker[w].pc = "receive"
  /\ Enter(w, "on_fail")
  /\ hooked' = hooked \cup {worker[w].actor}
  /\ UNCHANGED <<loop, registry, tasks, notes, actions, events, run, now, budget,
                 accepted, reported>>

\* The actor goes back to the scheduler after everything it sent.
SendReturn(w) ==
  /\ worker[w].pc \in {"receive", "on_fail"}
  /\ Enter(w, "drain")
  /\ Push([type |-> "Return", tag |-> worker[w].tag, actor |-> worker[w].actor,
           ok |-> worker[w].pc = "receive"])
  /\ UNCHANGED <<loop, registry, tasks, notes, events, run, now, budget, history>>

\* The actor is dropped when on_stop returns.
StopReturn(w) ==
  /\ worker[w].pc = "on_stop"
  /\ Enter(w, "drain")
  /\ UNCHANGED <<loop, registry, tasks, notes, actions, events, run, now, budget, history>>

\* on_fail and on_stop run outside catch_unwind: their panic unwinds
\* worker_loop, with the actor, the Local and both channel ends.
HookPanic(w) ==
  /\ HookPanics
  /\ worker[w].pc \in {"on_fail", "on_stop"}
  /\ Enter(w, "dead")
  /\ UNCHANGED <<loop, registry, tasks, notes, actions, events, run, now, budget, history>>

\* Local::drain, the logs before the metrics, each only if not empty.
Drain(w) ==
  /\ worker[w].pc = "drain"
  /\ \E k \in Note :
       /\ worker[w].notes[k] > 0
       /\ k = "Metrics" => worker[w].notes["Logs"] = 0
       /\ Push([type |-> k, n |-> worker[w].notes[k]])
       /\ worker' = [worker EXCEPT ![w].notes[k] = 0]
  /\ UNCHANGED <<loop, registry, tasks, notes, events, run, now, budget, history>>

Drained(w) ==
  /\ worker[w].pc = "drain" /\ worker[w].notes = NoNotes
  /\ worker' = [worker EXCEPT ![w] = Idle]
  /\ UNCHANGED <<loop, registry, tasks, notes, actions, events, run, now, budget, history>>

WorkerNext(w) ==
  \/ TakeMail(w) \/ TakeStop(w) \/ TakeShutdown(w)
  \/ HandlerCall(w) \/ HandlerNote(w)
  \/ ReceivePanic(w) \/ SendReturn(w) \/ StopReturn(w) \/ HookPanic(w)
  \/ Drain(w) \/ Drained(w)

-----------------------------------------------------------------------------
(* event_loop.  One action per arm of its match.                           *)

\* events_tx.send fails once every worker has dropped its receiver.
EventsOpen == \E w \in Worker : Live(w)

\* Mutant: the whole of delay_precision is added.
EndMatchWholePrecision ==
  sched' = "tasks" /\ horizon' = now + 2 * HalfPrecision /\ UNCHANGED shut

\* The match is over: the deadline of this pass over the tasks is read.
EndMatch == sched' = "tasks" /\ horizon' = now + HalfPrecision /\ UNCHANGED shut

\* events_tx.send(event).unwrap()
SendEvent(event) ==
  IF EventsOpen
  THEN events' = Append(events, event) /\ EndMatch
  ELSE sched' = "panicked" /\ UNCHANGED <<shut, horizon, events>>

Receive(type) ==
  /\ sched = "recv"
  /\ actions # <<>> /\ Head(actions).type = type
  /\ actions' = Tail(actions)

MailEvent(tag, actor, envelope) ==
  [type |-> "Mail", tag |-> tag, actor |-> actor, envelope |-> envelope]
StopEvent(tag, actor) == [type |-> "Stop", tag |-> tag, actor |-> actor]

\* Mutant: the mailbox is left behind.
DeactivateKeepsMailbox(tag) == active' = active \ {tag} /\ UNCHANGED queue

Deactivate(tag) ==
  /\ active' = active \ {tag}
  /\ queue' = Without(queue, tag)

\* Mutant: the failed actor's address stays active.
ReturnFailedStaysActive ==
  /\ Receive("Return")
  /\ Head(actions).tag \in active /\ ~Head(actions).ok
  /\ UNCHANGED <<loop, registry, tasks, notes, events, worker, run, now, budget, history>>

\* The actor failed and is dropped.  `continue 'main` skips the rest of the
\* iteration.
ReturnFailed ==
  /\ Receive("Return")
  /\ Head(actions).tag \in active /\ ~Head(actions).ok
  /\ Deactivate(Head(actions).tag)
  /\ UNCHANGED <<loop, actors, tasks, notes, events, worker, run, now, budget, history>>

\* The actor gets the next envelope of its mailbox,
ReturnNext ==
  LET tag == Head(actions).tag
  IN  /\ Receive("Return")
      /\ tag \in active /\ Head(actions).ok
      /\ queue[tag] # <<>>
      /\ queue' = [queue EXCEPT ![tag] = Tail(@)]
      /\ SendEvent(MailEvent(tag, Head(actions).actor, Head(queue[tag])))
      /\ UNCHANGED <<active, actors, tasks, notes, worker, run, now, budget, history>>

\* Mutant: the actor waits without a look at its mailbox.
ReturnIdleBlind ==
  /\ Receive("Return")
  /\ Head(actions).tag \in active /\ Head(actions).ok
  /\ actors' = Insert(actors, Head(actions).tag, Head(actions).actor)
  /\ EndMatch
  /\ UNCHANGED <<active, queue, tasks, notes, events, worker, run, now, budget, history>>

\* or waits for one.
ReturnIdle ==
  LET tag == Head(actions).tag
  IN  /\ Receive("Return")
      /\ tag \in active /\ Head(actions).ok
      /\ queue[tag] = <<>>
      /\ actors' = Insert(actors, tag, Head(actions).actor)
      /\ EndMatch
      /\ UNCHANGED <<active, queue, tasks, notes, events, worker, run, now, budget, history>>

\* Mutant: an actor stopped while at work is dropped when it returns.
ReturnStoppedDrops ==
  /\ Receive("Return")
  /\ Head(actions).tag \notin active
  /\ queue' = Without(queue, Head(actions).tag)
  /\ EndMatch
  /\ UNCHANGED <<active, actors, tasks, notes, events, worker, run, now, budget, history>>

\* Returned actor was stopped before (removed from active set).
ReturnStopped ==
  LET tag == Head(actions).tag
  IN  /\ Receive("Return")
      /\ tag \notin active
      /\ queue' = Without(queue, tag)
      /\ IF Head(actions).ok
         THEN SendEvent(StopEvent(tag, Head(actions).actor))
         ELSE EndMatch /\ UNCHANGED events
      /\ UNCHANGED <<active, actors, tasks, notes, worker, run, now, budget, history>>

\* Mutant
push_front(mailbox, envelope) == <<envelope>> \o mailbox

push_back(mailbox, envelope) == Append(mailbox, envelope)

\* An envelope for an actor that is at work waits in the mailbox;
QueueBusy ==
  LET tag == Head(actions).tag
  IN  /\ Receive("Queue")
      /\ tag \in active /\ tag \notin DOMAIN actors
      /\ queue' = [queue EXCEPT ![tag] = push_back(@, Head(actions).envelope)]
      /\ EndMatch
      /\ UNCHANGED <<active, actors, tasks, notes, events, worker, run, now, budget, history>>

\* an actor that is waiting gets the first of its mailbox.
QueueIdle ==
  LET tag == Head(actions).tag
      mailbox == push_back(queue[tag], Head(actions).envelope)
  IN  /\ Receive("Queue")
      /\ tag \in active /\ tag \in DOMAIN actors
      /\ queue' = [queue EXCEPT ![tag] = Tail(mailbox)]
      /\ actors' = Without(actors, tag)
      /\ SendEvent(MailEvent(tag, actors[tag], Head(mailbox)))
      /\ UNCHANGED <<active, tasks, notes, worker, run, now, budget, history>>

\* Mutant: a spawn replaces the actor of an active address.
SpawnReplaces ==
  LET tag == Head(actions).tag
  IN  /\ Receive("Spawn")
      /\ active' = active \cup {tag}
      /\ actors' = Insert(actors, tag, Head(actions).actor)
      /\ queue' = Insert(queue, tag, <<>>)
      /\ accepted' = accepted \cup {<<Head(actions).actor, tag>>}
      /\ EndMatch
      /\ UNCHANGED <<tasks, notes, events, worker, run, now, budget, hooked, reported>>

SpawnNew ==
  LET tag == Head(actions).tag
  IN  /\ Receive("Spawn")
      /\ tag \notin active
      /\ active' = active \cup {tag}
      /\ actors' = Insert(actors, tag, Head(actions).actor)
      /\ queue' = Insert(queue, tag, <<>>)
      /\ accepted' = accepted \cup {<<Head(actions).actor, tag>>}
      /\ EndMatch
      /\ UNCHANGED <<tasks, notes, events, worker, run, now, budget, hooked, reported>>

Delay ==
  /\ Receive("Delay")
  /\ tasks' = tasks \cup {Head(actions).entry}
  /\ EndMatch
  /\ UNCHANGED <<registry, notes, events, worker, run, now, budget, history>>

\* The address is forgotten at once; an actor that is at work is stopped
\* when it returns (ReturnStopped).
StopActive ==
  LET tag == Head(actions).tag
  IN  /\ Receive("Stop")
      /\ tag \in active
      /\ Deactivate(tag)
      /\ actors' = Without(actors, tag)
      /\ IF tag \in DOMAIN actors
         THEN SendEvent(StopEvent(tag, actors[tag]))
         ELSE EndMatch /\ UNCHANGED events
      /\ UNCHANGED <<tasks, notes, worker, run, now, budget, history>>

\* The arms of Action::Logs and Action::Metrics
Collect ==
  \E k \in Note :
    /\ Receive(k)
    /\ notes' = [notes EXCEPT ![k] = @ + Head(actions).n]
    /\ EndMatch
    /\ UNCHANGED <<registry, tasks, events, worker, run, now, budget, history>>

\* Everything else is dropped: an envelope or a stop for a tag without an
\* actor, a spawn under a tag that has one.
Drop ==
  /\ \E type \in {"Queue", "Stop", "Spawn"} :
       /\ Receive(type)
       /\ (type = "Spawn") = (Head(actions).tag \in active)
  /\ EndMatch
  /\ UNCHANGED <<registry, tasks, notes, events, worker, run, now, budget, history>>

\* recv_timeout timed out.
Miss ==
  /\ sched = "recv" /\ actions = <<>>
  /\ EndMatch
  /\ UNCHANGED <<registry, tasks, notes, actions, events, worker, run, now, budget, history>>

\* The loop is left: the Scheduler is dropped with the actors it holds.
LeaveLoop ==
  /\ sched' = "closing" /\ horizon' = 0
  /\ active' = {} /\ actors' = <<>> /\ queue' = <<>> /\ tasks' = {}
  /\ notes' = NoNotes

Shutdown ==
  /\ Receive("Shutdown")
  /\ LeaveLoop
  /\ UNCHANGED <<shut, events, worker, run, now, budget, history>>

\* Mutant: the ordering is not reversed.
cmpMaxHeap(e, f) == e.envelope.at >= f.envelope.at

\* Entry's ordering is reversed, so that the BinaryHeap yields an earliest
\* entry; which of several with the same instant is not specified.
cmp(e, f) == e.envelope.at <= f.envelope.at
Peek(e) == e \in tasks /\ \A f \in tasks : cmp(e, f)

\* Mutant: a task whose time is exactly now has to wait.
IsDueStrictly(e) == Peek(e) /\ e.envelope.at < horizon

IsDue(e) == Peek(e) /\ e.envelope.at <= horizon

\* A due envelope goes to the end of the scheduler's own channel.
FireTask ==
  /\ sched = "tasks"
  /\ \E e \in tasks :
       /\ IsDue(e)
       /\ tasks' = tasks \ {e}
       /\ Push([type |-> "Queue", tag |-> e.tag, envelope |-> e.envelope])
  /\ UNCHANGED <<loop, registry, notes, events, worker, run, now, budget, history>>

Enabled(k) == IF k = "Logs" THEN LoggingEnabled ELSE MetricReporting

\* report_logs and report_metrics hand all that was collected to the thread pool.
report(k) == reported[k] + notes[k]

\* Mutant: what was reported is not cleared.
ReportKeeps ==
  /\ reported' = [k \in Note |-> IF Enabled(k) THEN report(k) ELSE reported[k]]
  /\ UNCHANGED notes

Report ==
  /\ reported' = [k \in Note |-> IF Enabled(k) THEN report(k) ELSE reported[k]]
  /\ notes' = [k \in Note |-> IF Enabled(k) THEN 0 ELSE notes[k]]

\* The reporting interval may or may not have elapsed.  The loop goes on
\* unless eager shutdown is enabled and nobody is left.
NextIteration ==
  /\ sched = "tasks" /\ \A e \in tasks : ~IsDue(e)
  /\ ~(EagerShutdown /\ active = {})
  /\ Report \/ UNCHANGED <<reported, notes>>
  /\ sched' = "recv" /\ horizon' = 0
  /\ UNCHANGED <<shut, registry, tasks, actions, events, worker, run, now, budget,
                 accepted, hooked>>

\* Shutdown if there are no running actors.
EagerExit ==
  /\ sched = "tasks" /\ \A e \in tasks : ~IsDue(e)
  /\ EagerShutdown /\ active = {}
  /\ LeaveLoop
  /\ UNCHANGED <<shut, actions, events, worker, run, now, budget, history>>

-----------------------------------------------------------------------------
(* The rest of the closure submitted by start_actor_runtime.               *)

\* Mutant: one Shutdown event too many.
SendShutdownOnceMore ==
  /\ sched = "closing" /\ shut <= Cardinality(Worker)
  /\ IF EventsOpen
     THEN events' = Append(events, [type |-> "Shutdown"]) /\ shut' = shut + 1 /\ UNCHANGED sched
     ELSE sched' = "panicked" /\ UNCHANGED <<shut, events>>
  /\ UNCHANGED <<horizon, registry, tasks, notes, actions, worker, run, now, budget, history>>

\* One Shutdown event for every worker thread that was started.
SendShutdown ==
  /\ sched = "closing" /\ shut < Cardinality(Worker)
  /\ IF EventsOpen
     THEN events' = Append(events, [type |-> "Shutdown"]) /\ shut' = shut + 1 /\ UNCHANGED sched
     ELSE sched' = "panicked" /\ UNCHANGED <<shut, events>>
  /\ UNCHANGED <<horizon, registry, tasks, notes, actions, worker, run, now, budget, history>>

\* Mutant: one Shutdown event too few.
AllButOneNotified ==
  /\ sched = "closing" /\ shut + 1 = Cardinality(Worker)
  /\ sched' = "drain"
  /\ UNCHANGED <<shut, horizon, registry, tasks, notes, actions, events, worker, run, now,
                 budget, history>>

AllNotified ==
  /\ sched = "closing" /\ shut = Cardinality(Worker)
  /\ sched' = "drain"
  /\ UNCHANGED <<shut, horizon, registry, tasks, notes, actions, events, worker, run, now,
                 budget, history>>

\* Drain remaining actions sent while the workers are being shut down,
DrainAction ==
  /\ sched = "drain" /\ actions # <<>>
  /\ actions' = Tail(actions)
  /\ UNCHANGED <<loop, registry, tasks, notes, events, worker, run, now, budget, history>>

\* Mutant: the channel is only emptied, not waited for.
DisconnectedAtOnce == run = "gone"

\* until every sender is dropped: the workers' and the Run's.
Disconnected == (\A w \in Worker : ~Live(w)) /\ run = "gone"

Done ==
  /\ sched = "drain" /\ actions = <<>> /\ Disconnected
  /\ sched' = "done"
  /\ UNCHANGED <<shut, horizon, registry, tasks, notes, actions, events, worker, run, now,
                 budget, history>>

SchedulerNext ==
  \/ ReturnFailed \/ ReturnNext \/ ReturnIdle \/ ReturnStopped
  \/ QueueBusy \/ QueueIdle \/ SpawnNew \/ Delay \/ StopActive
  \/ Collect \/ Drop \/ Miss \/ Shutdown
  \/ FireTask \/ NextIteration \/ EagerExit
  \/ SendShutdown \/ AllNotified \/ DrainAction \/ Done

\* Nothing is left to do; not a step of the system.
Finished ==
  /\ sched \in {"done", "panicked"} /\ now = MaxTime
  /\ UNCHANGED vars

Next ==
  \/ RunCall \/ RunShutdown \/ RunDrop \/ Tick
  \/ SchedulerNext
  \/ \E w \in Worker : WorkerNext(w)
  \/ Finished

\* Threads of the pool run and handlers return; nothing is assumed of the
\* application.
Fairness ==
  /\ WF_vars(SchedulerNext)
  /\ \A w \in Worker : WF_vars(WorkerNext(w))
  /\ WF_vars(Tick)

Spec == Init /\ [][Next]_vars
FairSpec == Spec /\ Fairness

-----------------------------------------------------------------------------
(* Where actors and envelopes are.                                         *)

\* The actors that went out under tag and have not been taken back:
\* in an event, with a worker, or in a Return.
Carried(tag) ==
       {events[i].actor : i \in {j \in DOMAIN events :
                                   events[j].type = "Mail" /\ events[j].tag = tag}}
  \cup {worker[w].actor : w \in {v \in Worker :
                                   worker[v].pc \in {"receive", "on_fail"} /\ worker[v].tag = tag}}
  \cup {actions[i].actor : i \in {j \in DOMAIN actions :
                                    actions[j].type = "Return" /\ actions[j].tag = tag}}

\* Those and the one waiting for work.
Carriers(tag) ==
  Carried(tag) \cup (IF tag \in DOMAIN actors THEN {actors[tag]} ELSE {})

\* The envelopes on their way to the actor of tag, with how far each has come:
\* a higher stage, and in a stage a higher index, is further behind.
Places(tag) ==
       {[stage |-> 0, index |-> 0, envelope |-> worker[w].envelope] :
          w \in {v \in Worker : worker[v].pc = "receive" /\ worker[v].tag = tag}}
  \cup {[stage |-> 1, index |-> i, envelope |-> events[i].envelope] :
          i \in {j \in DOMAIN events : events[j].type = "Mail" /\ events[j].tag = tag}}
  \cup {[stage |-> 2, index |-> i, envelope |-> queue[tag][i]] :
          i \in IF tag \in DOMAIN queue THEN DOMAIN queue[tag] ELSE {}}
  \cup {[stage |-> 3, index |-> i, envelope |-> actions[i].envelope] :
          i \in {j \in DOMAIN actions : actions[j].type = "Queue" /\ actions[j].tag = tag}}

Ahead(p, q) == p.stage < q.stage \/ (p.stage = q.stage /\ p.index < q.index)

-----------------------------------------------------------------------------
(* Safety.                                                                 *)

\* An address has a mailbox exactly while it is active: the unwrap()s of
\* queue.get_mut(&tag) in event_loop never panic, and no mailbox is leaked.
MailboxIffActive == DOMAIN queue = active

\* No wakeup is lost: an actor that waits for work has an empty mailbox, and
\* so the next envelope for it is the one it is handed.
WaitingIsDrained == \A tag \in active \cap DOMAIN actors : queue[tag] = <<>>

\* Nobody is stranded: an active address has an actor somewhere, so its
\* mailbox is read again, except when on_fail itself panicked for that address
\* and took the actor with it.
ActiveHasActor ==
  LoopRuns => \A tag \in active :
                \/ Carriers(tag) # {}
                \/ \E w \in Worker : worker[w].pc = "dead" /\ worker[w].tag = tag

\* Envelopes sent to one address reach its actor in the order they were sent
\* (tests/actors.rs: message_order_perceived): none overtakes another between
\* send() and receive(), across the two channels, the mailbox and the workers,
\* and whatever is stopped, failed and respawned meanwhile.
SentInOrder ==
  \A tag \in Address : \A p, q \in Places(tag) :
    Ahead(p, q) /\ p.envelope.at = 0 /\ q.envelope.at = 0
      => p.envelope.id < q.envelope.id

\* Until something is stopped, an address is bound to one actor at most, and
\* an address that failed has left nothing behind when it is spawned again.
BoundOnceUntilStop ==
  stops = 0 /\ LoopRuns =>
    \A tag \in Address :
      /\ \A a, b \in Carriers(tag) : a = b
      /\ tag \notin active => Carriers(tag) = {}

\* While the loop runs, the only actor ever spawned under an address does not
\* vanish: it is out at work, waiting, on its way to on_stop, or its on_stop or
\* on_fail has been called.
NoSilentDrop ==
  LoopRuns =>
    \A p \in accepted :
      \/ p[1] \in hooked
      \/ p[1] \in Carriers(p[2])
      \/ \E i \in DOMAIN events : events[i] = StopEvent(p[2], p[1])
      \/ \E q \in accepted : q[2] = p[2] /\ q # p

\* The scheduler keeps receiving until the last worker has left, so no worker
\* sends into a closed channel (the comment on the drain loop in
\* start_actor_runtime).
WorkersCanSend == (\E w \in Worker : Live(w)) => sched \notin {"done", "panicked"}

\* The unwrap()s on events_tx.send, in the loop and when the Shutdown events
\* are sent to workers that leave meanwhile, fail only if a panicking hook
\* killed a worker, or there never was one.
SchedulerSurvives ==
  sched = "panicked" => Worker = {} \/ \E w \in Worker : worker[w].pc = "dead"

\* A delayed envelope is not delivered earlier than half of delay_precision
\* before its time, wherever it is on its way.
NotEarly ==
  \A tag \in Address : \A p \in Places(tag) : p.envelope.at <= now + HalfPrecision

\* A pass over the delayed tasks leaves none that was due when it began,
\* whatever the order they came in.
DueFired ==
  [][sched = "tasks" /\ sched' # "tasks" => \A e \in tasks' : e.envelope.at > horizon]_vars

\* An envelope for a remote actor travels to the client actor and nowhere
\* else, sent or delayed.
RemoteViaClient ==
  /\ \A tag \in Address : \A p \in Places(tag) : p.envelope.to # NoAddress => tag = CLIENT
  /\ \A e \in tasks : e.envelope.to # NoAddress => e.tag = CLIENT

-----------------------------------------------------------------------------
(* Where log and metric entries are.                                       *)

\* The sum of the values of f: each is counted as so many pairs.
Units(f) == UNION {{x} \X (1..f[x]) : x \in DOMAIN f}
Total(f) == Cardinality(Units(f))

\* The entries of kind k in the scheduler's channel and in the workers' buffers.
InChannel(k) ==
  [i \in DOMAIN actions |-> IF actions[i].type = k THEN actions[i].n ELSE 0]
InBuffers(k) == [w \in Worker |-> worker[w].notes[k]]

\* While the loop runs no log or metric entry is lost or reported twice: each
\* one written by a handler, even one that then failed, is in its thread's
\* buffer, in the channel, collected, or reported exactly once.  Only a hook
\* that panics takes its buffer with it.
NotesConserved ==
  LoopRuns /\ (\A w \in Worker : worker[w].pc # "dead") =>
    \A k \in Note :
      noted[k] = Total(InBuffers(k)) + Total(InChannel(k)) + notes[k] + reported[k]

-----------------------------------------------------------------------------
(* Refinement.                                                             *)

phase ==
  CASE LoopRuns -> "loop"
    [] sched \in {"closing", "drain"} -> "left"
    [] OTHER -> sched
live == {w \in Worker : Live(w)}
L == INSTANCE Lifecycle

\* The scheduler and its workers start and leave as Lifecycle says, also when
\* workers take their Shutdown events while others are still at work, hooks
\* kill workers, or the Run goes in the middle: no worker leaves before the
\* loop does, and the scheduler returns last.
ImplementsLifecycle == L!LifeSpec

-----------------------------------------------------------------------------
(* Liveness, of FairSpec.                                                  *)

Holds(tag, id) == \E p \in Places(tag) : p.envelope.id = id
Waits(id) == \E tag \in active : \E i \in DOMAIN queue[tag] : queue[tag][i].id = id
AtWork(id) == \E w \in Worker : worker[w].pc = "receive" /\ worker[w].envelope.id = id

\* An envelope in a mailbox is eventually received, unless it is discarded
\* with the mailbox (the actor stopped or failed, or the loop ended).
MailIsReceived ==
  \A id \in 1..MaxSends :
    Waits(id) ~> (AtWork(id) \/ \A tag \in Address : ~Holds(tag, id))

\* A delayed envelope whose time comes is put into the scheduler's channel,
\* also when failures keep skipping the tasks.
DelayFires ==
  \A id \in 1..MaxSends :
    (\E e \in tasks : e.envelope.id = id /\ e.envelope.at <= MaxTime + HalfPrecision)
      ~> (\A e \in tasks : e.envelope.id # id)

\* Once the Run is shut down the workers leave and the scheduler returns,
\* unless it panics because hooks have killed workers.
ShutdownCompletes ==
  (run = "gone") ~> (sched \in {"done", "panicked"} /\ \A w \in Worker : ~Live(w))

-----------------------------------------------------------------------------
(* What the documentation says and the code does not do.                   *)

\* doc/design-guide.md: the Environment binds an Actor under an Address, "thus
\* enforcing all Envelopes sent to a given Address to be received by specific
\* Actor, bound to that specific Address".
OneActorPerAddress ==
  LoopRuns => \A tag \in active : \A a, b \in Carriers(tag) : a = b

\* doc/design-guide.md: "The `on_stop` method of `AnyActor` is called right
\* before an actor is permanently stopped".  When the system has shut itself
\* down because no actor was left, every actor had its on_stop (or on_fail).
StopIsAnnounced == sched = "done" => \A p \in accepted : p[1] \in hooked

=============================================================================
