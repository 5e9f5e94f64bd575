------------------------- MODULE SchedulerMailProofs -------------------------
(***************************************************************************)
(* Theorems about what is on its way through Scheduler: the envelopes,     *)
(* where they may be, and when, and in which order those sent to one       *)
(* address are received; and the log and metric entries, none of which is  *)
(* lost or reported twice.  For any addresses, workers, durations, bounds. *)
(***************************************************************************)
EXTENDS SchedulerProofs, WellFoundedInduction, FunctionTheorems

\* What holds of an envelope under a tag from the moment it is created.
Tagged(tag, envelope) ==
  /\ envelope.to # NoAddress => tag = CLIENT
  /\ envelope.id <= sent

\* What holds of it once it is on its way to the actor of tag.
OnTime(tag, envelope) ==
  Tagged(tag, envelope) /\ envelope.at <= now + HalfPrecision

\* The inductive invariant, one conjunct for every place.  The properties only
\* speak of the envelopes on their way; the delayed ones are here because they
\* will be, and the horizon because it decides when.
ActionsOK ==
  \A i \in DOMAIN actions :
    /\ actions[i].type = "Queue" => OnTime(actions[i].tag, actions[i].envelope)
    /\ actions[i].type = "Delay" =>
         /\ Tagged(actions[i].entry.tag, actions[i].entry.envelope)
         /\ actions[i].entry.envelope.at > 0
TasksOK == \A e \in tasks : Tagged(e.tag, e.envelope) /\ e.envelope.at > 0
QueueOK == \A t \in DOMAIN queue : \A i \in DOMAIN queue[t] : OnTime(t, queue[t][i])
EventsOK ==
  \A i \in DOMAIN events :
    events[i].type = "Mail" => OnTime(events[i].tag, events[i].envelope)
WorkersOK ==
  \A w \in Worker :
    worker[w].pc = "receive" => OnTime(worker[w].tag, worker[w].envelope)
ClockOK == now > 0 /\ horizon <= now + HalfPrecision

MailInv ==
  /\ RegistryInv
  /\ ActionsOK /\ TasksOK /\ QueueOK /\ EventsOK /\ WorkersOK /\ ClockOK

-----------------------------------------------------------------------------
(* What a step does not touch.                                             *)

\* A bound on the clock holds later on.
LEMMA Later ==
  ASSUME NEW at \in Nat, NEW t \in Nat, NEW u \in Nat, NEW h \in Nat, at <= t + h, t <= u
  PROVE  at <= u + h
OBVIOUS

\* Every place holds envelopes.
LEMMA PlaceTypes ==
  ASSUME TypeOK
  PROVE  /\ \A i \in DOMAIN actions :
              /\ actions[i].type = "Queue" => actions[i].envelope \in Envelope
              /\ actions[i].type = "Delay" => actions[i].entry \in Entry
         /\ \A e \in tasks : e \in Entry
         /\ \A t \in DOMAIN queue : \A i \in DOMAIN queue[t] : queue[t][i] \in Envelope
         /\ \A i \in DOMAIN events : events[i].type = "Mail" => events[i].envelope \in Envelope
         /\ \A w \in Worker : worker[w].envelope \in Envelope
<1>1. \A i \in DOMAIN actions : actions[i] \in Action
  BY DEF TypeOK
<1>2. \A i \in DOMAIN events : events[i] \in Event
  BY DEF TypeOK
<1>3. \A i \in DOMAIN actions :
        /\ actions[i].type = "Queue" => actions[i].envelope \in Envelope
        /\ actions[i].type = "Delay" => actions[i].entry \in Entry
  BY <1>1 DEF Action, Note
<1>4. \A i \in DOMAIN events : events[i].type = "Mail" => events[i].envelope \in Envelope
  BY <1>2 DEF Event
<1>5. \A t \in DOMAIN queue : \A i \in DOMAIN queue[t] : queue[t][i] \in Envelope
  <2>1. \A t \in DOMAIN queue : queue[t] \in Seq(Envelope)
    BY DEF TypeOK
  <2> QED BY <2>1
<1> QED BY <1>3, <1>4, <1>5 DEF TypeOK, Thread

\* What was tagged and on time stays so as the clock and the count of envelopes
\* go up, in every place that a step leaves alone or only takes from.
LEMMA Kept ==
  ASSUME MailInv, sent' \in Nat, now' \in Nat, sent <= sent', now <= now'
  PROVE  /\ actions' = actions \/ (actions # <<>> /\ actions' = Tail(actions)) => ActionsOK'
         /\ tasks' \subseteq tasks => TasksOK'
         /\ queue' = queue => QueueOK'
         /\ events' = events \/ (events # <<>> /\ events' = Tail(events)) => EventsOK'
         /\ worker' = worker => WorkersOK'
         /\ horizon' \in {horizon, 0, now + HalfPrecision} => ClockOK'
<1> USE DEF OnTime, Tagged, Envelope, Entry
<1>1. sent \in Nat /\ now \in Nat /\ horizon \in Nat /\ HalfPrecision \in Nat
  BY BoundAssumption DEF MailInv, RegistryInv, TypeOK
<1>2. TypeOK
  BY DEF MailInv, RegistryInv
<1>3. ASSUME actions' = actions PROVE ActionsOK'
  BY <1>1, <1>2, <1>3, PlaceTypes DEF MailInv, ActionsOK
<1>4. ASSUME actions # <<>>, actions' = Tail(actions) PROVE ActionsOK'
  <2>1. \A i \in DOMAIN actions' : i + 1 \in DOMAIN actions /\ actions'[i] = actions[i + 1]
    BY <1>2, <1>4 DEF TypeOK
  <2> QED BY <1>1, <1>2, <2>1, PlaceTypes DEF MailInv, ActionsOK
<1>5. ASSUME tasks' \subseteq tasks PROVE TasksOK'
  BY <1>1, <1>2, <1>5, PlaceTypes DEF MailInv, TasksOK
<1>6. ASSUME queue' = queue PROVE QueueOK'
  BY <1>1, <1>2, <1>6, PlaceTypes DEF MailInv, QueueOK
<1>7. ASSUME events' = events PROVE EventsOK'
  BY <1>1, <1>2, <1>7, PlaceTypes DEF MailInv, EventsOK
<1>8. ASSUME events # <<>>, events' = Tail(events) PROVE EventsOK'
  <2>1. \A i \in DOMAIN events' : i + 1 \in DOMAIN events /\ events'[i] = events[i + 1]
    BY <1>2, <1>8 DEF TypeOK
  <2> QED BY <1>1, <1>2, <2>1, PlaceTypes DEF MailInv, EventsOK
<1>9. ASSUME worker' = worker PROVE WorkersOK'
  <2>1. \A w \in Worker : worker[w].envelope \in Envelope
    BY <1>2, PlaceTypes
  <2>2. \A w \in Worker :
          worker[w].pc = "receive" => OnTime(worker[w].tag, worker[w].envelope)
    BY DEF MailInv, WorkersOK
  <2> QED BY <1>1, <1>9, <2>1, <2>2 DEF WorkersOK
<1>10. ASSUME horizon' \in {horizon, 0, now + HalfPrecision} PROVE ClockOK'
  <2>1. now > 0 /\ horizon <= now + HalfPrecision
    BY DEF MailInv, ClockOK
  <2>2. horizon' <= now + HalfPrecision
    BY <1>1, <1>10, <2>1
  <2>3. horizon' \in Nat
    BY <1>1, <1>10
  <2>4. now' > 0
    BY <1>1, <2>1
  <2>5. horizon' <= now' + HalfPrecision
    BY <1>1, <2>2, <2>3, Later
  <2> QED BY <2>4, <2>5 DEF ClockOK
<1> QED BY <1>3, <1>4, <1>5, <1>6, <1>7, <1>8, <1>9, <1>10

-----------------------------------------------------------------------------
(* New actions and events.                                                 *)

\* An action is added to the channel: only its own envelope matters.
LEMMA PushOK ==
  ASSUME MailInv, sent' \in Nat, sent <= sent', now' = now,
         NEW a \in Action, Push(a),
         a.type = "Queue" =>
           /\ a.envelope.to # NoAddress => a.tag = CLIENT
           /\ a.envelope.id <= sent'
           /\ a.envelope.at <= now + HalfPrecision,
         a.type = "Delay" =>
           /\ a.entry.envelope.to # NoAddress => a.entry.tag = CLIENT
           /\ a.entry.envelope.id <= sent'
           /\ a.entry.envelope.at > 0
  PROVE  ActionsOK'
<1>1. sent \in Nat /\ now \in Nat /\ TypeOK /\ actions \in Seq(Action)
  BY DEF MailInv, RegistryInv, TypeOK
<1>2. actions' = Append(actions, a)
  BY DEF Push
<1>3. \A i \in DOMAIN actions' :
        (i \in DOMAIN actions /\ actions'[i] = actions[i]) \/ actions'[i] = a
  BY <1>1, <1>2
<1>4. SUFFICES ASSUME NEW i \in DOMAIN actions'
               PROVE  /\ actions'[i].type = "Queue" =>
                           OnTime(actions[i].tag, actions[i].envelope)'
                      /\ actions'[i].type = "Delay" =>
                           /\ Tagged(actions[i].entry.tag, actions[i].entry.envelope)'
                           /\ actions'[i].entry.envelope.at > 0
  BY DEF ActionsOK
<1>5. CASE actions'[i] = a
  BY <1>5 DEF OnTime, Tagged
<1>6. CASE i \in DOMAIN actions /\ actions'[i] = actions[i]
  <2>1. /\ actions[i].type = "Queue" => actions[i].envelope \in Envelope
        /\ actions[i].type = "Delay" => actions[i].entry \in Entry
    BY <1>1, <1>6, PlaceTypes
  <2>2. /\ actions[i].type = "Queue" => OnTime(actions[i].tag, actions[i].envelope)
        /\ actions[i].type = "Delay" =>
             /\ Tagged(actions[i].entry.tag, actions[i].entry.envelope)
             /\ actions[i].entry.envelope.at > 0
    BY <1>6 DEF MailInv, ActionsOK
  <2> QED BY <1>1, <1>6, <2>1, <2>2 DEF OnTime, Tagged, Envelope, Entry
<1> QED BY <1>3, <1>5, <1>6

\* The calls of the API: adjust_remote_address retags what it marks as remote.
LEMMA CallOK ==
  ASSUME MailInv, Call, now' = now
  PROVE  ActionsOK' /\ sent' \in Nat /\ sent <= sent'
<1>1. sent \in Nat /\ now \in Nat /\ now > 0 /\ TypeOK /\ HalfPrecision \in Nat
  BY BoundAssumption DEF MailInv, RegistryInv, TypeOK, ClockOK
<1>2. PICK address \in Address :
        \/ send(address) \/ spawn(address) \/ stop(address)
        \/ \E duration \in Durations : delay(address, duration)
  BY DEF Call
<1>3. adjust_remote_address(address) \in Address
  BY AddressAssumption DEF adjust_remote_address
<1>4. ASSUME NEW at
      PROVE  /\ NewEnvelope(address, at).to # NoAddress => adjust_remote_address(address) = CLIENT
             /\ NewEnvelope(address, at).id = sent + 1
             /\ NewEnvelope(address, at).at = at
             /\ at \in Nat => NewEnvelope(address, at) \in Envelope
  BY <1>1, AddressAssumption DEF NewEnvelope, adjust_remote_address, Envelope
<1>5. CASE send(address)
  <2> DEFINE a == [type |-> "Queue", tag |-> adjust_remote_address(address),
                   envelope |-> NewEnvelope(address, 0)]
  <2>1. a \in Action /\ a.type = "Queue"
    BY <1>3, <1>4 DEF Action
  <2>2. sent' = sent + 1 /\ Push(a)
    BY <1>5 DEF send
  <2>3. /\ a.envelope.to # NoAddress => a.tag = CLIENT
        /\ a.envelope.id <= sent'
        /\ a.envelope.at <= now + HalfPrecision
    BY <1>1, <1>4, <2>2
  <2> HIDE DEF a
  <2> QED BY <1>1, <2>1, <2>2, <2>3, PushOK
<1>6. CASE spawn(address)
  <2> DEFINE a == [type |-> "Spawn", tag |-> address, actor |-> spawned + 1]
  <2>1. a \in Action /\ a.type = "Spawn"
    BY <1>1 DEF Action, TypeOK
  <2>2. sent' = sent /\ Push(a)
    BY <1>6 DEF spawn
  <2> HIDE DEF a
  <2> QED BY <1>1, <2>1, <2>2, PushOK
<1>7. CASE stop(address)
  <2> DEFINE a == [type |-> "Stop", tag |-> address]
  <2>1. a \in Action /\ a.type = "Stop"
    BY DEF Action
  <2>2. sent' = sent /\ Push(a)
    BY <1>7 DEF stop
  <2> HIDE DEF a
  <2> QED BY <1>1, <2>1, <2>2, PushOK
<1>8. ASSUME NEW duration \in Durations, delay(address, duration)
      PROVE  ActionsOK' /\ sent' \in Nat /\ sent <= sent'
  <2> DEFINE e == [tag |-> adjust_remote_address(address),
                   envelope |-> NewEnvelope(address, now + duration)]
             a == [type |-> "Delay", entry |-> e]
  <2>1. now + duration \in Nat /\ now + duration > 0
    BY <1>1, BoundAssumption
  <2>2. a \in Action /\ a.type = "Delay" /\ a.entry = e
    BY <1>3, <1>4, <2>1 DEF Action, Entry
  <2>3. sent' = sent + 1 /\ Push(a)
    BY <1>8 DEF delay
  <2>4. /\ e.envelope.to # NoAddress => e.tag = CLIENT
        /\ e.envelope.id <= sent'
        /\ e.envelope.at > 0
    BY <1>1, <1>4, <2>1, <2>3
  <2> HIDE DEF a, e
  <2> QED BY <1>1, <2>2, <2>3, <2>4, PushOK
<1> QED BY <1>2, <1>5, <1>6, <1>7, <1>8

\* A Mail event for an envelope that was on time, or a failed send.
LEMMA MailEventOK ==
  ASSUME MailInv, sent' = sent, now' = now,
         NEW tag, NEW actor, NEW envelope, OnTime(tag, envelope),
         SendEvent(MailEvent(tag, actor, envelope))
  PROVE  EventsOK' /\ horizon' \in {horizon, 0, now + HalfPrecision}
<1>1. CASE EventsOpen
  <2> DEFINE e == MailEvent(tag, actor, envelope)
  <2>1. events' = Append(events, e) /\ horizon' = now + HalfPrecision
    BY <1>1 DEF SendEvent, EndMatch
  <2>2. events \in Seq(Event)
    BY DEF MailInv, RegistryInv, TypeOK
  <2>3. e.tag = tag /\ e.envelope = envelope
    BY DEF MailEvent
  <2> HIDE DEF e
  <2>4. \A i \in DOMAIN events' :
          (i \in DOMAIN events /\ events'[i] = events[i]) \/ events'[i] = e
    BY <2>1, <2>2
  <2>5. \A i \in DOMAIN events :
          events[i].type = "Mail" => OnTime(events[i].tag, events[i].envelope)
    BY DEF MailInv, EventsOK
  <2> QED BY <2>1, <2>3, <2>4, <2>5 DEF EventsOK, OnTime, Tagged
<1>2. CASE ~EventsOpen
  BY <1>2 DEF SendEvent, MailInv, EventsOK, OnTime, Tagged
<1> QED BY <1>1, <1>2

\* A Stop event carries no envelope.
LEMMA StopEventOK ==
  ASSUME MailInv, sent' = sent, now' = now,
         NEW tag, NEW actor, SendEvent(StopEvent(tag, actor))
  PROVE  EventsOK' /\ horizon' \in {horizon, 0, now + HalfPrecision}
<1>1. CASE EventsOpen
  <2> DEFINE e == StopEvent(tag, actor)
  <2>1. events' = Append(events, e) /\ horizon' = now + HalfPrecision
    BY <1>1 DEF SendEvent, EndMatch
  <2>2. events \in Seq(Event)
    BY DEF MailInv, RegistryInv, TypeOK
  <2>3. e.type = "Stop"
    BY DEF StopEvent
  <2> HIDE DEF e
  <2>4. \A i \in DOMAIN events' :
          (i \in DOMAIN events /\ events'[i] = events[i]) \/ events'[i] = e
    BY <2>1, <2>2
  <2>5. \A i \in DOMAIN events :
          events[i].type = "Mail" => OnTime(events[i].tag, events[i].envelope)
    BY DEF MailInv, EventsOK
  <2> QED BY <2>1, <2>3, <2>4, <2>5 DEF EventsOK, OnTime, Tagged
<1>2. CASE ~EventsOpen
  BY <1>2 DEF SendEvent, MailInv, EventsOK, OnTime, Tagged
<1> QED BY <1>1, <1>2

-----------------------------------------------------------------------------
(* The inductive step.                                                     *)

MailPlaces == ActionsOK /\ TasksOK /\ QueueOK /\ EventsOK /\ WorkersOK /\ ClockOK

\* At the start there is no envelope.
LEMMA MailInit == Init => MailInv
<1> SUFFICES ASSUME Init PROVE MailInv OBVIOUS
<1>1. RegistryInv
  BY RegistryInit
<1>2. DOMAIN actions = {} /\ DOMAIN events = {} /\ DOMAIN queue = {} /\ tasks = {}
  BY DEF Init
<1>3. \A w \in Worker : worker[w].pc = "idle"
  BY DEF Init, Idle
<1>4. ClockOK
  BY BoundAssumption DEF Init, ClockOK
<1> QED BY <1>1, <1>2, <1>3, <1>4
      DEF MailInv, ActionsOK, TasksOK, QueueOK, EventsOK, WorkersOK

\* The application and the clock.
LEMMA MailRun ==
  ASSUME MailInv, RunCall \/ RunShutdown \/ RunDrop \/ Tick
  PROVE  MailPlaces'
<1> USE DEF loop, registry, budget, history
<1>1. sent \in Nat /\ now \in Nat
  BY DEF MailInv, RegistryInv, TypeOK
<1>2. CASE RunCall
  <2>1. ActionsOK' /\ sent' \in Nat /\ sent <= sent' /\ now' = now
    BY <1>2, CallOK DEF RunCall
  <2> QED BY <1>1, <1>2, <2>1, Kept DEF RunCall, MailPlaces
<1>3. CASE RunShutdown
  <2>1. sent' = sent /\ now' = now
    BY <1>3 DEF RunShutdown
  <2>2. ActionsOK'
    <3>1. CASE sched = "panicked"
      BY <1>1, <1>3, <2>1, <3>1, Kept DEF RunShutdown
    <3>2. CASE sched # "panicked"
      <4> DEFINE a == [type |-> "Shutdown"]
      <4>1. a \in Action /\ a.type = "Shutdown" /\ Push(a)
        BY <1>3, <3>2 DEF Action, RunShutdown
      <4> HIDE DEF a
      <4> QED BY <1>1, <2>1, <4>1, PushOK
    <3> QED BY <3>1, <3>2
  <2> QED BY <1>1, <1>3, <2>1, <2>2, Kept DEF RunShutdown, MailPlaces
<1>4. CASE RunDrop
  BY <1>1, <1>4, Kept DEF RunDrop, MailPlaces
<1>5. CASE Tick
  BY <1>1, <1>5, Kept DEF Tick, MailPlaces
<1> QED BY <1>2, <1>3, <1>4, <1>5

\* A worker that does not take an envelope keeps the one it has, or drops it.
LEMMA WorkerKeeps ==
  ASSUME MailInv, sent' = sent, now' = now,
         \A v \in Worker : \/ worker'[v] = worker[v]
                           \/ worker'[v].pc # "receive"
                           \/ /\ worker'[v].pc = worker[v].pc
                              /\ worker'[v].tag = worker[v].tag
                              /\ worker'[v].envelope = worker[v].envelope
  PROVE  WorkersOK'
BY DEF MailInv, WorkersOK, OnTime, Tagged

\* worker_loop moves envelopes from an event to a handler, and sends new ones.
LEMMA MailWorker ==
  ASSUME MailInv, NEW w \in Worker, WorkerNext(w)
  PROVE  MailPlaces'
<1> USE DEF loop, registry, budget, history
<1>1. sent \in Nat /\ now \in Nat /\ TypeOK /\ worker \in [Worker -> Thread]
  BY DEF MailInv, RegistryInv, TypeOK
<1>2. CASE TakeMail(w)
  <2>1. events # <<>> /\ Head(events).type = "Mail" /\ events' = Tail(events)
        /\ sent' = sent /\ now' = now
    BY <1>2 DEF TakeMail, Take
  <2>2. Head(events) = events[1] /\ 1 \in DOMAIN events
    BY <1>1, <2>1 DEF TypeOK
  <2>3. OnTime(Head(events).tag, Head(events).envelope)
    BY <2>1, <2>2 DEF MailInv, EventsOK
  <2>4. \A v \in Worker : \/ worker'[v] = worker[v]
                          \/ /\ worker'[v].tag = Head(events).tag
                             /\ worker'[v].envelope = Head(events).envelope
    BY <1>1, <1>2 DEF TakeMail
  <2>5. WorkersOK'
    BY <2>1, <2>3, <2>4 DEF MailInv, WorkersOK, OnTime, Tagged
  <2> QED BY <1>1, <1>2, <2>1, <2>5, Kept DEF TakeMail, MailPlaces
<1>3. CASE TakeStop(w)
  <2>1. events # <<>> /\ events' = Tail(events) /\ sent' = sent /\ now' = now
    BY <1>3 DEF TakeStop, Take
  <2>2. WorkersOK'
    BY <1>1, <1>3, <2>1, WorkerKeeps DEF TakeStop
  <2> QED BY <1>1, <1>3, <2>1, <2>2, Kept DEF TakeStop, MailPlaces
<1>4. CASE TakeShutdown(w)
  <2>1. events # <<>> /\ events' = Tail(events) /\ sent' = sent /\ now' = now
    BY <1>4 DEF TakeShutdown, Take
  <2>2. WorkersOK'
    BY <1>1, <1>4, <2>1, WorkerKeeps DEF TakeShutdown, Enter, Thread
  <2> QED BY <1>1, <1>4, <2>1, <2>2, Kept DEF TakeShutdown, MailPlaces
<1>5. CASE HandlerCall(w)
  <2>1. ActionsOK' /\ sent' \in Nat /\ sent <= sent' /\ now' = now
    BY <1>5, CallOK DEF HandlerCall
  <2> QED BY <1>1, <1>5, <2>1, Kept DEF HandlerCall, MailPlaces
<1>6. CASE HandlerNote(w)
  <2>1. PICK k \in Note : worker' = [worker EXCEPT ![w].notes[k] = @ + 1]
    BY <1>6 DEF HandlerNote
  <2> DEFINE n == [worker[w].notes EXCEPT ![k] = @ + 1]
  <2>2. worker' = [worker EXCEPT ![w].notes = n]
    BY <2>1
  <2> HIDE DEF n
  <2>3. WorkersOK'
    BY <1>1, <1>6, <2>2, WorkerKeeps DEF HandlerNote, Thread
  <2> QED BY <1>1, <1>6, <2>3, Kept DEF HandlerNote, MailPlaces
<1>7. CASE ReceivePanic(w)
  <2>1. WorkersOK'
    BY <1>1, <1>7, WorkerKeeps DEF ReceivePanic, Enter, Thread
  <2> QED BY <1>1, <1>7, <2>1, Kept DEF ReceivePanic, MailPlaces
<1>8. CASE SendReturn(w)
  <2> DEFINE a == [type |-> "Return", tag |-> worker[w].tag, actor |-> worker[w].actor,
                   ok |-> worker[w].pc = "receive"]
  <2>1. worker[w].tag \in Address /\ worker[w].actor \in Nat
    BY <1>1, <1>8 DEF TypeOK, SendReturn, Thread
  <2>2. a \in Action /\ a.type = "Return" /\ Push(a)
    BY <1>8, <2>1 DEF Action, SendReturn
  <2> HIDE DEF a
  <2>3. sent' = sent /\ now' = now
    BY <1>8 DEF SendReturn
  <2>4. ActionsOK'
    BY <1>1, <2>2, <2>3, PushOK
  <2>5. WorkersOK'
    BY <1>1, <1>8, <2>3, WorkerKeeps DEF SendReturn, Enter, Thread
  <2> QED BY <1>1, <1>8, <2>3, <2>4, <2>5, Kept DEF SendReturn, MailPlaces
<1>9. CASE StopReturn(w)
  <2>1. WorkersOK'
    BY <1>1, <1>9, WorkerKeeps DEF StopReturn, Enter, Thread
  <2> QED BY <1>1, <1>9, <2>1, Kept DEF StopReturn, MailPlaces
<1>10. CASE HookPanic(w)
  <2>1. WorkersOK'
    BY <1>1, <1>10, WorkerKeeps DEF HookPanic, Enter, Thread
  <2> QED BY <1>1, <1>10, <2>1, Kept DEF HookPanic, MailPlaces
<1>11. CASE Drain(w)
  <2>1. PICK k \in Note : /\ Push([type |-> k, n |-> worker[w].notes[k]])
                          /\ worker' = [worker EXCEPT ![w].notes[k] = 0]
    BY <1>11 DEF Drain
  <2> DEFINE a == [type |-> k, n |-> worker[w].notes[k]]
             n == [worker[w].notes EXCEPT ![k] = 0]
  <2>2. worker[w].notes \in [Note -> Nat]
    BY <1>1 DEF Thread
  <2>3. a \in Action /\ a.type \in {"Logs", "Metrics"} /\ Push(a)
    BY <2>1, <2>2 DEF Action, Note
  <2>4. worker' = [worker EXCEPT ![w].notes = n]
    BY <2>1
  <2> HIDE DEF a, n
  <2>5. sent' = sent /\ now' = now
    BY <1>11 DEF Drain
  <2>6. ActionsOK'
    BY <1>1, <2>3, <2>5, PushOK
  <2>7. WorkersOK'
    BY <1>1, <2>4, <2>5, WorkerKeeps DEF Thread
  <2> QED BY <1>1, <1>11, <2>5, <2>6, <2>7, Kept DEF Drain, MailPlaces
<1>12. CASE Drained(w)
  <2>1. WorkersOK'
    BY <1>1, <1>12, WorkerKeeps DEF Drained, Idle
  <2> QED BY <1>1, <1>12, <2>1, Kept DEF Drained, MailPlaces
<1> QED BY <1>2, <1>3, <1>4, <1>5, <1>6, <1>7, <1>8, <1>9, <1>10, <1>11, <1>12 DEF WorkerNext

\* The queues after a step, when every mailbox lost some of its envelopes or
\* got one that was on time.
LEMMA QueueKeeps ==
  ASSUME MailInv, sent' = sent, now' = now,
         \A t \in DOMAIN queue' : \A i \in DOMAIN queue'[t] :
           \/ OnTime(t, queue'[t][i])
           \/ t \in DOMAIN queue /\ \E j \in DOMAIN queue[t] : queue'[t][i] = queue[t][j]
  PROVE  QueueOK'
BY DEF MailInv, QueueOK, OnTime, Tagged

\* The mailboxes and the tasks are dropped with the scheduler.
LEMMA MailLeave ==
  ASSUME MailInv, LeaveLoop, sent' = sent, now' = now, worker' = worker, events' = events,
         actions' = actions \/ (actions # <<>> /\ actions' = Tail(actions))
  PROVE  MailPlaces'
<1>1. sent \in Nat /\ now \in Nat
  BY DEF MailInv, RegistryInv, TypeOK
<1>2. DOMAIN queue' = {} /\ tasks' = {} /\ horizon' = 0
  BY DEF LeaveLoop
<1>3. QueueOK'
  BY <1>2 DEF QueueOK
<1> QED BY <1>1, <1>2, <1>3, Kept DEF MailPlaces

\* The arms of event_loop's match: envelopes move from the channel to the
\* mailboxes, the delayed tasks and the events, under the same tag.
LEMMA MailMatch ==
  ASSUME MailInv,
         \/ ReturnFailed \/ ReturnNext \/ ReturnIdle \/ ReturnStopped
         \/ QueueBusy \/ QueueIdle \/ SpawnNew \/ Delay \/ StopActive
         \/ Collect \/ Drop \/ Miss \/ Shutdown
  PROVE  MailPlaces'
<1> USE DEF loop, registry, budget, history, Receive
<1> DEFINE tag == Head(actions).tag
<1>0. /\ sent \in Nat /\ now \in Nat /\ TypeOK /\ MailboxIffActive
      /\ \A t \in DOMAIN queue : queue[t] \in Seq(Envelope)
  BY DEF MailInv, RegistryInv, TypeOK
<1>n. sent' = sent /\ now' = now /\ worker' = worker
  BY DEF ReturnFailed, ReturnNext, ReturnIdle, ReturnStopped, QueueBusy, QueueIdle,
         SpawnNew, Delay, StopActive, Collect, Drop, Miss, Shutdown
<1>m. ASSUME EndMatch PROVE horizon' = now + HalfPrecision
  BY <1>m DEF EndMatch
<1>h. actions # <<>> => Head(actions) = actions[1] /\ 1 \in DOMAIN actions
  BY <1>0 DEF TypeOK
<1>w. ASSUME NEW t, queue' = Without(queue, t) PROVE QueueOK'
  BY <1>0, <1>n, <1>w, QueueKeeps DEF Without
<1>1. CASE ReturnFailed
  <2>1. QueueOK'
    BY <1>1, <1>w DEF ReturnFailed, Deactivate
  <2> QED BY <1>0, <1>n, <1>1, <2>1, Kept DEF ReturnFailed, MailPlaces
<1>2. CASE ReturnNext
  <2>1. /\ tag \in DOMAIN queue /\ queue[tag] # <<>> /\ queue[tag] \in Seq(Envelope)
        /\ queue' = [queue EXCEPT ![tag] = Tail(queue[tag])]
        /\ SendEvent(MailEvent(tag, Head(actions).actor, Head(queue[tag])))
    BY <1>0, <1>2 DEF ReturnNext, MailboxIffActive
  <2>2. Head(queue[tag]) = queue[tag][1] /\ 1 \in DOMAIN queue[tag]
    BY <2>1
  <2>3. OnTime(tag, Head(queue[tag]))
    BY <2>1, <2>2 DEF MailInv, QueueOK
  <2>4. EventsOK' /\ horizon' \in {horizon, 0, now + HalfPrecision}
    BY <1>n, <2>1, <2>3, MailEventOK
  <2>5. \A i \in DOMAIN Tail(queue[tag]) :
          i + 1 \in DOMAIN queue[tag] /\ Tail(queue[tag])[i] = queue[tag][i + 1]
    BY <2>1
  <2>6. QueueOK'
    BY <1>n, <2>1, <2>5, QueueKeeps
  <2> QED BY <1>0, <1>n, <1>2, <2>4, <2>6, Kept DEF ReturnNext, MailPlaces
<1>3. CASE ReturnIdle
  BY <1>0, <1>n, <1>m, <1>3, Kept DEF ReturnIdle, MailPlaces
<1>4. CASE ReturnStopped
  <2>1. QueueOK'
    BY <1>4, <1>w DEF ReturnStopped
  <2>2. EventsOK' /\ horizon' \in {horizon, 0, now + HalfPrecision}
    <3>1. CASE Head(actions).ok
      BY <1>n, <1>4, <3>1, StopEventOK DEF ReturnStopped
    <3>2. CASE ~Head(actions).ok
      BY <1>0, <1>n, <1>m, <1>4, <3>2, Kept DEF ReturnStopped
    <3> QED BY <3>1, <3>2
  <2> QED BY <1>0, <1>n, <1>4, <2>1, <2>2, Kept DEF ReturnStopped, MailPlaces
<1>5. CASE QueueBusy
  <2> DEFINE envelope == Head(actions).envelope
  <2>1. /\ tag \in DOMAIN queue /\ queue[tag] \in Seq(Envelope)
        /\ queue' = [queue EXCEPT ![tag] = push_back(queue[tag], envelope)]
    BY <1>0, <1>5 DEF QueueBusy, MailboxIffActive
  <2>2. OnTime(tag, envelope)
    BY <1>h, <1>5 DEF QueueBusy, MailInv, ActionsOK
  <2> HIDE DEF envelope
  <2>3. \A i \in DOMAIN push_back(queue[tag], envelope) :
          \/ push_back(queue[tag], envelope)[i] = envelope
          \/ i \in DOMAIN queue[tag] /\ push_back(queue[tag], envelope)[i] = queue[tag][i]
    BY <2>1 DEF push_back
  <2>4. QueueOK'
    BY <1>n, <2>1, <2>2, <2>3, QueueKeeps
  <2> QED BY <1>0, <1>n, <1>m, <1>5, <2>4, Kept DEF QueueBusy, MailPlaces
<1>6. CASE QueueIdle
  <2> DEFINE envelope == Head(actions).envelope
             mailbox == push_back(queue[tag], envelope)
  <2>1. /\ tag \in DOMAIN queue
        /\ queue' = [queue EXCEPT ![tag] = Tail(mailbox)]
        /\ SendEvent(MailEvent(tag, actors[tag], Head(mailbox)))
    BY <1>0, <1>6 DEF QueueIdle, MailboxIffActive
  <2>2. OnTime(tag, envelope)
    BY <1>h, <1>6 DEF QueueIdle, MailInv, ActionsOK
  <2>3. queue[tag] = <<>>
    BY <1>0, <1>6 DEF QueueIdle, MailInv, RegistryInv, WaitingIsDrained
  <2>4. Head(mailbox) = envelope /\ Tail(mailbox) = <<>>
    BY <2>3 DEF push_back
  <2> HIDE DEF envelope, mailbox
  <2>5. EventsOK' /\ horizon' \in {horizon, 0, now + HalfPrecision}
    BY <1>n, <2>1, <2>2, <2>4, MailEventOK
  <2>6. QueueOK'
    BY <1>n, <2>1, <2>4, QueueKeeps
  <2> QED BY <1>0, <1>n, <1>6, <2>5, <2>6, Kept DEF QueueIdle, MailPlaces
<1>7. CASE SpawnNew
  <2>1. queue' = Insert(queue, tag, <<>>)
    BY <1>7 DEF SpawnNew
  <2>2. QueueOK'
    BY <1>n, <2>1, QueueKeeps DEF Insert
  <2> QED BY <1>0, <1>n, <1>m, <1>7, <2>2, Kept DEF SpawnNew, MailPlaces
<1>8. CASE Delay
  <2>1. Tagged(Head(actions).entry.tag, Head(actions).entry.envelope)
        /\ Head(actions).entry.envelope.at > 0
    BY <1>h, <1>8 DEF Delay, MailInv, ActionsOK
  <2>2. TasksOK'
    BY <1>n, <1>8, <2>1 DEF Delay, MailInv, TasksOK, Tagged
  <2> QED BY <1>0, <1>n, <1>m, <1>8, <2>2, Kept DEF Delay, MailPlaces
<1>9. CASE StopActive
  <2>1. QueueOK'
    BY <1>9, <1>w DEF StopActive, Deactivate
  <2>2. EventsOK' /\ horizon' \in {horizon, 0, now + HalfPrecision}
    <3>1. CASE tag \in DOMAIN actors
      BY <1>n, <1>9, <3>1, StopEventOK DEF StopActive
    <3>2. CASE tag \notin DOMAIN actors
      BY <1>0, <1>n, <1>m, <1>9, <3>2, Kept DEF StopActive
    <3> QED BY <3>1, <3>2
  <2> QED BY <1>0, <1>n, <1>9, <2>1, <2>2, Kept DEF StopActive, MailPlaces
<1>10. CASE Collect
  BY <1>0, <1>n, <1>m, <1>10, Kept DEF Collect, MailPlaces
<1>11. CASE Drop
  BY <1>0, <1>n, <1>m, <1>11, Kept DEF Drop, MailPlaces
<1>12. CASE Miss
  BY <1>0, <1>n, <1>m, <1>12, Kept DEF Miss, MailPlaces
<1>13. CASE Shutdown
  BY <1>0, <1>n, <1>13, MailLeave DEF Shutdown
<1> QED BY <1>1, <1>2, <1>3, <1>4, <1>5, <1>6, <1>7, <1>8, <1>9, <1>10, <1>11, <1>12, <1>13

\* The rest of the iteration: only due tasks are put back into the channel.
LEMMA MailAfterMatch ==
  ASSUME MailInv,
         \/ FireTask \/ NextIteration \/ EagerExit
         \/ SendShutdown \/ AllNotified \/ DrainAction \/ Done
  PROVE  MailPlaces'
<1> USE DEF loop, registry, budget, history
<1>0. sent \in Nat /\ now \in Nat /\ horizon \in Nat /\ TypeOK /\ HalfPrecision \in Nat
  BY BoundAssumption DEF MailInv, RegistryInv, TypeOK
<1>n. sent' = sent /\ now' = now /\ worker' = worker
  BY DEF FireTask, NextIteration, EagerExit, SendShutdown, AllNotified, DrainAction, Done
<1>1. CASE FireTask
  <2>1. PICK e \in tasks :
          /\ IsDue(e)
          /\ tasks' = tasks \ {e}
          /\ Push([type |-> "Queue", tag |-> e.tag, envelope |-> e.envelope])
    BY <1>1 DEF FireTask
  <2> DEFINE a == [type |-> "Queue", tag |-> e.tag, envelope |-> e.envelope]
  <2>2. e \in Entry
    BY <1>0 DEF TypeOK
  <2>3. a \in Action /\ a.type = "Queue" /\ a.tag = e.tag /\ a.envelope = e.envelope /\ Push(a)
    BY <2>1, <2>2 DEF Action, Entry
  <2>4. e.envelope.at <= now + HalfPrecision
    <3>1. e.envelope.at <= horizon /\ e.envelope.at \in Nat
      BY <2>1, <2>2 DEF IsDue, Entry, Envelope
    <3>2. horizon <= now + HalfPrecision
      BY DEF MailInv, ClockOK
    <3> QED BY <1>0, <3>1, <3>2
  <2>5. (e.envelope.to # NoAddress => e.tag = CLIENT) /\ e.envelope.id <= sent
    BY DEF MailInv, TasksOK, Tagged
  <2> HIDE DEF a
  <2>6. ActionsOK'
    BY <1>0, <1>n, <2>3, <2>4, <2>5, PushOK
  <2> QED BY <1>0, <1>n, <1>1, <2>1, <2>6, Kept DEF FireTask, MailPlaces
<1>2. CASE NextIteration
  BY <1>0, <1>n, <1>2, Kept DEF NextIteration, MailPlaces
<1>3. CASE EagerExit
  BY <1>0, <1>n, <1>3, MailLeave DEF EagerExit
<1>4. CASE SendShutdown
  <2>1. EventsOK'
    <3>1. CASE EventsOpen
      <4> DEFINE e == [type |-> "Shutdown"]
      <4>1. events' = Append(events, e) /\ e.type = "Shutdown" /\ events \in Seq(Event)
        BY <1>0, <1>4, <3>1 DEF SendShutdown, TypeOK
      <4> HIDE DEF e
      <4>2. \A i \in DOMAIN events' :
              (i \in DOMAIN events /\ events'[i] = events[i]) \/ events'[i] = e
        BY <4>1
      <4> QED BY <1>n, <4>1, <4>2 DEF MailInv, EventsOK, OnTime, Tagged
    <3>2. CASE ~EventsOpen
      BY <1>0, <1>n, <1>4, <3>2, Kept DEF SendShutdown
    <3> QED BY <3>1, <3>2
  <2> QED BY <1>0, <1>n, <1>4, <2>1, Kept DEF SendShutdown, MailPlaces
<1>5. CASE AllNotified
  BY <1>0, <1>n, <1>5, Kept DEF AllNotified, MailPlaces
<1>6. CASE DrainAction
  BY <1>0, <1>n, <1>6, Kept DEF DrainAction, MailPlaces
<1>7. CASE Done
  BY <1>0, <1>n, <1>7, Kept DEF Done, MailPlaces
<1> QED BY <1>1, <1>2, <1>3, <1>4, <1>5, <1>6, <1>7

\* Every step keeps MailInv.
LEMMA MailStep == MailInv /\ [Next]_vars => MailInv'
<1> SUFFICES ASSUME MailInv, [Next]_vars PROVE MailInv' OBVIOUS
<1>1. RegistryInv'
  BY RegistryStep DEF MailInv
<1>2. MailPlaces'
  <2>1. CASE Finished \/ UNCHANGED vars
    <3>1. UNCHANGED vars
      BY <2>1 DEF Finished
    <3>2. MailPlaces
      BY DEF MailInv, MailPlaces
    <3> QED BY <3>1, <3>2 DEF vars, loop, registry, budget, history, MailPlaces, ActionsOK,
              TasksOK, QueueOK, EventsOK, WorkersOK, ClockOK, OnTime, Tagged
  <2> QED BY <2>1, MailRun, MailMatch, MailAfterMatch, MailWorker DEF Next, SchedulerNext
<1> QED BY <1>1, <1>2 DEF MailInv, MailPlaces

\* MailInv always holds: whatever the threads of core.rs do, an envelope is
\* under its right tag, not younger than `sent`, and on its way only in time.
THEOREM MailSafe == Spec => []MailInv
BY MailInit, MailStep, PTL DEF Spec

\* Whatever is on its way to an actor is in one of the four kinds of places.
LEMMA PlacesOnTime ==
  ASSUME MailInv, NEW tag \in Address, NEW p \in Places(tag)
  PROVE  OnTime(tag, p.envelope)
BY DEF MailInv, Places, WorkersOK, EventsOK, QueueOK, ActionsOK

\* Delayed envelopes are never early by more than half of delay_precision, for
\* any precision, durations and number of threads.
THEOREM DelaysAreNotEarly == Spec => []NotEarly
<1>1. MailInv => NotEarly
  BY PlacesOnTime DEF NotEarly, OnTime
<1> QED BY <1>1, MailSafe, PTL

\* Envelopes for remote actors only ever reach the client actor.
THEOREM RemoteMailGoesToClient == Spec => []RemoteViaClient
<1>1. MailInv => RemoteViaClient
  BY PlacesOnTime DEF RemoteViaClient, OnTime, Tagged, MailInv, TasksOK
<1> QED BY <1>1, MailSafe, PTL

-----------------------------------------------------------------------------
(* The passes over the delayed tasks.                                      *)

\* The heap has an earliest entry.
LEMMA EarliestTask ==
  ASSUME tasks \subseteq Entry, tasks # {}
  PROVE  \E e \in tasks : Peek(e)
<1> DEFINE times == {e.envelope.at : e \in tasks}
<1>1. times \subseteq Nat /\ times # {}
  BY DEF Entry, Envelope
<1>2. PICK x \in times : \A y \in times : ~(<<y, x>> \in OpToRel(<, Nat))
  <2> HIDE DEF times
  <2> QED BY <1>1, WFMin, NatLessThanWellFounded
<1>3. \A y \in times : x <= y
  <2> SUFFICES ASSUME NEW y \in times PROVE x <= y
    OBVIOUS
  <2>1. x \in Nat /\ y \in Nat
    BY <1>1
  <2>2. ~(y < x)
    BY <1>2, <2>1 DEF OpToRel
  <2> QED BY <2>1, <2>2
<1>4. PICK e \in tasks : e.envelope.at = x
  OBVIOUS
<1>5. \A f \in tasks : f.envelope.at \in times
  OBVIOUS
<1> QED BY <1>3, <1>4, <1>5 DEF Peek, cmp

\* When the earliest is not due, none is.
LEMMA NoneDue ==
  ASSUME TypeOK, \A e \in tasks : ~IsDue(e), NEW f \in tasks
  PROVE  f.envelope.at > horizon
<1>1. PICK e \in tasks : Peek(e)
  BY EarliestTask DEF TypeOK
<1>2. e.envelope.at <= f.envelope.at /\ ~(e.envelope.at <= horizon)
  BY <1>1 DEF Peek, cmp, IsDue
<1>3. e.envelope.at \in Nat /\ f.envelope.at \in Nat /\ horizon \in Nat
  BY DEF TypeOK, Entry, Envelope
<1> QED BY <1>2, <1>3

\* The pass over scheduler.tasks in event_loop leaves nothing that was due when
\* it began, whatever was delayed and in whatever order.
THEOREM PassesAreComplete == Spec => DueFired
<1>1. TypeOK /\ [Next]_vars =>
        [sched = "tasks" /\ sched' # "tasks" => \A e \in tasks' : e.envelope.at > horizon]_vars
  <2> SUFFICES ASSUME TypeOK, Next, sched = "tasks", sched' # "tasks", NEW e \in tasks'
               PROVE  e.envelope.at > horizon
    OBVIOUS
  <2> USE DEF loop, registry, budget, history
  <2>1. SchedulerNext
    BY DEF Next, RunCall, RunShutdown, RunDrop, Tick, Finished, vars, WorkerNext, TakeMail,
       TakeStop, TakeShutdown, HandlerCall, HandlerNote, ReceivePanic, SendReturn, StopReturn,
       HookPanic, Drain, Drained
  <2>2. NextIteration \/ EagerExit
    BY <2>1 DEF SchedulerNext, ReturnFailed, ReturnNext, ReturnIdle, ReturnStopped, QueueBusy,
       QueueIdle, SpawnNew, Delay, StopActive, Collect, Drop, Miss, Shutdown, Receive,
       FireTask, SendShutdown, AllNotified, DrainAction, Done
  <2>3. CASE NextIteration
    BY <2>3, NoneDue DEF NextIteration
  <2>4. CASE EagerExit
    BY <2>4 DEF EagerExit, LeaveLoop
  <2> QED BY <2>2, <2>3, <2>4
<1> QED BY <1>1, TypeCorrect, PTL DEF Spec, DueFired

-----------------------------------------------------------------------------
(* Message order: envelopes sent to one address are received in the order  *)
(* they were sent, for any number of addresses, workers, stops and         *)
(* respawns.                                                               *)

\* The order is only about envelopes that were sent, not delayed.
InOrder(e, f) == e.at = 0 /\ f.at = 0 => e.id < f.id

\* The four kinds of places of Places(t).
AtWorker(w, t) == worker[w].pc = "receive" /\ worker[w].tag = t
InEvents(i, t) == events[i].type = "Mail" /\ events[i].tag = t
InActions(i, t) == actions[i].type = "Queue" /\ actions[i].tag = t

\* SentInOrder, one conjunct for every two places an older and a younger
\* envelope can be in.
WorkerEvents ==
  \A w \in Worker, i \in DOMAIN events, t \in Address :
    AtWorker(w, t) /\ InEvents(i, t) => InOrder(worker[w].envelope, events[i].envelope)
WorkerQueue ==
  \A w \in Worker, t \in DOMAIN queue : \A i \in DOMAIN queue[t] :
    AtWorker(w, t) => InOrder(worker[w].envelope, queue[t][i])
WorkerActions ==
  \A w \in Worker, i \in DOMAIN actions, t \in Address :
    AtWorker(w, t) /\ InActions(i, t) => InOrder(worker[w].envelope, actions[i].envelope)
EventsEvents ==
  \A i, j \in DOMAIN events, t \in Address :
    i < j /\ InEvents(i, t) /\ InEvents(j, t) => InOrder(events[i].envelope, events[j].envelope)
EventsQueue ==
  \A i \in DOMAIN events, t \in DOMAIN queue : \A j \in DOMAIN queue[t] :
    InEvents(i, t) => InOrder(events[i].envelope, queue[t][j])
EventsActions ==
  \A i \in DOMAIN events, j \in DOMAIN actions, t \in Address :
    InEvents(i, t) /\ InActions(j, t) => InOrder(events[i].envelope, actions[j].envelope)
QueueQueue ==
  \A t \in DOMAIN queue : \A i, j \in DOMAIN queue[t] :
    i < j => InOrder(queue[t][i], queue[t][j])
QueueActions ==
  \A t \in DOMAIN queue : \A i \in DOMAIN queue[t], j \in DOMAIN actions :
    InActions(j, t) => InOrder(queue[t][i], actions[j].envelope)
ActionsActions ==
  \A i, j \in DOMAIN actions, t \in Address :
    i < j /\ InActions(i, t) /\ InActions(j, t)
      => InOrder(actions[i].envelope, actions[j].envelope)

Ordered ==
  /\ WorkerEvents /\ WorkerQueue /\ WorkerActions
  /\ EventsEvents /\ EventsQueue /\ EventsActions
  /\ QueueQueue /\ QueueActions /\ ActionsActions

\* Order alone is not inductive: that a new envelope is younger than all others
\* is in MailInv (no id is above sent), that a delayed one is exempt too (its
\* instant is above 0).
OrderInv == MailInv /\ Ordered

-----------------------------------------------------------------------------
(* Taking away keeps the order.                                            *)

\* The indices of a place are shifted and some of its envelopes are gone.
ActionsShift ==
  \E a \in Nat : \A i \in DOMAIN actions' :
    actions'[i].type = "Queue" => i + a \in DOMAIN actions /\ actions'[i] = actions[i + a]
EventsShift ==
  \E a \in Nat : \A i \in DOMAIN events' :
    events'[i].type = "Mail" => i + a \in DOMAIN events /\ events'[i] = events[i + a]
QueueShift ==
  \A t \in DOMAIN queue' : \E a \in Nat : \A i \in DOMAIN queue'[t] :
    t \in DOMAIN queue /\ i + a \in DOMAIN queue[t] /\ queue'[t][i] = queue[t][i + a]
WorkerShift ==
  \A w \in Worker : worker'[w].pc = "receive" =>
    /\ worker[w].pc = "receive" /\ worker'[w].tag = worker[w].tag
    /\ worker'[w].envelope = worker[w].envelope

\* If every place only lost some of its first envelopes, the order is kept.
LEMMA ShiftOrdered ==
  ASSUME TypeOK, TypeOK', Ordered, ActionsShift, EventsShift, QueueShift, WorkerShift
  PROVE  Ordered'
<1> USE DEF AtWorker, InEvents, InActions
<1>1. PICK a \in Nat : \A i \in DOMAIN actions' :
        actions'[i].type = "Queue" => i + a \in DOMAIN actions /\ actions'[i] = actions[i + a]
  BY DEF ActionsShift
<1>2. PICK b \in Nat : \A i \in DOMAIN events' :
        events'[i].type = "Mail" => i + b \in DOMAIN events /\ events'[i] = events[i + b]
  BY DEF EventsShift
<1>3. /\ \A i \in DOMAIN actions' : i \in Nat
      /\ \A i \in DOMAIN events' : i \in Nat
      /\ \A t \in DOMAIN queue' : t \in Address /\ \A i \in DOMAIN queue'[t] : i \in Nat
  <2>1. \A t \in DOMAIN queue' : queue'[t] \in Seq(Envelope)
    BY DEF TypeOK
  <2>2. actions' \in Seq(Action) /\ events' \in Seq(Event) /\ DOMAIN queue' \subseteq Address
    BY DEF TypeOK
  <2>3. \A t \in DOMAIN queue' : \A i \in DOMAIN queue'[t] : i \in Nat
    BY <2>1
  <2> QED BY <2>2, <2>3
<1>4. WorkerEvents'
  BY <1>2 DEF WorkerShift, Ordered, WorkerEvents, InOrder
<1>5. WorkerQueue'
  BY DEF WorkerShift, QueueShift, Ordered, WorkerQueue, InOrder
<1>6. WorkerActions'
  BY <1>1 DEF WorkerShift, Ordered, WorkerActions, InOrder
<1>7. EventsEvents'
  BY <1>2, <1>3 DEF Ordered, EventsEvents, InOrder
<1>8. EventsQueue'
  BY <1>2 DEF QueueShift, Ordered, EventsQueue, InOrder
<1>9. EventsActions'
  BY <1>1, <1>2 DEF Ordered, EventsActions, InOrder
<1>10. QueueQueue'
  BY <1>3 DEF QueueShift, Ordered, QueueQueue, InOrder
<1>11. QueueActions'
  BY <1>1 DEF QueueShift, Ordered, QueueActions, InOrder
<1>12. ActionsActions'
  BY <1>1, <1>3 DEF Ordered, ActionsActions, InOrder
<1> QED BY <1>4, <1>5, <1>6, <1>7, <1>8, <1>9, <1>10, <1>11, <1>12 DEF Ordered

\* The index of a place after Append.
LEMMA AppendIndex ==
  ASSUME NEW T, NEW seq \in Seq(T), NEW item
  PROVE  \A i \in DOMAIN Append(seq, item) :
           \/ i \in DOMAIN seq /\ Append(seq, item)[i] = seq[i] /\ i <= Len(seq)
           \/ i = Len(seq) + 1 /\ Append(seq, item)[i] = item
OBVIOUS

-----------------------------------------------------------------------------
(* Adding at the end of a place keeps the order.                           *)

\* A Queue action with an envelope just created, or delayed.
LEMMA PushOrdered ==
  ASSUME MailInv, Ordered, TypeOK', UNCHANGED <<events, queue, worker>>,
         NEW x \in Action, x.type = "Queue", Push(x),
         x.envelope.at > 0 \/ x.envelope.id = sent + 1
  PROVE  Ordered'
<1> USE DEF AtWorker, InEvents, InActions
<1>1. sent \in Nat /\ TypeOK /\ actions \in Seq(Action) /\ x.envelope \in Envelope
  BY DEF MailInv, RegistryInv, TypeOK, Action, Note
<1>2. \A e \in Envelope : e.id <= sent => InOrder(e, x.envelope)
  BY <1>1 DEF InOrder, Envelope
<1>3. \A i \in DOMAIN actions' :
        \/ i \in DOMAIN actions /\ actions'[i] = actions[i] /\ i <= Len(actions)
        \/ i = Len(actions) + 1 /\ actions'[i] = x
  BY <1>1, AppendIndex DEF Push
<1>4. \A w \in Worker : worker[w].pc = "receive" => InOrder(worker[w].envelope, x.envelope)
  BY <1>1, <1>2, PlaceTypes DEF MailInv, WorkersOK, OnTime, Tagged
<1>5. \A i \in DOMAIN events : events[i].type = "Mail" => InOrder(events[i].envelope, x.envelope)
  BY <1>1, <1>2, PlaceTypes DEF MailInv, EventsOK, OnTime, Tagged
<1>6. \A t \in DOMAIN queue : \A i \in DOMAIN queue[t] : InOrder(queue[t][i], x.envelope)
  BY <1>1, <1>2, PlaceTypes DEF MailInv, QueueOK, OnTime, Tagged
<1>7. \A i \in DOMAIN actions :
        actions[i].type = "Queue" => InOrder(actions[i].envelope, x.envelope)
  BY <1>1, <1>2, PlaceTypes DEF MailInv, ActionsOK, OnTime, Tagged
<1>8. \A i \in DOMAIN actions : i \in Nat /\ i <= Len(actions)
  BY <1>1
<1>9. Len(actions) \in Nat
  BY <1>1
<1> HIDE DEF InOrder
<1>10. WorkerActions'
  BY <1>3, <1>4 DEF Ordered, WorkerActions, InOrder
<1>11. EventsActions'
  BY <1>3, <1>5 DEF Ordered, EventsActions, InOrder
<1>12. QueueActions'
  BY <1>3, <1>6 DEF Ordered, QueueActions, InOrder
<1>13. ActionsActions'
  BY <1>3, <1>7, <1>8, <1>9 DEF Ordered, ActionsActions, InOrder
<1>14. WorkerEvents' /\ WorkerQueue' /\ EventsEvents' /\ EventsQueue' /\ QueueQueue'
  BY DEF Ordered, WorkerEvents, WorkerQueue, EventsEvents, EventsQueue, QueueQueue, InOrder
<1> QED BY <1>10, <1>11, <1>12, <1>13, <1>14 DEF Ordered

\* A Mail event with an envelope younger than what is ahead of it and older
\* than what is behind.
LEMMA MailOrdered ==
  ASSUME TypeOK, TypeOK', Ordered, worker' = worker, ActionsShift, QueueShift,
         NEW tag \in Address, NEW actor, NEW e,
         events' = Append(events, MailEvent(tag, actor, e)),
         \A w \in Worker : AtWorker(w, tag) => InOrder(worker[w].envelope, e),
         \A i \in DOMAIN events : InEvents(i, tag) => InOrder(events[i].envelope, e),
         tag \in DOMAIN queue' => \A i \in DOMAIN queue'[tag] : InOrder(e, queue'[tag][i]),
         \A i \in DOMAIN actions' :
           actions'[i].type = "Queue" /\ actions'[i].tag = tag => InOrder(e, actions'[i].envelope)
  PROVE  Ordered'
<1> USE DEF AtWorker, InEvents, InActions
<1> DEFINE m == MailEvent(tag, actor, e)
<1>1. m.type = "Mail" /\ m.tag = tag /\ m.envelope = e
  BY DEF MailEvent
<1>2. events \in Seq(Event) /\ events' = Append(events, m) /\ Len(events) \in Nat
  BY DEF TypeOK
<1> HIDE DEF m
<1>3. \A i \in DOMAIN events' :
        \/ i \in DOMAIN events /\ events'[i] = events[i] /\ i <= Len(events)
        \/ i = Len(events) + 1 /\ events'[i] = m
  BY <1>2, AppendIndex
<1>4. \A i \in DOMAIN events : i \in Nat /\ i <= Len(events)
  BY <1>2
<1>5. PICK a \in Nat : \A i \in DOMAIN actions' :
        actions'[i].type = "Queue" => i + a \in DOMAIN actions /\ actions'[i] = actions[i + a]
  BY DEF ActionsShift
<1>6. \A i \in DOMAIN actions' : i \in Nat
  <2>1. actions' \in Seq(Action)
    BY DEF TypeOK
  <2> QED BY <2>1
<1>7. \A t \in DOMAIN queue' : \A i \in DOMAIN queue'[t] : i \in Nat
  <2>1. \A t \in DOMAIN queue' : queue'[t] \in Seq(Envelope)
    BY DEF TypeOK
  <2> QED BY <2>1
<1>8. WorkerEvents'
  BY <1>1, <1>3 DEF Ordered, WorkerEvents, InOrder
<1>9. EventsEvents'
  BY <1>1, <1>2, <1>3, <1>4 DEF Ordered, EventsEvents, InOrder
<1>10. EventsQueue'
  BY <1>1, <1>3 DEF QueueShift, Ordered, EventsQueue, InOrder
<1>11. EventsActions'
  BY <1>1, <1>3, <1>5 DEF Ordered, EventsActions, InOrder
<1>12. WorkerQueue'
  BY DEF QueueShift, Ordered, WorkerQueue, InOrder
<1>13. WorkerActions'
  BY <1>5 DEF Ordered, WorkerActions, InOrder
<1>14. QueueQueue'
  BY <1>7 DEF QueueShift, Ordered, QueueQueue, InOrder
<1>15. QueueActions'
  BY <1>5 DEF QueueShift, Ordered, QueueActions, InOrder
<1>16. ActionsActions'
  BY <1>5, <1>6 DEF Ordered, ActionsActions, InOrder
<1> QED BY <1>8, <1>9, <1>10, <1>11, <1>12, <1>13, <1>14, <1>15, <1>16 DEF Ordered

-----------------------------------------------------------------------------
(* The steps that move an envelope.                                        *)

\* The first event goes to a worker, ahead of all the others.
LEMMA TakeMailOrdered ==
  ASSUME TypeOK, TypeOK', Ordered, NEW w \in Worker, TakeMail(w)
  PROVE  Ordered'
<1> USE DEF AtWorker, InEvents, InActions
<1> DEFINE m == Head(events)
<1>1. /\ events # <<>> /\ m.type = "Mail" /\ events' = Tail(events)
      /\ actions' = actions /\ queue' = queue
  BY DEF TakeMail, Take, registry
<1>2. m = events[1] /\ 1 \in DOMAIN events /\ events \in Seq(Event)
  BY <1>1 DEF TypeOK
<1>3. \A i \in DOMAIN events' :
        i \in Nat /\ i > 0 /\ i + 1 \in DOMAIN events /\ events'[i] = events[i + 1]
  BY <1>1, <1>2
<1>4. \A v \in Worker :
        \/ worker'[v] = worker[v]
        \/ worker'[v].tag = m.tag /\ worker'[v].envelope = m.envelope
  BY DEF TypeOK, TakeMail
<1>5. m.tag \in Address /\ DOMAIN queue \subseteq Address
  BY <1>1, HeadEvent DEF TypeOK
<1> HIDE DEF m
<1>6. WorkerEvents'
  BY <1>1, <1>2, <1>3, <1>4, <1>5 DEF Ordered, WorkerEvents, EventsEvents, InOrder
<1>7. WorkerQueue'
  BY <1>1, <1>2, <1>4, <1>5 DEF Ordered, WorkerQueue, EventsQueue, InOrder
<1>8. WorkerActions'
  BY <1>1, <1>2, <1>4, <1>5 DEF Ordered, WorkerActions, EventsActions, InOrder
<1>9. EventsEvents'
  BY <1>3 DEF Ordered, EventsEvents, InOrder
<1>10. EventsQueue'
  BY <1>1, <1>3 DEF Ordered, EventsQueue, InOrder
<1>11. EventsActions'
  BY <1>1, <1>3 DEF Ordered, EventsActions, InOrder
<1>12. QueueQueue' /\ QueueActions' /\ ActionsActions'
  BY <1>1 DEF Ordered, QueueQueue, QueueActions, ActionsActions, InOrder
<1> QED BY <1>6, <1>7, <1>8, <1>9, <1>10, <1>11, <1>12 DEF Ordered

\* What Tail leaves of the channel of actions.
LEMMA TailShift ==
  ASSUME TypeOK, actions # <<>>, actions' = Tail(actions)
  PROVE  /\ ActionsShift
         /\ Head(actions) = actions[1] /\ 1 \in DOMAIN actions
         /\ \A i \in DOMAIN actions' :
              i \in Nat /\ i > 0 /\ i + 1 \in DOMAIN actions /\ actions'[i] = actions[i + 1]
<1>1. actions \in Seq(Action)
  BY DEF TypeOK
<1>2. \A i \in DOMAIN actions' :
        i \in Nat /\ i > 0 /\ i + 1 \in DOMAIN actions /\ actions'[i] = actions[i + 1]
  BY <1>1
<1> QED BY <1>1, <1>2 DEF ActionsShift

\* A mailbox stays, or is removed, or is new and empty.
LEMMA QueueShifts ==
  ASSUME TypeOK
  PROVE  /\ queue' = queue => QueueShift
         /\ \A t : queue' = Without(queue, t) => QueueShift
         /\ \A t : queue' = Insert(queue, t, <<>>) => QueueShift
         /\ DOMAIN queue' = {} => QueueShift
         /\ \A t \in DOMAIN queue :
              queue[t] # <<>> /\ queue' = [queue EXCEPT ![t] = Tail(@)] => QueueShift
<1>1. \A t \in DOMAIN queue : queue[t] \in Seq(Envelope)
  BY DEF TypeOK
<1>2. \A t \in DOMAIN queue : \A i \in DOMAIN queue[t] : i + 0 \in DOMAIN queue[t] /\ i + 0 = i
  BY <1>1
<1>3. ASSUME queue' = queue PROVE QueueShift
  BY <1>2, <1>3 DEF QueueShift
<1>4. ASSUME NEW t, queue' = Without(queue, t) PROVE QueueShift
  BY <1>2, <1>4 DEF QueueShift, Without
<1>5. ASSUME NEW t, queue' = Insert(queue, t, <<>>) PROVE QueueShift
  BY <1>2, <1>5 DEF QueueShift, Insert
<1>6. ASSUME DOMAIN queue' = {} PROVE QueueShift
  BY <1>6 DEF QueueShift
<1>7. ASSUME NEW t \in DOMAIN queue, queue[t] # <<>>, queue' = [queue EXCEPT ![t] = Tail(@)]
      PROVE  QueueShift
  <2>1. \A i \in DOMAIN Tail(queue[t]) :
          i + 1 \in DOMAIN queue[t] /\ Tail(queue[t])[i] = queue[t][i + 1]
    BY <1>1, <1>7
  <2>2. \A s \in DOMAIN queue' : s \in DOMAIN queue
        /\ queue'[s] = IF s = t THEN Tail(queue[t]) ELSE queue[s]
    BY <1>7
  <2>3. \A i \in DOMAIN queue'[t] :
          t \in DOMAIN queue /\ i + 1 \in DOMAIN queue[t] /\ queue'[t][i] = queue[t][i + 1]
    BY <1>7, <2>1, <2>2
  <2>4. \A s \in DOMAIN queue' \ {t} : \A i \in DOMAIN queue'[s] :
          s \in DOMAIN queue /\ i + 0 \in DOMAIN queue[s] /\ queue'[s][i] = queue[s][i + 0]
    BY <1>2, <2>2
  <2> QED BY <2>3, <2>4 DEF QueueShift
<1> QED BY <1>3, <1>4, <1>5, <1>6, <1>7

\* The first action goes to the end of its mailbox.
LEMMA QueueBusyOrdered ==
  ASSUME MailInv, TypeOK', Ordered, QueueBusy
  PROVE  Ordered'
<1> USE DEF AtWorker, InEvents, InActions
<1> DEFINE tag == Head(actions).tag
           e == Head(actions).envelope
<1>1. TypeOK /\ MailboxIffActive
  BY DEF MailInv, RegistryInv
<1>2. /\ actions # <<>> /\ Head(actions).type = "Queue" /\ actions' = Tail(actions)
      /\ tag \in active /\ queue' = [queue EXCEPT ![tag] = push_back(queue[tag], e)]
      /\ events' = events /\ worker' = worker
  BY DEF QueueBusy, Receive
<1>3. /\ Head(actions) = actions[1] /\ 1 \in DOMAIN actions
      /\ \A i \in DOMAIN actions' :
           i \in Nat /\ i > 0 /\ i + 1 \in DOMAIN actions /\ actions'[i] = actions[i + 1]
  BY <1>1, <1>2, TailShift
<1>4. tag \in DOMAIN queue /\ tag \in Address /\ queue[tag] \in Seq(Envelope)
      /\ Len(queue[tag]) \in Nat /\ DOMAIN queue' = DOMAIN queue
  <2>1. tag \in DOMAIN queue
    BY <1>1, <1>2 DEF MailboxIffActive
  <2>2. tag \in Address /\ queue[tag] \in Seq(Envelope)
    BY <1>1, <2>1 DEF TypeOK
  <2>3. DOMAIN queue' = DOMAIN queue
    BY <1>2
  <2> QED BY <2>1, <2>2, <2>3
<1>5. \A t \in DOMAIN queue' : \A i \in DOMAIN queue'[t] :
        \/ i \in DOMAIN queue[t] /\ queue'[t][i] = queue[t][i]
             /\ (t = tag => i \in Nat /\ i <= Len(queue[tag]))
        \/ t = tag /\ i = Len(queue[tag]) + 1 /\ queue'[t][i] = e
  <2>1. \A i \in DOMAIN push_back(queue[tag], e) :
          \/ /\ i \in DOMAIN queue[tag] /\ push_back(queue[tag], e)[i] = queue[tag][i]
             /\ i <= Len(queue[tag]) /\ i \in Nat
          \/ i = Len(queue[tag]) + 1 /\ push_back(queue[tag], e)[i] = e
    BY <1>4, AppendIndex DEF push_back
  <2> HIDE DEF tag, e
  <2> QED BY <1>2, <1>4, <2>1
<1>6. e = actions[1].envelope /\ tag = actions[1].tag /\ actions[1].type = "Queue"
  BY <1>2, <1>3
<1>7. DOMAIN queue \subseteq Address
  BY <1>1 DEF TypeOK
<1> HIDE DEF tag, e
<1>8. WorkerQueue'
  BY <1>2, <1>3, <1>4, <1>5, <1>6 DEF Ordered, WorkerQueue, WorkerActions, InOrder
<1>9. EventsQueue'
  BY <1>2, <1>3, <1>4, <1>5, <1>6 DEF Ordered, EventsQueue, EventsActions, InOrder
<1>10. QueueQueue'
  BY <1>3, <1>4, <1>5, <1>6 DEF Ordered, QueueQueue, QueueActions, InOrder
<1>11. QueueActions'
  BY <1>3, <1>4, <1>5, <1>6, <1>7 DEF Ordered, QueueActions, ActionsActions, InOrder
<1>12. WorkerEvents' /\ EventsEvents'
  BY <1>2 DEF Ordered, WorkerEvents, EventsEvents, InOrder
<1>13. WorkerActions' /\ EventsActions'
  BY <1>2, <1>3 DEF Ordered, WorkerActions, EventsActions, InOrder
<1>14. ActionsActions'
  BY <1>3 DEF Ordered, ActionsActions, InOrder
<1> QED BY <1>8, <1>9, <1>10, <1>11, <1>12, <1>13, <1>14 DEF Ordered

\* What is unchanged, or loses its head, is shifted.
LEMMA SameShift ==
  ASSUME TypeOK
  PROVE  /\ actions' = actions => ActionsShift
         /\ events' = events \/ (events # <<>> /\ events' = Tail(events)) => EventsShift
         /\ worker' = worker => WorkerShift
<1>1. actions \in Seq(Action) /\ events \in Seq(Event)
  BY DEF TypeOK
<1>2. \A i \in DOMAIN actions : i + 0 \in DOMAIN actions /\ i + 0 = i
  BY <1>1
<1>3. \A i \in DOMAIN events : i + 0 \in DOMAIN events /\ i + 0 = i
  BY <1>1
<1>4. ASSUME events # <<>>, events' = Tail(events) PROVE EventsShift
  <2>1. \A i \in DOMAIN events' : i + 1 \in DOMAIN events /\ events'[i] = events[i + 1]
    BY <1>1, <1>4
  <2> QED BY <2>1 DEF EventsShift
<1>5. ASSUME events' = events PROVE EventsShift
  BY <1>3, <1>5 DEF EventsShift
<1>6. ASSUME actions' = actions PROVE ActionsShift
  BY <1>2, <1>6 DEF ActionsShift
<1> QED BY <1>4, <1>5, <1>6 DEF WorkerShift

\* So is a channel that gets something else than an envelope.
LEMMA PushShift ==
  ASSUME TypeOK, NEW a, a.type # "Queue", Push(a)
  PROVE  ActionsShift
<1>1. actions \in Seq(Action) /\ actions' = Append(actions, a)
  BY DEF TypeOK, Push
<1>2. \A i \in DOMAIN actions' :
        (i \in DOMAIN actions /\ actions'[i] = actions[i]) \/ actions'[i] = a
  BY <1>1, AppendIndex
<1>3. \A i \in DOMAIN actions : i + 0 = i
  BY <1>1
<1> QED BY <1>2, <1>3 DEF ActionsShift

\* An event without an envelope does not disturb the order,
LEMMA AppendShift ==
  ASSUME TypeOK, NEW m, m.type # "Mail", events' = Append(events, m)
  PROVE  EventsShift
<1>1. events \in Seq(Event)
  BY DEF TypeOK
<1>2. \A i \in DOMAIN events' :
        (i \in DOMAIN events /\ events'[i] = events[i]) \/ events'[i] = m
  BY <1>1, AppendIndex
<1>3. \A i \in DOMAIN events : i + 0 = i
  BY <1>1
<1> QED BY <1>2, <1>3 DEF EventsShift

\* in particular a Stop event, sent or not.
LEMMA StopShift ==
  ASSUME TypeOK, NEW tag, NEW actor, SendEvent(StopEvent(tag, actor))
  PROVE  EventsShift
<1>1. StopEvent(tag, actor).type # "Mail"
  BY DEF StopEvent
<1>2. events' = events \/ events' = Append(events, StopEvent(tag, actor))
  BY DEF SendEvent
<1> QED BY <1>1, <1>2, SameShift, AppendShift

\* The calls of the API: a new envelope is the youngest.
LEMMA CallOrdered ==
  ASSUME MailInv, TypeOK', Ordered, Call, UNCHANGED <<events, queue, worker>>
  PROVE  Ordered'
<1>1. TypeOK /\ sent \in Nat /\ now \in Nat
  BY DEF MailInv, RegistryInv, TypeOK
<1>2. PICK address \in Address :
        \/ send(address) \/ spawn(address) \/ stop(address)
        \/ \E duration \in Durations : delay(address, duration)
  BY DEF Call
<1>3. CASE send(address)
  <2> DEFINE x == [type |-> "Queue", tag |-> adjust_remote_address(address),
                   envelope |-> NewEnvelope(address, 0)]
  <2>1. adjust_remote_address(address) \in Address /\ NewEnvelope(address, 0) \in Envelope
    BY <1>1, AddressAssumption DEF adjust_remote_address, NewEnvelope, Envelope
  <2>2. x \in Action /\ x.type = "Queue" /\ x.envelope.id = sent + 1
    BY <2>1 DEF Action, NewEnvelope
  <2>3. Push(x)
    BY <1>3 DEF send
  <2> HIDE DEF x
  <2> QED BY <2>2, <2>3, PushOrdered
<1>4. CASE ~send(address)
  <2>1. \E a : a.type # "Queue" /\ Push(a)
    BY <1>2, <1>4 DEF spawn, stop, delay
  <2>2. ActionsShift
    BY <1>1, <2>1, PushShift
  <2> QED BY <1>1, <2>2, SameShift, QueueShifts, ShiftOrdered
<1> QED BY <1>3, <1>4

\* What is behind the head of a sequence comes one place forward.
LEMMA TailIndex ==
  ASSUME NEW S, NEW s \in Seq(S), s # <<>>
  PROVE  \A i \in DOMAIN Tail(s) :
           i \in Nat /\ i > 0 /\ i + 1 \in DOMAIN s /\ Tail(s)[i] = s[i + 1]
OBVIOUS

\* A Mail event for the first of a mailbox, or for the first action when the
\* mailbox is empty; the send may also fail.
LEMMA ReturnNextOrdered ==
  ASSUME MailInv, TypeOK', Ordered, ReturnNext
  PROVE  Ordered'
<1> DEFINE tag == Head(actions).tag
           e == Head(queue[tag])
<1>1. TypeOK /\ MailboxIffActive
  BY DEF MailInv, RegistryInv
<1>2. /\ actions # <<>> /\ actions' = Tail(actions) /\ worker' = worker
      /\ tag \in active /\ queue[tag] # <<>> /\ queue' = [queue EXCEPT ![tag] = Tail(@)]
      /\ SendEvent(MailEvent(tag, Head(actions).actor, e))
  BY DEF ReturnNext, Receive
<1>3. ActionsShift
  BY <1>1, <1>2, TailShift
<1>4. tag \in DOMAIN queue
  BY <1>1, <1>2 DEF MailboxIffActive
<1>5. tag \in Address /\ queue[tag] \in Seq(Envelope)
  BY <1>1, <1>4 DEF TypeOK
<1>6. QueueShift
  BY <1>1, <1>2, <1>4, QueueShifts
<1>7. e = queue[tag][1] /\ 1 \in DOMAIN queue[tag]
  BY <1>2, <1>5
<1>8. CASE EventsOpen
  <2>1. events' = Append(events, MailEvent(tag, Head(actions).actor, e))
    BY <1>2, <1>8 DEF SendEvent
  <2>2. queue'[tag] = Tail(queue[tag])
    BY <1>2, <1>4
  <2>3. \A i \in DOMAIN queue'[tag] :
          i \in Nat /\ i > 0 /\ i + 1 \in DOMAIN queue[tag] /\ queue'[tag][i] = queue[tag][i + 1]
    BY <1>2, <1>5, <2>2, TailIndex
  <2>4. \A i \in DOMAIN queue'[tag] : InOrder(e, queue'[tag][i])
    BY <1>4, <1>7, <2>3 DEF Ordered, QueueQueue
  <2>5. \A i \in DOMAIN actions' :
          actions'[i].type = "Queue" /\ actions'[i].tag = tag => InOrder(e, actions'[i].envelope)
    <3>1. \A i \in DOMAIN actions' : i + 1 \in DOMAIN actions /\ actions'[i] = actions[i + 1]
      BY <1>1, <1>2, TailShift
    <3> QED BY <1>4, <1>7, <3>1 DEF Ordered, QueueActions, InActions
  <2>6. \A w \in Worker : AtWorker(w, tag) => InOrder(worker[w].envelope, e)
    BY <1>4, <1>7 DEF Ordered, WorkerQueue
  <2>7. \A i \in DOMAIN events : InEvents(i, tag) => InOrder(events[i].envelope, e)
    BY <1>4, <1>7 DEF Ordered, EventsQueue
  <2> HIDE DEF tag, e
  <2> QED BY <1>1, <1>2, <1>3, <1>5, <1>6, <2>1, <2>4, <2>5, <2>6, <2>7, MailOrdered
<1>9. CASE ~EventsOpen
  <2>1. events' = events
    BY <1>2, <1>9 DEF SendEvent
  <2> QED BY <1>1, <1>2, <1>3, <1>6, <2>1, SameShift, ShiftOrdered
<1> QED BY <1>8, <1>9

\* The envelope of the first action goes straight to the waiting actor: its
\* mailbox was empty (WaitingIsDrained), so nothing is overtaken.
LEMMA QueueIdleOrdered ==
  ASSUME MailInv, TypeOK', Ordered, QueueIdle
  PROVE  Ordered'
<1> DEFINE tag == Head(actions).tag
           e == Head(actions).envelope
           mailbox == push_back(queue[tag], e)
<1>1. TypeOK /\ MailboxIffActive /\ WaitingIsDrained
  BY DEF MailInv, RegistryInv
<1>2. /\ actions # <<>> /\ actions' = Tail(actions) /\ worker' = worker
      /\ Head(actions).type = "Queue"
      /\ tag \in active /\ tag \in DOMAIN actors
      /\ queue' = [queue EXCEPT ![tag] = Tail(mailbox)]
      /\ SendEvent(MailEvent(tag, actors[tag], Head(mailbox)))
  BY DEF QueueIdle, Receive
<1>3. /\ ActionsShift /\ Head(actions) = actions[1] /\ 1 \in DOMAIN actions
      /\ \A i \in DOMAIN actions' :
           i \in Nat /\ i > 0 /\ i + 1 \in DOMAIN actions /\ actions'[i] = actions[i + 1]
  BY <1>1, <1>2, TailShift
<1>4. tag \in DOMAIN queue /\ queue[tag] = <<>>
  BY <1>1, <1>2 DEF MailboxIffActive, WaitingIsDrained
<1>5. tag \in Address
  BY <1>1, <1>4 DEF TypeOK
<1>6. Head(mailbox) = e /\ Tail(mailbox) = <<>>
  BY <1>4 DEF push_back
<1>7. queue' = queue
  BY <1>1, <1>2, <1>4, <1>6 DEF TypeOK
<1>8. QueueShift
  BY <1>1, <1>7, QueueShifts
<1>9. CASE EventsOpen
  <2>1. events' = Append(events, MailEvent(tag, actors[tag], e))
    BY <1>2, <1>6, <1>9 DEF SendEvent
  <2>2. e = actions[1].envelope /\ tag = actions[1].tag /\ actions[1].type = "Queue"
    BY <1>2, <1>3
  <2>3. \A i \in DOMAIN queue'[tag] : InOrder(e, queue'[tag][i])
    BY <1>4, <1>7
  <2>4. \A i \in DOMAIN actions' :
          actions'[i].type = "Queue" /\ actions'[i].tag = tag => InOrder(e, actions'[i].envelope)
    BY <1>3, <1>5, <2>2 DEF Ordered, ActionsActions, InActions
  <2>5. \A w \in Worker : AtWorker(w, tag) => InOrder(worker[w].envelope, e)
    BY <1>3, <1>5, <2>2 DEF Ordered, WorkerActions, InActions
  <2>6. \A i \in DOMAIN events : InEvents(i, tag) => InOrder(events[i].envelope, e)
    BY <1>3, <1>5, <2>2 DEF Ordered, EventsActions, InActions
  <2> HIDE DEF tag, e, mailbox
  <2> QED BY <1>1, <1>2, <1>3, <1>5, <1>8, <2>1, <2>3, <2>4, <2>5, <2>6, MailOrdered
<1>10. CASE ~EventsOpen
  <2>1. events' = events
    BY <1>2, <1>10 DEF SendEvent
  <2> QED BY <1>1, <1>2, <1>3, <1>8, <2>1, SameShift, ShiftOrdered
<1> QED BY <1>9, <1>10

-----------------------------------------------------------------------------
(* The inductive step.                                                     *)

\* The application appends its envelopes to the channel.
LEMMA OrderRun ==
  ASSUME MailInv, TypeOK', Ordered, RunCall \/ RunShutdown \/ RunDrop \/ Tick
  PROVE  Ordered'
<1> USE DEF loop, registry, budget, history
<1>1. TypeOK
  BY DEF MailInv, RegistryInv
<1>2. UNCHANGED <<events, queue, worker>>
  BY DEF RunCall, RunShutdown, RunDrop, Tick
<1>3. CASE RunCall
  BY <1>1, <1>2, <1>3, CallOrdered DEF RunCall
<1>4. CASE RunShutdown
  <2>1. actions' = actions \/ Push([type |-> "Shutdown"])
    BY <1>4 DEF RunShutdown
  <2>2. ActionsShift
    BY <1>1, <2>1, SameShift, PushShift DEF Action
  <2> QED BY <1>1, <1>2, <2>2, SameShift, QueueShifts, ShiftOrdered
<1>5. CASE RunDrop \/ Tick
  <2>1. actions' = actions
    BY <1>5 DEF RunDrop, Tick
  <2> QED BY <1>1, <1>2, <2>1, SameShift, QueueShifts, ShiftOrdered
<1> QED BY <1>3, <1>4, <1>5

\* A worker takes the first event only; what its handler sends is the youngest.
LEMMA OrderWorker ==
  ASSUME MailInv, TypeOK', Ordered, NEW w \in Worker, WorkerNext(w)
  PROVE  Ordered'
<1> USE DEF loop, registry, budget, history
<1>1. TypeOK /\ worker \in [Worker -> Thread]
  BY DEF MailInv, RegistryInv, TypeOK
<1>2. CASE TakeMail(w)
  BY <1>1, <1>2, TakeMailOrdered
<1>3. CASE HandlerCall(w)
  BY <1>1, <1>3, CallOrdered DEF HandlerCall
<1>4. CASE TakeStop(w) \/ TakeShutdown(w)
  <2>1. events # <<>> /\ events' = Tail(events) /\ actions' = actions /\ queue' = queue
    BY <1>4 DEF TakeStop, TakeShutdown, Take
  <2>2. WorkerShift
    BY <1>1, <1>4 DEF TakeStop, TakeShutdown, Enter, Thread, WorkerShift
  <2> QED BY <1>1, <2>1, <2>2, SameShift, QueueShifts, ShiftOrdered
<1>5. CASE HandlerNote(w)
  <2>1. PICK k \in Note : worker' = [worker EXCEPT ![w].notes[k] = @ + 1]
    BY <1>5 DEF HandlerNote
  <2> DEFINE n == [worker[w].notes EXCEPT ![k] = @ + 1]
  <2>2. worker' = [worker EXCEPT ![w].notes = n]
    BY <2>1
  <2> HIDE DEF n
  <2>3. WorkerShift
    BY <1>1, <2>2 DEF Thread, WorkerShift
  <2>4. events' = events /\ actions' = actions /\ queue' = queue
    BY <1>5 DEF HandlerNote
  <2> QED BY <1>1, <2>3, <2>4, SameShift, QueueShifts, ShiftOrdered
<1>6. CASE ReceivePanic(w) \/ StopReturn(w) \/ HookPanic(w) \/ Drained(w)
  <2>1. events' = events /\ actions' = actions /\ queue' = queue
    BY <1>6 DEF ReceivePanic, StopReturn, HookPanic, Drained
  <2>2. WorkerShift
    BY <1>1, <1>6
       DEF ReceivePanic, StopReturn, HookPanic, Drained, Enter, Idle, Thread, WorkerShift
  <2> QED BY <1>1, <2>1, <2>2, SameShift, QueueShifts, ShiftOrdered
<1>7. CASE SendReturn(w)
  <2> DEFINE a == [type |-> "Return", tag |-> worker[w].tag, actor |-> worker[w].actor,
                   ok |-> worker[w].pc = "receive"]
  <2>1. Push(a) /\ a.type # "Queue" /\ events' = events /\ queue' = queue
    BY <1>7 DEF SendReturn
  <2> HIDE DEF a
  <2>2. WorkerShift
    BY <1>1, <1>7 DEF SendReturn, Enter, Thread, WorkerShift
  <2> QED BY <1>1, <2>1, <2>2, SameShift, PushShift, QueueShifts, ShiftOrdered
<1>8. CASE Drain(w)
  <2>1. PICK k \in Note : /\ Push([type |-> k, n |-> worker[w].notes[k]])
                          /\ worker' = [worker EXCEPT ![w].notes[k] = 0]
    BY <1>8 DEF Drain
  <2> DEFINE a == [type |-> k, n |-> worker[w].notes[k]]
             n == [worker[w].notes EXCEPT ![k] = 0]
  <2>2. Push(a) /\ a.type # "Queue" /\ events' = events /\ queue' = queue
    BY <1>8, <2>1 DEF Drain, Note
  <2>3. worker' = [worker EXCEPT ![w].notes = n]
    BY <2>1
  <2> HIDE DEF a, n
  <2>4. WorkerShift
    BY <1>1, <2>3 DEF Thread, WorkerShift
  <2> QED BY <1>1, <2>2, <2>4, SameShift, PushShift, QueueShifts, ShiftOrdered
<1> QED BY <1>2, <1>3, <1>4, <1>5, <1>6, <1>7, <1>8 DEF WorkerNext

\* The scheduler takes the first action only; a due task is exempt.
LEMMA OrderScheduler ==
  ASSUME MailInv, TypeOK', Ordered, SchedulerNext
  PROVE  Ordered'
<1> USE DEF loop, registry, budget, history, Receive
<1> DEFINE tag == Head(actions).tag
<1>1. TypeOK
  BY DEF MailInv, RegistryInv
<1>2. worker' = worker
  BY DEF SchedulerNext, ReturnFailed, ReturnNext, ReturnIdle, ReturnStopped,
         QueueBusy, QueueIdle, SpawnNew, Delay, StopActive, Collect, Drop, Miss, Shutdown,
         FireTask, NextIteration, EagerExit, SendShutdown, AllNotified, DrainAction, Done
<1>3. WorkerShift
  BY <1>1, <1>2, SameShift
<1>4. CASE ReturnNext \/ QueueBusy \/ QueueIdle
  BY <1>4, ReturnNextOrdered, QueueBusyOrdered, QueueIdleOrdered
<1>5. CASE ReturnFailed \/ ReturnStopped \/ StopActive
  <2>1. actions # <<>> /\ actions' = Tail(actions) /\ queue' = Without(queue, tag)
    BY <1>5 DEF ReturnFailed, ReturnStopped, StopActive, Deactivate
  <2>2. \/ events' = events
        \/ \E actor : SendEvent(StopEvent(tag, actor))
    BY <1>5 DEF ReturnFailed, ReturnStopped, StopActive
  <2>3. EventsShift
    BY <1>1, <2>2, SameShift, StopShift
  <2> QED BY <1>1, <1>3, <2>1, <2>3, TailShift, QueueShifts, ShiftOrdered
<1>6. CASE SpawnNew
  <2>1. actions # <<>> /\ actions' = Tail(actions) /\ queue' = Insert(queue, tag, <<>>)
        /\ events' = events
    BY <1>6 DEF SpawnNew
  <2> QED BY <1>1, <1>3, <2>1, TailShift, SameShift, QueueShifts, ShiftOrdered
<1>7. CASE ReturnIdle \/ Delay \/ Collect \/ Drop \/ DrainAction
  <2>1. actions # <<>> /\ actions' = Tail(actions) /\ queue' = queue /\ events' = events
    BY <1>7 DEF ReturnIdle, Delay, Collect, Drop, DrainAction
  <2> QED BY <1>1, <1>3, <2>1, TailShift, SameShift, QueueShifts, ShiftOrdered
<1>8. CASE Shutdown \/ EagerExit
  <2>1. actions' = actions \/ (actions # <<>> /\ actions' = Tail(actions))
    BY <1>8 DEF Shutdown, EagerExit
  <2>2. events' = events /\ DOMAIN queue' = {}
    BY <1>8 DEF Shutdown, EagerExit, LeaveLoop
  <2> QED BY <1>1, <1>3, <2>1, <2>2, TailShift, SameShift, QueueShifts, ShiftOrdered
<1>9. CASE Miss \/ NextIteration \/ AllNotified \/ Done
  <2>1. actions' = actions /\ events' = events /\ queue' = queue
    BY <1>9 DEF Miss, NextIteration, AllNotified, Done
  <2> QED BY <1>1, <1>3, <2>1, SameShift, QueueShifts, ShiftOrdered
<1>10. CASE SendShutdown
  <2>1. actions' = actions /\ queue' = queue
    BY <1>10 DEF SendShutdown
  <2>2. events' = events \/ events' = Append(events, [type |-> "Shutdown"])
    BY <1>10 DEF SendShutdown
  <2>3. EventsShift
    BY <1>1, <2>2, SameShift, AppendShift
  <2> QED BY <1>1, <1>3, <2>1, <2>3, SameShift, QueueShifts, ShiftOrdered
<1>11. CASE FireTask
  <2>1. PICK e \in tasks :
          Push([type |-> "Queue", tag |-> e.tag, envelope |-> e.envelope])
    BY <1>11 DEF FireTask
  <2> DEFINE x == [type |-> "Queue", tag |-> e.tag, envelope |-> e.envelope]
  <2>2. x \in Action /\ x.type = "Queue" /\ x.envelope = e.envelope /\ Push(x)
    BY <1>1, <2>1 DEF TypeOK, Entry, Action
  <2>3. e.envelope.at > 0
    BY DEF MailInv, TasksOK
  <2> HIDE DEF x
  <2>4. UNCHANGED <<events, queue, worker>>
    BY <1>11 DEF FireTask
  <2> QED BY <2>2, <2>3, <2>4, PushOrdered
<1> QED BY <1>4, <1>5, <1>6, <1>7, <1>8, <1>9, <1>10, <1>11 DEF SchedulerNext

\* Every step keeps OrderInv.
LEMMA OrderStep == OrderInv /\ [Next]_vars => OrderInv'
<1> SUFFICES ASSUME OrderInv, [Next]_vars PROVE OrderInv' OBVIOUS
<1>1. MailInv /\ Ordered
  BY DEF OrderInv
<1>2. MailInv'
  BY <1>1, MailStep
<1>3. TypeOK'
  BY <1>2 DEF MailInv, RegistryInv
<1>4. CASE Finished \/ UNCHANGED vars
  <2>1. UNCHANGED <<events, queue, worker, actions>>
    BY <1>4 DEF Finished, vars, registry
  <2>2. TypeOK
    BY <1>1 DEF MailInv, RegistryInv
  <2>3. Ordered'
    BY <1>1, <1>3, <2>1, <2>2, SameShift, QueueShifts, ShiftOrdered
  <2> QED BY <1>2, <2>3 DEF OrderInv
<1>5. CASE Next
  BY <1>1, <1>2, <1>3, <1>4, <1>5, OrderRun, OrderWorker, OrderScheduler DEF Next, OrderInv
<1> QED BY <1>4, <1>5

\* At the start there is nothing to order.
LEMMA OrderInit == Init => OrderInv
<1> SUFFICES ASSUME Init PROVE OrderInv OBVIOUS
<1>1. DOMAIN actions = {} /\ DOMAIN events = {} /\ DOMAIN queue = {}
  BY DEF Init
<1> QED BY <1>1, MailInit DEF OrderInv, Ordered, WorkerEvents, WorkerQueue, WorkerActions,
          EventsEvents, EventsQueue, EventsActions, QueueQueue, QueueActions, ActionsActions

\* The nine conjuncts say what SentInOrder says of any two places.
LEMMA OrderedPlaces == OrderInv => SentInOrder
<1> SUFFICES ASSUME OrderInv, NEW tag \in Address, NEW p \in Places(tag), NEW q \in Places(tag),
                    Ahead(p, q), p.envelope.at = 0, q.envelope.at = 0
             PROVE  p.envelope.id < q.envelope.id
  BY DEF SentInOrder
<1> DEFINE W(r) == \E w \in Worker : AtWorker(w, tag) /\ r.stage = 0 /\ r.index = 0
                                     /\ r.envelope = worker[w].envelope
           E(r) == \E i \in DOMAIN events : InEvents(i, tag) /\ r.stage = 1 /\ r.index = i
                                            /\ r.envelope = events[i].envelope
           Q(r) == tag \in DOMAIN queue /\ \E i \in DOMAIN queue[tag] :
                     r.stage = 2 /\ r.index = i /\ r.envelope = queue[tag][i]
           A(r) == \E i \in DOMAIN actions : InActions(i, tag) /\ r.stage = 3 /\ r.index = i
                                             /\ r.envelope = actions[i].envelope
<1>1. \A r \in Places(tag) : W(r) \/ E(r) \/ Q(r) \/ A(r)
  BY DEF Places, AtWorker, InEvents, InActions
<1>2. p.stage < q.stage \/ (p.stage = q.stage /\ p.index < q.index)
  BY DEF Ahead
<1>3. Ordered
  BY DEF OrderInv
<1> QED BY <1>1, <1>2, <1>3 DEF Ordered, InOrder, WorkerEvents, WorkerQueue, WorkerActions,
          EventsEvents, EventsQueue, EventsActions, QueueQueue, QueueActions, ActionsActions

\* Envelopes sent to an address are received in the order they were sent,
\* whatever is stopped, failed and respawned meanwhile, for any number of
\* addresses, workers and envelopes.
THEOREM MessageOrder == Spec => []SentInOrder
BY OrderInit, OrderStep, OrderedPlaces, PTL DEF Spec

-----------------------------------------------------------------------------
(* Sums: the log and metric entries are added up over the buffers of the   *)
(* threads and over the channel.                                           *)

\* The pairs a sum counts.
LEMMA UnitsAre ==
  ASSUME NEW S, NEW f \in [S -> Nat], NEW p
  PROVE  p \in Units(f) <=> \E x \in S : \E j \in 1..f[x] : p = <<x, j>>
BY DEF Units

\* The sum of a function on a finite set is a number.
LEMMA SumType ==
  ASSUME NEW S, IsFiniteSet(S), NEW f \in [S -> Nat]
  PROVE  IsFiniteSet(Units(f)) /\ Total(f) \in Nat
<1> DEFINE row == [x \in S |-> {x} \X (1..f[x])]
           rows == {row[x] : x \in S}
<1>1. IsFiniteSet(rows)
  <2>1. row \in Surjection(S, rows)
    BY DEF Surjection
  <2> HIDE DEF row, rows
  <2> QED BY <2>1, FS_Surjection
<1>2. \A r \in rows : IsFiniteSet(r)
  <2> SUFFICES ASSUME NEW x \in S PROVE IsFiniteSet({x} \X (1..f[x]))
    OBVIOUS
  <2>1. IsFiniteSet({x}) /\ f[x] \in Int
    BY FS_Singleton
  <2>2. IsFiniteSet(1..f[x])
    BY <2>1, FS_Interval
  <2> QED BY <2>1, <2>2, FS_Product
<1>3. Units(f) = UNION rows
  <2>1. rows = {{x} \X (1..f[x]) : x \in DOMAIN f}
    OBVIOUS
  <2> QED BY <2>1 DEF Units
<1>4. IsFiniteSet(Units(f))
  <2> HIDE DEF rows
  <2> QED BY <1>1, <1>2, <1>3, FS_UNION
<1> QED BY <1>4, FS_CardinalityType DEF Total

\* An argument and the others.
LEMMA SumSplit ==
  ASSUME NEW S, IsFiniteSet(S), NEW x \in S, NEW f \in [S -> Nat],
         NEW g \in [S \ {x} -> Nat], \A y \in S \ {x} : g[y] = f[y]
  PROVE  Total(f) = Total(g) + f[x]
<1> DEFINE own == {x} \X (1..f[x])
<1>1. IsFiniteSet(Units(g)) /\ Total(g) \in Nat
  <2>1. IsFiniteSet(S \ {x})
    BY FS_RemoveElement
  <2> QED BY <2>1, SumType
<1>2. IsFiniteSet(own) /\ Cardinality(own) = f[x]
  <2>1. IsFiniteSet({x}) /\ Cardinality({x}) = 1
    BY FS_Singleton
  <2>2. f[x] \in Nat
    OBVIOUS
  <2>3. IsFiniteSet(1..f[x]) /\ Cardinality(1..f[x]) = f[x]
    BY <2>2, FS_Interval
  <2>4. IsFiniteSet(own) /\ Cardinality(own) = Cardinality({x}) * Cardinality(1..f[x])
    BY <2>1, <2>3, FS_Product
  <2>5. Cardinality({x}) * Cardinality(1..f[x]) = 1 * f[x]
    BY <2>1, <2>3
  <2>6. 1 * f[x] = f[x]
    BY <2>2
  <2> QED BY <2>4, <2>5, <2>6
<1>3. Units(f) = Units(g) \cup own
  <2>1. \A p : p \in Units(f) <=> \E y \in S : \E j \in 1..f[y] : p = <<y, j>>
    BY UnitsAre
  <2>2. \A p : p \in Units(g) <=> \E y \in S \ {x} : \E j \in 1..f[y] : p = <<y, j>>
    BY UnitsAre
  <2>3. \A p : p \in own <=> \E j \in 1..f[x] : p = <<x, j>>
    OBVIOUS
  <2> HIDE DEF own
  <2> QED BY <2>1, <2>2, <2>3
<1>4. Units(g) \cap own = {}
  <2>1. \A p \in Units(g) : \E y \in S \ {x} : \E j \in 1..f[y] : p = <<y, j>>
    BY UnitsAre
  <2>2. \A p \in Units(g) : p[1] # x
    BY <2>1
  <2> QED BY <2>2
<1>5. Cardinality(Units(g) \cap own) = 0
  BY <1>4, FS_EmptySet
<1>6. Cardinality(Units(g) \cup own) =
        Cardinality(Units(g)) + Cardinality(own) - Cardinality(Units(g) \cap own)
  <2> HIDE DEF own
  <2> QED BY <1>1, <1>2, FS_Union
<1> HIDE DEF own
<1> QED BY <1>1, <1>2, <1>3, <1>5, <1>6 DEF Total

\* A function that changes at one argument.
LEMMA SumExcept ==
  ASSUME NEW S, IsFiniteSet(S), NEW x \in S, NEW f \in [S -> Nat], NEW g \in [S -> Nat],
         \A y \in S \ {x} : g[y] = f[y]
  PROVE  Total(g) + f[x] = Total(f) + g[x]
<1> DEFINE rest == [y \in S \ {x} |-> f[y]]
<1>1. rest \in [S \ {x} -> Nat] /\ \A y \in S \ {x} : rest[y] = f[y] /\ rest[y] = g[y]
  OBVIOUS
<1> HIDE DEF rest
<1>2. Total(f) = Total(rest) + f[x]
  BY <1>1, SumSplit
<1>3. Total(g) = Total(rest) + g[x]
  BY <1>1, SumSplit
<1>4. Total(rest) \in Nat
  <2>1. IsFiniteSet(S \ {x})
    BY FS_RemoveElement
  <2> QED BY <1>1, <2>1, SumType
<1>5. f[x] \in Nat /\ g[x] \in Nat
  OBVIOUS
<1> QED BY <1>2, <1>3, <1>4, <1>5

\* An argument, and the others under new names.
LEMMA SumMoved ==
  ASSUME NEW S, IsFiniteSet(S), NEW x \in S, NEW f \in [S -> Nat],
         NEW T, IsFiniteSet(T), NEW g \in [T -> Nat],
         NEW R, R = S \ {x}, NEW m \in Bijection(T, R), \A t \in T : g[t] = f[m[t]]
  PROVE  Total(f) = Total(g) + f[x]
<1> DEFINE rest == [y \in R |-> f[y]]
           move == [p \in Units(g) |-> <<m[p[1]], p[2]>>]
<1>1. rest \in [R -> Nat] /\ \A y \in R : rest[y] = f[y]
  OBVIOUS
<1>2. /\ m \in [T -> R]
      /\ \A t, u \in T : m[t] = m[u] => t = u
      /\ \A y \in R : \E t \in T : m[t] = y
  BY DEF Bijection, Injection, IsInjective, Surjection
<1> HIDE DEF rest
<1>3. \A u \in Units(g) : \E t \in T : \E j \in 1..g[t] : u = <<t, j>>
  BY UnitsAre
<1>4. \A u \in Units(rest) : \E y \in R : \E j \in 1..f[y] : u = <<y, j>>
  BY <1>1, UnitsAre
<1>5. move \in Bijection(Units(g), Units(rest))
  <2>1. \A p \in Units(g) : move[p] \in Units(rest)
    <3> SUFFICES ASSUME NEW t \in T, NEW j \in 1..g[t]
                 PROVE  <<m[t], j>> \in Units(rest)
      BY <1>3
    <3>1. m[t] \in R /\ j \in 1..rest[m[t]]
      BY <1>1, <1>2
    <3> QED BY <1>1, <3>1, UnitsAre
  <2>2. \A p, q \in Units(g) : move[p] = move[q] => p = q
    <3> SUFFICES ASSUME NEW p \in Units(g), NEW q \in Units(g), move[p] = move[q]
                 PROVE  p = q
      OBVIOUS
    <3>1. m[p[1]] = m[q[1]] /\ p[2] = q[2]
      OBVIOUS
    <3> QED BY <1>2, <1>3, <3>1
  <2>3. \A q \in Units(rest) : \E p \in Units(g) : move[p] = q
    <3> SUFFICES ASSUME NEW q \in Units(rest)
                 PROVE  \E p \in Units(g) : move[p] = q
      OBVIOUS
    <3>1. PICK y \in R : \E j \in 1..f[y] : q = <<y, j>>
      BY <1>4
    <3>2. PICK j \in 1..f[y] : q = <<y, j>>
      BY <3>1
    <3>3. PICK t \in T : m[t] = y
      BY <1>2
    <3>4. <<t, j>> \in Units(g)
      BY <3>3, UnitsAre
    <3>5. move[<<t, j>>] = <<y, j>>
      BY <3>3, <3>4
    <3> QED BY <3>2, <3>4, <3>5
  <2>4. move \in [Units(g) -> Units(rest)]
    BY <2>1
  <2> HIDE DEF move
  <2> QED BY <2>2, <2>3, <2>4, Fun_IsBij
<1> HIDE DEF move
<1>6. Total(rest) = Total(g)
  <2>1. IsFiniteSet(Units(g))
    BY SumType
  <2>2. ExistsBijection(Units(g), Units(rest))
    BY <1>5 DEF ExistsBijection
  <2> QED BY <2>1, <2>2, FS_Bijection DEF Total
<1>7. Total(f) = Total(rest) + f[x]
  <2>1. rest \in [S \ {x} -> Nat] /\ \A y \in S \ {x} : rest[y] = f[y]
    BY <1>1
  <2>2. x \in S /\ IsFiniteSet(S) /\ f \in [S -> Nat]
    OBVIOUS
  <2> QED BY ONLY <2>1, <2>2, SumSplit
<1> QED BY <1>6, <1>7

\* A list with a value more at its end,
LEMMA SumAppend ==
  ASSUME NEW n \in Nat, NEW f \in [1..n -> Nat], NEW g \in [1..(n + 1) -> Nat],
         \A i \in 1..n : g[i] = f[i]
  PROVE  Total(g) = Total(f) + g[n + 1]
<1> DEFINE last == n + 1
<1>1. last \in 1..last /\ 1..n = (1..last) \ {last} /\ last \in Int
  OBVIOUS
<1>2. IsFiniteSet(1..last)
  BY <1>1, FS_Interval
<1>3. f \in [(1..last) \ {last} -> Nat] /\ \A i \in (1..last) \ {last} : f[i] = g[i]
  BY <1>1
<1>4. g \in [1..last -> Nat]
  OBVIOUS
<1> HIDE DEF last
<1>5. Total(g) = Total(f) + g[last]
  BY <1>1, <1>2, <1>3, <1>4, SumSplit
<1> QED BY <1>5 DEF last

\* or with the first one gone, where the others move up by one.
LEMMA SumTail ==
  ASSUME NEW n \in Nat, NEW f, f \in [1..(n + 1) -> Nat], NEW g, g \in [1..n -> Nat],
         \A i \in 1..n : g[i] = f[i + 1]
  PROVE  Total(f) = Total(g) + f[1]
<1> DEFINE first == 1
           whole == 1..(n + 1)
           short == 1..n
           behind == whole \ {first}
           m == [i \in short |-> i + 1]
<1>1. IsFiniteSet(whole) /\ IsFiniteSet(short)
  <2>1. n \in Int /\ n + 1 \in Int
    OBVIOUS
  <2> QED BY <2>1, FS_Interval
<1>2. m \in Bijection(short, behind)
  <2>1. m \in [short -> behind]
    OBVIOUS
  <2>2. \A i, j \in short : m[i] = m[j] => i = j
    OBVIOUS
  <2>3. \A j \in behind : j - 1 \in short /\ m[j - 1] = j
    OBVIOUS
  <2> HIDE DEF first, whole, short, behind, m
  <2> QED BY <2>1, <2>2, <2>3, Fun_IsBij
<1>3. \A i \in short : g[i] = f[m[i]]
  OBVIOUS
<1>4. first \in whole /\ behind = whole \ {first} /\ f \in [whole -> Nat] /\ g \in [short -> Nat]
  OBVIOUS
<1> HIDE DEF first, whole, short, behind, m
<1>5. Total(f) = Total(g) + f[first]
  BY ONLY <1>1, <1>2, <1>3, <1>4, SumMoved
<1> QED BY <1>5 DEF first

-----------------------------------------------------------------------------
(* The buffers and the channel.                                            *)

\* The entries of kind k that each action of a channel carries.
Counts(seq, k) == [i \in DOMAIN seq |-> IF seq[i].type = k THEN seq[i].n ELSE 0]

\* Numbers, and so a number.
LEMMA CountType ==
  ASSUME NEW k \in Note, NEW seq, seq \in Seq(Action)
  PROVE  Counts(seq, k) \in [1..Len(seq) -> Nat] /\ Total(Counts(seq, k)) \in Nat
<1>1. Len(seq) \in Nat /\ DOMAIN seq = 1..Len(seq) /\ \A i \in 1..Len(seq) : seq[i] \in Action
  OBVIOUS
<1>2. \A a \in Action : a.type = k => a.n \in Nat
  BY DEF Action, Note
<1>3. Counts(seq, k) \in [1..Len(seq) -> Nat]
  BY <1>1, <1>2 DEF Counts
<1>4. IsFiniteSet(1..Len(seq))
  <2>1. 1 \in Int /\ Len(seq) \in Int
    BY <1>1
  <2> QED BY <2>1, FS_Interval
<1> QED BY <1>3, <1>4, SumType

\* An action sent adds what it carries,
LEMMA CountAppend ==
  ASSUME NEW k \in Note, NEW seq, seq \in Seq(Action),
         NEW item, Append(seq, item) \in Seq(Action)
  PROVE  Total(Counts(Append(seq, item), k)) =
           Total(Counts(seq, k)) + (IF item.type = k THEN item.n ELSE 0)
<1> DEFINE n == Len(seq)
           more == Append(seq, item)
<1>1. n \in Nat /\ Len(more) = n + 1 /\ more \in Seq(Action)
  OBVIOUS
<1>2. Counts(seq, k) \in [1..n -> Nat] /\ Counts(more, k) \in [1..(n + 1) -> Nat]
  <2> HIDE DEF more
  <2> QED BY <1>1, CountType
<1>3. \A i \in 1..n : Counts(more, k)[i] = Counts(seq, k)[i]
  BY DEF Counts
<1>4. Counts(more, k)[n + 1] = IF item.type = k THEN item.n ELSE 0
  BY DEF Counts
<1> HIDE DEF n, more
<1>5. Total(Counts(more, k)) = Total(Counts(seq, k)) + Counts(more, k)[n + 1]
  BY ONLY <1>1, <1>2, <1>3, SumAppend
<1> QED BY <1>4, <1>5 DEF more

\* one received takes it away, and of the others none is lost.
LEMMA CountTail ==
  ASSUME NEW k \in Note, NEW seq, seq \in Seq(Action), seq # <<>>
  PROVE  Total(Counts(seq, k)) =
           Total(Counts(Tail(seq), k)) + (IF Head(seq).type = k THEN Head(seq).n ELSE 0)
<1> DEFINE less == Tail(seq)
           n == Len(less)
<1>1. n \in Nat /\ Len(seq) = n + 1 /\ less \in Seq(Action)
  OBVIOUS
<1>2. Counts(seq, k) \in [1..(n + 1) -> Nat] /\ Counts(less, k) \in [1..n -> Nat]
  <2>1. Counts(seq, k) \in [1..Len(seq) -> Nat] /\ Counts(less, k) \in [1..Len(less) -> Nat]
    <3> HIDE DEF less
    <3> QED BY <1>1, CountType
  <2> QED BY <1>1, <2>1
<1>3. \A i \in 1..n : Counts(less, k)[i] = Counts(seq, k)[i + 1]
  <2>1. \A i \in 1..n : i \in DOMAIN less /\ i + 1 \in DOMAIN seq /\ less[i] = seq[i + 1]
    OBVIOUS
  <2> HIDE DEF less
  <2> QED BY <2>1 DEF Counts
<1>4. Counts(seq, k)[1] = IF Head(seq).type = k THEN Head(seq).n ELSE 0
  BY DEF Counts
<1> HIDE DEF n, less
<1>5. Total(Counts(seq, k)) = Total(Counts(less, k)) + Counts(seq, k)[1]
  BY ONLY <1>1, <1>2, <1>3, SumTail
<1> QED BY <1>4, <1>5 DEF less

\* The buffers of the threads.
LEMMA BufferType ==
  ASSUME NEW k \in Note, NEW threads \in [Worker -> Thread]
  PROVE  /\ [w \in Worker |-> threads[w].notes[k]] \in [Worker -> Nat]
         /\ Total([w \in Worker |-> threads[w].notes[k]]) \in Nat
<1>1. [w \in Worker |-> threads[w].notes[k]] \in [Worker -> Nat]
  BY DEF Thread
<1> QED BY <1>1, ConfigAssumption, SumType

\* The buffer of one worker changes.
LEMMA BufferChange ==
  ASSUME TypeOK, TypeOK', NEW k \in Note, NEW w \in Worker,
         \A v \in Worker \ {w} : worker'[v].notes = worker[v].notes
  PROVE  Total(InBuffers(k))' + worker[w].notes[k] = Total(InBuffers(k)) + worker'[w].notes[k]
<1>1. InBuffers(k) \in [Worker -> Nat] /\ InBuffers(k)' \in [Worker -> Nat]
  BY BufferType DEF TypeOK, InBuffers
<1>2. \A v \in Worker \ {w} : InBuffers(k)'[v] = InBuffers(k)[v]
  BY DEF InBuffers
<1>3. IsFiniteSet(Worker)
  BY ConfigAssumption
<1>4. w \in Worker
  OBVIOUS
<1>5. Total(InBuffers(k)') + InBuffers(k)[w] = Total(InBuffers(k)) + InBuffers(k)'[w]
  BY ONLY <1>1, <1>2, <1>3, <1>4, SumExcept
<1> QED BY <1>5 DEF InBuffers

\* Everything that is added up is a number.
LEMMA NoteTypes ==
  ASSUME TypeOK, NEW k \in Note
  PROVE  /\ Total(InBuffers(k)) \in Nat /\ Total(InChannel(k)) \in Nat
         /\ noted[k] \in Nat /\ notes[k] \in Nat /\ reported[k] \in Nat
<1>1. Total(InBuffers(k)) \in Nat
  BY BufferType DEF TypeOK, InBuffers
<1>2. Total(Counts(actions, k)) \in Nat
  BY CountType DEF TypeOK
<1> QED BY <1>1, <1>2 DEF TypeOK, Counts, InChannel

-----------------------------------------------------------------------------
(* The steps.                                                              *)

\* A step that neither writes nor passes on an entry, nor ends the loop.
Noteless ==
  /\ UNCHANGED <<notes, noted, reported>>
  /\ \A w \in Worker : worker'[w].notes = worker[w].notes
  /\ LoopRuns' => LoopRuns
  /\ \A w \in Worker : worker[w].pc = "dead" => worker'[w].pc = "dead"
  /\ \/ actions' = actions
     \/ \E item : item.type \notin Note /\ actions' = Append(actions, item)
     \/ actions # <<>> /\ Head(actions).type \notin Note /\ actions' = Tail(actions)

\* It leaves all the sums as they are.
LEMMA NotelessConserves ==
  ASSUME TypeOK, TypeOK', NotesConserved, Noteless
  PROVE  NotesConserved'
<1> SUFFICES ASSUME LoopRuns', \A w \in Worker : worker'[w].pc # "dead", NEW k \in Note
             PROVE  noted'[k] =
                      Total(InBuffers(k))' + Total(InChannel(k))' + notes'[k] + reported'[k]
  BY DEF NotesConserved
<1>1. noted[k] = Total(InBuffers(k)) + Total(InChannel(k)) + notes[k] + reported[k]
  BY DEF NotesConserved, Noteless
<1>2. InBuffers(k)' = InBuffers(k)
  BY DEF Noteless, InBuffers
<1>3. Total(Counts(actions', k)) = Total(Counts(actions, k))
  <2>1. actions \in Seq(Action) /\ actions' \in Seq(Action)
    BY DEF TypeOK
  <2>2. Total(Counts(actions, k)) \in Nat /\ Total(Counts(actions', k)) \in Nat
    BY <2>1, CountType
  <2>3. ASSUME NEW item, item.type \notin Note, actions' = Append(actions, item)
        PROVE  Total(Counts(actions', k)) = Total(Counts(actions, k))
    <3>1. item.type # k
      BY <2>3
    <3>2. Append(actions, item) \in Seq(Action)
      BY <2>1, <2>3
    <3>3. Total(Counts(Append(actions, item), k)) = Total(Counts(actions, k)) + 0
      BY <2>1, <3>1, <3>2, CountAppend
    <3> QED BY <2>2, <2>3, <3>3
  <2>4. CASE actions # <<>> /\ Head(actions).type \notin Note /\ actions' = Tail(actions)
    <3>1. Head(actions).type # k
      BY <2>4
    <3>2. Total(Counts(actions, k)) = Total(Counts(Tail(actions), k)) + 0
      BY <2>1, <2>4, <3>1, CountTail
    <3> QED BY <2>2, <2>4, <3>2
  <2> QED BY <2>3, <2>4 DEF Noteless
<1>4. InChannel(k)' = Counts(actions', k) /\ InChannel(k) = Counts(actions, k)
  BY DEF InChannel, Counts
<1>5. UNCHANGED <<notes, noted, reported>>
  BY DEF Noteless
<1> QED BY <1>1, <1>2, <1>3, <1>4, <1>5

\* The API puts no log or metric entries into the channel.
LEMMA CallNoteless ==
  ASSUME Call
  PROVE  \E item : item.type \notin Note /\ actions' = Append(actions, item)
<1>1. PICK address \in Address :
        \/ send(address) \/ spawn(address) \/ stop(address)
        \/ \E duration \in Durations : delay(address, duration)
  BY DEF Call
<1>2. CASE send(address)
  <2> DEFINE new == [type |-> "Queue", tag |-> adjust_remote_address(address),
                     envelope |-> NewEnvelope(address, 0)]
  <2>1. actions' = Append(actions, new) /\ new.type \notin Note
    BY <1>2 DEF send, Push, Note
  <2> HIDE DEF new
  <2> QED BY <2>1
<1>3. CASE spawn(address)
  <2> DEFINE new == [type |-> "Spawn", tag |-> address, actor |-> spawned + 1]
  <2>1. actions' = Append(actions, new) /\ new.type \notin Note
    BY <1>3 DEF spawn, Push, Note
  <2> HIDE DEF new
  <2> QED BY <2>1
<1>4. CASE stop(address)
  <2> DEFINE new == [type |-> "Stop", tag |-> address]
  <2>1. actions' = Append(actions, new) /\ new.type \notin Note
    BY <1>4 DEF stop, Push, Note
  <2> HIDE DEF new
  <2> QED BY <2>1
<1>5. ASSUME NEW duration \in Durations, delay(address, duration)
      PROVE  \E item : item.type \notin Note /\ actions' = Append(actions, item)
  <2> DEFINE new == [type |-> "Delay",
                     entry |-> [tag |-> adjust_remote_address(address),
                                envelope |-> NewEnvelope(address, now + duration)]]
  <2>1. actions' = Append(actions, new) /\ new.type \notin Note
    BY <1>5 DEF delay, Push, Note
  <2> HIDE DEF new
  <2> QED BY <2>1
<1> QED BY <1>1, <1>2, <1>3, <1>4, <1>5

\* The application, the clock, or nobody.
LEMMA RunNoteless ==
  ASSUME TypeOK, RunCall \/ RunShutdown \/ RunDrop \/ Tick \/ Finished \/ UNCHANGED vars
  PROVE  Noteless
<1> USE DEF loop, registry, budget, history
<1>1. UNCHANGED <<worker, notes, noted, reported, sched>>
  BY DEF RunCall, RunShutdown, RunDrop, Tick, Finished, vars
<1>2. CASE RunCall
  BY <1>1, <1>2, CallNoteless DEF RunCall, Noteless, LoopRuns
<1>3. CASE RunShutdown
  <2> DEFINE new == [type |-> "Shutdown"]
  <2>1. (actions' = actions \/ actions' = Append(actions, new)) /\ new.type \notin Note
    BY <1>3 DEF RunShutdown, Push, Note
  <2> HIDE DEF new
  <2> QED BY <1>1, <2>1 DEF Noteless, LoopRuns
<1>4. CASE RunDrop \/ Tick \/ Finished \/ UNCHANGED vars
  <2>1. actions' = actions
    BY <1>4 DEF RunDrop, Tick, Finished, vars
  <2> QED BY <1>1, <2>1 DEF Noteless, LoopRuns
<1> QED BY <1>2, <1>3, <1>4

\* A worker that writes no entry and passes none on.
LEMMA WorkerNoteless ==
  ASSUME TypeOK, NEW w \in Worker,
         \/ TakeMail(w) \/ TakeStop(w) \/ TakeShutdown(w) \/ HandlerCall(w)
         \/ ReceivePanic(w) \/ SendReturn(w) \/ StopReturn(w) \/ HookPanic(w) \/ Drained(w)
  PROVE  Noteless
<1> USE DEF loop, registry, budget, history
<1>1. worker \in [Worker -> Thread]
  BY DEF TypeOK
<1>2. UNCHANGED <<notes, noted, reported, sched>>
  BY DEF TakeMail, TakeStop, TakeShutdown, HandlerCall, ReceivePanic, SendReturn, StopReturn,
     HookPanic, Drained
<1>3. \A v \in Worker \ {w} : worker'[v] = worker[v]
  BY <1>1 DEF TakeMail, TakeStop, TakeShutdown, HandlerCall, ReceivePanic, SendReturn, StopReturn,
     HookPanic, Drained, Enter
<1>4. worker'[w].notes = worker[w].notes
  <2>1. CASE TakeMail(w) \/ TakeStop(w)
    BY <1>1, <2>1 DEF TakeMail, TakeStop
  <2>2. CASE TakeShutdown(w) \/ ReceivePanic(w) \/ SendReturn(w) \/ StopReturn(w) \/ HookPanic(w)
    BY <1>1, <2>2 DEF TakeShutdown, ReceivePanic, SendReturn, StopReturn, HookPanic, Enter, Thread
  <2>3. CASE HandlerCall(w)
    BY <2>3 DEF HandlerCall
  <2>4. CASE Drained(w)
    BY <1>1, <2>4 DEF Drained, Idle
  <2> QED BY <2>1, <2>2, <2>3, <2>4
<1>5. worker[w].pc # "dead"
  BY DEF TakeMail, TakeStop, TakeShutdown, Take, HandlerCall, InHandler, ReceivePanic, SendReturn,
     StopReturn, HookPanic, Drained
<1>6. \/ actions' = actions
      \/ \E item : item.type \notin Note /\ actions' = Append(actions, item)
  <2>1. CASE HandlerCall(w)
    BY <2>1, CallNoteless DEF HandlerCall
  <2>2. CASE SendReturn(w)
    <3> DEFINE new == [type |-> "Return", tag |-> worker[w].tag, actor |-> worker[w].actor,
                       ok |-> worker[w].pc = "receive"]
    <3>1. actions' = Append(actions, new) /\ new.type \notin Note
      BY <2>2 DEF SendReturn, Push, Note
    <3> HIDE DEF new
    <3> QED BY <3>1
  <2>3. CASE ~HandlerCall(w) /\ ~SendReturn(w)
    BY <2>3 DEF TakeMail, TakeStop, TakeShutdown, ReceivePanic, StopReturn, HookPanic, Drained
  <2> QED BY <2>1, <2>2, <2>3
<1>7. (\A v \in Worker : worker'[v].notes = worker[v].notes)
      /\ (\A v \in Worker : worker[v].pc = "dead" => worker'[v].pc = "dead")
  BY <1>3, <1>4, <1>5
<1> QED BY <1>2, <1>6, <1>7 DEF Noteless, LoopRuns

\* What event_loop does with anything but entries.
LEMMA LoopNoteless ==
  ASSUME TypeOK,
         \/ ReturnFailed \/ ReturnNext \/ ReturnIdle \/ ReturnStopped \/ QueueBusy \/ QueueIdle
         \/ SpawnNew \/ Delay \/ StopActive \/ Drop \/ Miss \/ FireTask
  PROVE  Noteless
<1> USE DEF loop, registry, budget, history
<1>1. UNCHANGED <<worker, notes, noted, reported>> /\ sched \in {"recv", "tasks"}
  BY DEF ReturnFailed, ReturnNext, ReturnIdle, ReturnStopped, QueueBusy, QueueIdle, SpawnNew,
     Delay, StopActive, Drop, Miss, FireTask, Receive
<1>2. \/ actions' = actions
      \/ \E item : item.type \notin Note /\ actions' = Append(actions, item)
      \/ actions # <<>> /\ Head(actions).type \notin Note /\ actions' = Tail(actions)
  <2>1. CASE FireTask
    <3>1. PICK e \in tasks : Push([type |-> "Queue", tag |-> e.tag, envelope |-> e.envelope])
      BY <2>1 DEF FireTask
    <3> DEFINE new == [type |-> "Queue", tag |-> e.tag, envelope |-> e.envelope]
    <3>2. actions' = Append(actions, new) /\ new.type \notin Note
      BY <3>1 DEF Push, Note
    <3> HIDE DEF new
    <3> QED BY <3>2
  <2>2. CASE Miss
    BY <2>2 DEF Miss
  <2>3. CASE ~FireTask /\ ~Miss
    BY <2>3 DEF ReturnFailed, ReturnNext, ReturnIdle, ReturnStopped, QueueBusy, QueueIdle, SpawnNew,
       Delay, StopActive, Drop, Receive, Note
  <2> QED BY <2>1, <2>2, <2>3
<1> QED BY <1>1, <1>2 DEF Noteless, LoopRuns

\* A handler writes an entry into its thread's buffer.
LEMMA HandlerNoteConserves ==
  ASSUME TypeOK, TypeOK', NotesConserved, NEW w \in Worker, HandlerNote(w)
  PROVE  NotesConserved'
<1> USE DEF loop, registry, budget, history
<1>1. PICK k \in Note : /\ noted' = [noted EXCEPT ![k] = @ + 1]
                        /\ worker' = [worker EXCEPT ![w].notes[k] = @ + 1]
  BY DEF HandlerNote
<1>2. UNCHANGED <<sched, actions, notes, reported>>
  BY DEF HandlerNote
<1>3. /\ worker \in [Worker -> Thread] /\ noted \in [Note -> Nat]
      /\ worker[w].notes \in [Note -> Nat]
  BY DEF TypeOK, Thread
<1>4. /\ \A v \in Worker \ {w} : worker'[v] = worker[v]
      /\ worker'[w].pc = worker[w].pc
      /\ worker'[w].notes = [worker[w].notes EXCEPT ![k] = @ + 1]
  BY <1>1, <1>3 DEF Thread
<1> SUFFICES ASSUME LoopRuns', \A v \in Worker : worker'[v].pc # "dead", NEW j \in Note
             PROVE  noted'[j] =
                      Total(InBuffers(j))' + Total(InChannel(j))' + notes'[j] + reported'[j]
  BY DEF NotesConserved
<1>5. \A v \in Worker : worker[v].pc # "dead"
  BY <1>4
<1>6. noted[j] = Total(InBuffers(j)) + Total(InChannel(j)) + notes[j] + reported[j]
  BY <1>2, <1>5 DEF NotesConserved, LoopRuns
<1>7. Total(InBuffers(j))' + worker[w].notes[j] = Total(InBuffers(j)) + worker'[w].notes[j]
  BY <1>4, BufferChange
<1>8. InChannel(j)' = InChannel(j)
  BY <1>2 DEF InChannel
<1>9. /\ Total(InBuffers(j)) \in Nat /\ Total(InChannel(j)) \in Nat
      /\ noted[j] \in Nat /\ notes[j] \in Nat /\ reported[j] \in Nat /\ worker[w].notes[j] \in Nat
  BY <1>3, NoteTypes
<1>10. Total(InBuffers(j))' \in Nat
  BY BufferType DEF TypeOK, InBuffers
<1>11. CASE j = k
  <2>1. noted'[j] = noted[j] + 1 /\ worker'[w].notes[j] = worker[w].notes[j] + 1
    BY <1>1, <1>3, <1>4, <1>11
  <2> QED BY <1>2, <1>6, <1>7, <1>8, <1>9, <1>10, <2>1
<1>12. CASE j # k
  <2>1. noted'[j] = noted[j] /\ worker'[w].notes[j] = worker[w].notes[j]
    BY <1>1, <1>3, <1>4, <1>12
  <2> QED BY <1>2, <1>6, <1>7, <1>8, <1>9, <1>10, <2>1
<1> QED BY <1>11, <1>12

\* Local::drain sends the buffer and empties it.
LEMMA DrainConserves ==
  ASSUME TypeOK, TypeOK', NotesConserved, NEW w \in Worker, Drain(w)
  PROVE  NotesConserved'
<1> USE DEF loop, registry, budget, history
<1>1. PICK k \in Note : /\ Push([type |-> k, n |-> worker[w].notes[k]])
                        /\ worker' = [worker EXCEPT ![w].notes[k] = 0]
  BY DEF Drain
<1> DEFINE item == [type |-> k, n |-> worker[w].notes[k]]
<1>2. UNCHANGED <<sched, notes, noted, reported>>
  BY DEF Drain
<1>3. /\ worker \in [Worker -> Thread] /\ worker[w].notes \in [Note -> Nat]
      /\ actions \in Seq(Action)
  BY DEF TypeOK, Thread
<1>4. /\ \A v \in Worker \ {w} : worker'[v] = worker[v]
      /\ worker'[w].pc = worker[w].pc
      /\ worker'[w].notes = [worker[w].notes EXCEPT ![k] = 0]
  BY <1>1, <1>3 DEF Thread
<1> SUFFICES ASSUME LoopRuns', \A v \in Worker : worker'[v].pc # "dead", NEW j \in Note
             PROVE  noted'[j] =
                      Total(InBuffers(j))' + Total(InChannel(j))' + notes'[j] + reported'[j]
  BY DEF NotesConserved
<1>5. \A v \in Worker : worker[v].pc # "dead"
  BY <1>4
<1>6. noted[j] = Total(InBuffers(j)) + Total(InChannel(j)) + notes[j] + reported[j]
  BY <1>2, <1>5 DEF NotesConserved, LoopRuns
<1>7. Total(InBuffers(j))' + worker[w].notes[j] = Total(InBuffers(j)) + worker'[w].notes[j]
  BY <1>4, BufferChange
<1>8. item.type = k /\ item.n = worker[w].notes[k] /\ actions' = Append(actions, item)
  BY <1>1 DEF Push
<1> HIDE DEF item
<1>9. Total(InChannel(j))' = Total(InChannel(j)) + (IF k = j THEN worker[w].notes[k] ELSE 0)
  <2>1. Append(actions, item) \in Seq(Action)
    BY <1>8 DEF TypeOK
  <2>2. Total(Counts(Append(actions, item), j)) =
          Total(Counts(actions, j)) + (IF item.type = j THEN item.n ELSE 0)
    BY <1>3, <2>1, CountAppend
  <2>3. InChannel(j)' = Counts(actions', j) /\ InChannel(j) = Counts(actions, j)
    BY DEF InChannel, Counts
  <2> QED BY <1>8, <2>2, <2>3
<1>10. /\ Total(InBuffers(j)) \in Nat /\ Total(InChannel(j)) \in Nat
       /\ noted[j] \in Nat /\ notes[j] \in Nat /\ reported[j] \in Nat /\ worker[w].notes[j] \in Nat
  BY <1>3, NoteTypes
<1>11. Total(InBuffers(j))' \in Nat
  BY BufferType DEF TypeOK, InBuffers
<1>12. CASE j = k
  <2>1. worker'[w].notes[j] = 0
    BY <1>3, <1>4, <1>12
  <2> QED BY <1>2, <1>6, <1>7, <1>9, <1>10, <1>11, <1>12, <2>1
<1>13. CASE j # k
  <2>1. worker'[w].notes[j] = worker[w].notes[j]
    BY <1>3, <1>4, <1>13
  <2> QED BY <1>2, <1>6, <1>7, <1>9, <1>10, <1>11, <1>13, <2>1
<1> QED BY <1>12, <1>13

\* event_loop collects what a thread has sent.
LEMMA CollectConserves ==
  ASSUME TypeOK, TypeOK', NotesConserved, Collect
  PROVE  NotesConserved'
<1> USE DEF loop, registry, budget, history
<1>1. PICK k \in Note : Receive(k) /\ notes' = [notes EXCEPT ![k] = @ + Head(actions).n]
  BY DEF Collect
<1>2. UNCHANGED <<worker, noted, reported>> /\ LoopRuns
  BY <1>1 DEF Collect, Receive, LoopRuns
<1>3. /\ actions \in Seq(Action) /\ notes \in [Note -> Nat]
      /\ actions # <<>> /\ Head(actions).type = k /\ actions' = Tail(actions)
  BY <1>1 DEF TypeOK, Receive
<1>4. Head(actions).n \in Nat
  BY <1>3, HeadAction
<1> SUFFICES ASSUME \A v \in Worker : worker'[v].pc # "dead", NEW j \in Note
             PROVE  noted'[j] =
                      Total(InBuffers(j))' + Total(InChannel(j))' + notes'[j] + reported'[j]
  BY DEF NotesConserved
<1>5. noted[j] = Total(InBuffers(j)) + Total(InChannel(j)) + notes[j] + reported[j]
  BY <1>2 DEF NotesConserved
<1>6. InBuffers(j)' = InBuffers(j)
  BY <1>2 DEF InBuffers
<1>7. Total(InChannel(j)) = Total(InChannel(j))' + (IF k = j THEN Head(actions).n ELSE 0)
  <2>1. Total(Counts(actions, j)) =
          Total(Counts(Tail(actions), j)) + (IF Head(actions).type = j THEN Head(actions).n ELSE 0)
    BY <1>3, CountTail
  <2>2. InChannel(j)' = Counts(actions', j) /\ InChannel(j) = Counts(actions, j)
    BY DEF InChannel, Counts
  <2> QED BY <1>3, <2>1, <2>2
<1>8. /\ Total(InBuffers(j)) \in Nat /\ Total(InChannel(j)) \in Nat
      /\ noted[j] \in Nat /\ notes[j] \in Nat /\ reported[j] \in Nat
  BY NoteTypes
<1>9. Total(InChannel(j))' \in Nat
  <2>1. actions' \in Seq(Action)
    BY DEF TypeOK
  <2> QED BY <2>1, CountType DEF InChannel, Counts
<1>10. CASE j = k
  <2>1. notes'[j] = notes[j] + Head(actions).n
    BY <1>1, <1>3, <1>10
  <2> QED BY <1>2, <1>4, <1>5, <1>6, <1>7, <1>8, <1>9, <1>10, <2>1
<1>11. CASE j # k
  <2>1. notes'[j] = notes[j]
    BY <1>1, <1>3, <1>11
  <2> QED BY <1>2, <1>5, <1>6, <1>7, <1>8, <1>9, <1>11, <2>1
<1> QED BY <1>10, <1>11

\* report_logs and report_metrics hand over what was collected, and forget it.
LEMMA ReportConserves ==
  ASSUME TypeOK, NotesConserved, NextIteration
  PROVE  NotesConserved'
<1> USE DEF loop, registry, budget, history
<1>1. UNCHANGED <<worker, noted, actions>> /\ LoopRuns
  BY DEF NextIteration, LoopRuns
<1>2. notes \in [Note -> Nat] /\ reported \in [Note -> Nat]
  BY DEF TypeOK
<1> SUFFICES ASSUME \A v \in Worker : worker'[v].pc # "dead", NEW j \in Note
             PROVE  noted'[j] =
                      Total(InBuffers(j))' + Total(InChannel(j))' + notes'[j] + reported'[j]
  BY DEF NotesConserved
<1>3. noted[j] = Total(InBuffers(j)) + Total(InChannel(j)) + notes[j] + reported[j]
  BY <1>1 DEF NotesConserved
<1>4. InBuffers(j)' = InBuffers(j) /\ InChannel(j)' = InChannel(j)
  BY <1>1 DEF InBuffers, InChannel
<1>5. notes'[j] \in Nat /\ reported'[j] \in Nat /\ notes'[j] + reported'[j] = notes[j] + reported[j]
  <2>1. CASE Report
    BY <1>2, <2>1 DEF Report, report
  <2>2. CASE UNCHANGED <<reported, notes>>
    BY <1>2, <2>2
  <2> QED BY <2>1, <2>2 DEF NextIteration
<1>6. /\ Total(InBuffers(j)) \in Nat /\ Total(InChannel(j)) \in Nat
      /\ notes[j] \in Nat /\ reported[j] \in Nat
  BY NoteTypes
<1> QED BY <1>1, <1>3, <1>4, <1>5, <1>6

\* Nothing that is empty adds up to anything.
LEMMA NotesInit == Init => NotesConserved
<1> SUFFICES ASSUME Init, NEW k \in Note
             PROVE  noted[k] = Total(InBuffers(k)) + Total(InChannel(k)) + notes[k] + reported[k]
  BY DEF NotesConserved
<1>1. noted[k] = 0 /\ notes[k] = 0 /\ reported[k] = 0
  BY DEF Init, NoNotes
<1>2. Units(InChannel(k)) = {}
  <2>1. DOMAIN InChannel(k) = {}
    BY DEF Init, InChannel
  <2> QED BY <2>1 DEF Units
<1>3. Units(InBuffers(k)) = {}
  <2>1. DOMAIN InBuffers(k) = Worker /\ \A w \in Worker : InBuffers(k)[w] = 0
    BY DEF Init, InBuffers, Idle, NoNotes
  <2>2. \A w \in Worker : {w} \X (1..InBuffers(k)[w]) = {}
    BY <2>1
  <2> QED BY <2>1, <2>2 DEF Units
<1> QED BY <1>1, <1>2, <1>3, FS_EmptySet DEF Total

\* Every step adds up.
LEMMA NotesStep == TypeOK /\ TypeOK' /\ NotesConserved /\ [Next]_vars => NotesConserved'
<1> SUFFICES ASSUME TypeOK, TypeOK', NotesConserved, [Next]_vars
             PROVE  NotesConserved'
  OBVIOUS
<1> USE DEF loop, registry, budget, history
<1>1. CASE RunCall \/ RunShutdown \/ RunDrop \/ Tick \/ Finished \/ UNCHANGED vars
  BY <1>1, RunNoteless, NotelessConserves
<1>2. ASSUME NEW w \in Worker, WorkerNext(w)
      PROVE  NotesConserved'
  <2>1. CASE HandlerNote(w)
    BY <2>1, HandlerNoteConserves
  <2>2. CASE Drain(w)
    BY <2>2, DrainConserves
  <2>3. CASE ~HandlerNote(w) /\ ~Drain(w)
    <3>1. Noteless
      BY <1>2, <2>3, WorkerNoteless DEF WorkerNext
    <3> QED BY <3>1, NotelessConserves
  <2> QED BY <2>1, <2>2, <2>3
<1>3. CASE SchedulerNext
  <2>1. CASE Collect
    BY <2>1, CollectConserves
  <2>2. CASE NextIteration
    BY <2>2, ReportConserves
  <2>3. CASE Shutdown \/ EagerExit \/ SendShutdown \/ AllNotified \/ DrainAction \/ Done
    <3>1. ~LoopRuns'
      BY <2>3 DEF Shutdown, EagerExit, LeaveLoop, SendShutdown, AllNotified, DrainAction, Done,
         LoopRuns
    <3> QED BY <3>1 DEF NotesConserved
  <2>4. CASE \/ ReturnFailed \/ ReturnNext \/ ReturnIdle \/ ReturnStopped \/ QueueBusy \/ QueueIdle
             \/ SpawnNew \/ Delay \/ StopActive \/ Drop \/ Miss \/ FireTask
    BY <2>4, LoopNoteless, NotelessConserves
  <2> QED BY <1>3, <2>1, <2>2, <2>3, <2>4 DEF SchedulerNext
<1> QED BY <1>1, <1>2, <1>3 DEF Next

\* No log or metric entry is lost or handed over twice on its way from a handler
\* through Local::drain, the channel and event_loop to report_logs or
\* report_metrics, whatever fails and whenever the reporting interval elapses,
\* while the loop runs and no hook has killed a worker with its buffer.
THEOREM EntriesReportedOnce == Spec => []NotesConserved
<1>1. TypeOK /\ TypeOK' /\ NotesConserved /\ [Next]_vars => NotesConserved'
  BY NotesStep
<1> QED BY <1>1, NotesInit, TypeCorrect, PTL DEF Spec

=============================================================================
