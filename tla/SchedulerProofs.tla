--------------------------- MODULE SchedulerProofs ---------------------------
(***************************************************************************)
(* Theorems about Scheduler, for any set of addresses, any finite set of   *)
(* workers and any bounds.                                                 *)
(***************************************************************************)
EXTENDS Scheduler, FiniteSetTheorems, TLAPS

-----------------------------------------------------------------------------
(* Facts about the helpers.                                                *)

\* HashMap::insert and remove keep a map's type.
LEMMA MapType ==
  ASSUME NEW K, NEW V, NEW map, DOMAIN map \subseteq K, map \in [DOMAIN map -> V],
         NEW key \in K, NEW value \in V
  PROVE  /\ DOMAIN Insert(map, key, value) \subseteq K
         /\ Insert(map, key, value) \in [DOMAIN Insert(map, key, value) -> V]
         /\ DOMAIN Without(map, key) \subseteq K
         /\ Without(map, key) \in [DOMAIN Without(map, key) -> V]
BY DEF Insert, Without

\* A channel with one more item.
LEMMA AppendType ==
  ASSUME NEW T, NEW seq \in Seq(T), NEW item \in T
  PROVE  Append(seq, item) \in Seq(T)
OBVIOUS

\* There are finitely many worker threads, so that they can be counted.
LEMMA WorkerCount == Cardinality(Worker) \in Nat
BY ConfigAssumption, FS_CardinalityType

-----------------------------------------------------------------------------
(* Type correctness.                                                       *)

\* What the API puts into the channel is an action.
LEMMA CallType ==
  ASSUME TypeOK, Call
  PROVE  /\ actions' \in Seq(Action)
         /\ spawned' \in Nat /\ sent' \in Nat /\ stops' \in Nat
<1> USE DEF TypeOK
<1>1. PICK address \in Address :
        \/ send(address) \/ spawn(address) \/ stop(address)
        \/ \E duration \in Durations : delay(address, duration)
  BY DEF Call
<1>2. adjust_remote_address(address) \in Address
  BY AddressAssumption DEF adjust_remote_address
<1>3. CASE send(address)
  <2>1. NewEnvelope(address, 0) \in Envelope
    BY DEF NewEnvelope, Envelope
  <2> QED BY <1>2, <1>3, <2>1 DEF send, Push, Action
<1>4. CASE spawn(address)
  BY <1>4 DEF spawn, Push, Action
<1>5. CASE stop(address)
  BY <1>5 DEF stop, Push, Action
<1>6. ASSUME NEW duration \in Durations, delay(address, duration)
      PROVE  /\ actions' \in Seq(Action)
             /\ spawned' \in Nat /\ sent' \in Nat /\ stops' \in Nat
  <2>1. NewEnvelope(address, now + duration) \in Envelope
    BY BoundAssumption DEF NewEnvelope, Envelope
  <2>2. [tag |-> adjust_remote_address(address),
         envelope |-> NewEnvelope(address, now + duration)] \in Entry
    BY <1>2, <2>1 DEF Entry
  <2> QED BY <1>6, <2>2 DEF delay, Push, Action
<1> QED BY <1>1, <1>3, <1>4, <1>5, <1>6

\* The head of a channel has the type its tag says.
LEMMA HeadAction ==
  ASSUME TypeOK, actions # <<>>
  PROVE  /\ Head(actions) \in Action /\ Tail(actions) \in Seq(Action)
         /\ Head(actions).type = "Return" =>
              /\ Head(actions).tag \in Address /\ Head(actions).actor \in Nat
              /\ Head(actions).ok \in BOOLEAN
         /\ Head(actions).type = "Spawn" =>
              Head(actions).tag \in Address /\ Head(actions).actor \in Nat
         /\ Head(actions).type = "Queue" =>
              Head(actions).tag \in Address /\ Head(actions).envelope \in Envelope
         /\ Head(actions).type = "Delay" => Head(actions).entry \in Entry
         /\ Head(actions).type = "Stop" => Head(actions).tag \in Address
         /\ Head(actions).type \in Note => Head(actions).n \in Nat
<1>1. Head(actions) \in Action /\ Tail(actions) \in Seq(Action)
  BY DEF TypeOK
<1> QED BY <1>1 DEF Action, Note

\* The first event has the fields of its type.
LEMMA HeadEvent ==
  ASSUME TypeOK, events # <<>>
  PROVE  /\ Head(events) \in Event /\ Tail(events) \in Seq(Event)
         /\ Head(events).type = "Mail" =>
              /\ Head(events).tag \in Address /\ Head(events).actor \in Nat
              /\ Head(events).envelope \in Envelope
         /\ Head(events).type = "Stop" =>
              Head(events).tag \in Address /\ Head(events).actor \in Nat
<1>1. Head(events) \in Event /\ Tail(events) \in Seq(Event)
  BY DEF TypeOK
<1> QED BY <1>1 DEF Event

\* Sending an event, or failing to, leaves the loop and the channel typed.
LEMMA SendEventType ==
  ASSUME TypeOK, NEW event \in Event, SendEvent(event)
  PROVE  /\ sched' \in Phase /\ shut' = shut /\ horizon' \in Nat
         /\ events' \in Seq(Event)
<1>1. CASE EventsOpen
  <2>1. events' = Append(events, event) /\ EndMatch
    BY <1>1 DEF SendEvent
  <2>2. events' \in Seq(Event)
    BY <2>1, AppendType DEF TypeOK
  <2>3. HalfPrecision \in Nat
    BY BoundAssumption
  <2> QED BY <2>1, <2>2, <2>3 DEF TypeOK, EndMatch, Phase
<1>2. CASE ~EventsOpen
  BY <1>2 DEF TypeOK, SendEvent, Phase
<1> QED BY <1>1, <1>2

\* Init has the types.
LEMMA TypeInit == Init => TypeOK
<1> SUFFICES ASSUME Init PROVE TypeOK OBVIOUS
<1>1. NoNotes \in [Note -> Nat] BY DEF NoNotes
<1>2. NoEnvelope \in Envelope BY DEF NoEnvelope, Envelope
<1>3. Idle \in Thread BY <1>1, <1>2 DEF Idle, Thread, Activity
<1>4. shut \in 0..Cardinality(Worker) BY WorkerCount DEF Init
<1>5. DOMAIN actors = {} /\ DOMAIN queue = {}
  BY DEF Init
<1>6. actors \in [DOMAIN actors -> Nat] /\ queue \in [DOMAIN queue -> Seq(Envelope)]
  BY <1>5 DEF Init
<1>7. \A w \in Worker : worker[w] = Idle
  BY DEF Init
<1>8. actions \in Seq(Action) /\ events \in Seq(Event)
  BY DEF Init
<1> QED BY <1>1, <1>3, <1>4, <1>5, <1>6, <1>7, <1>8 DEF Init, TypeOK, Phase, Idle

\* The steps of the application and of the clock.
LEMMA TypeRun ==
  ASSUME TypeOK, RunCall \/ RunShutdown \/ RunDrop \/ Tick
  PROVE  TypeOK'
<1>1. CASE RunCall
  BY <1>1, CallType DEF TypeOK, RunCall, loop, registry, history
<1>2. CASE RunShutdown
  <2>1. [type |-> "Shutdown"] \in Action
    BY DEF Action
  <2>2. actions' \in Seq(Action)
    BY <1>2, <2>1, AppendType DEF TypeOK, RunShutdown, Push
  <2> QED BY <1>2, <2>2 DEF TypeOK, RunShutdown, loop, registry, history, budget
<1>3. CASE RunDrop
  BY <1>3 DEF TypeOK, RunDrop, loop, registry, history, budget
<1>4. CASE Tick
  BY <1>4 DEF TypeOK, Tick, loop, registry, history, budget
<1> QED BY <1>1, <1>2, <1>3, <1>4

\* The steps of a worker thread.
LEMMA TypeWorker ==
  ASSUME TypeOK, NEW w \in Worker, WorkerNext(w)
  PROVE  TypeOK'
<1> USE DEF loop, registry, budget, history
<1>1. CASE TakeMail(w)
  <2>1. worker' \in [Worker -> Thread]
    BY <1>1, HeadEvent DEF TypeOK, TakeMail, Take, Thread, Activity
  <2>2. \A v \in Worker : worker'[v] = worker[v] \/ worker'[v].tag \in Address
    BY <1>1, HeadEvent DEF TypeOK, TakeMail, Take
  <2>3. events' \in Seq(Event)
    BY <1>1, HeadEvent DEF TakeMail, Take
  <2> QED BY <1>1, <2>1, <2>2, <2>3 DEF TypeOK, TakeMail
<1>2. CASE TakeStop(w)
  <2>1. worker' \in [Worker -> Thread]
    BY <1>2, HeadEvent DEF TypeOK, TakeStop, Take, Thread, Activity, NoEnvelope, Envelope
  <2>2. \A v \in Worker : worker'[v] = worker[v] \/ worker'[v].tag \in Address
    BY <1>2, HeadEvent DEF TypeOK, TakeStop, Take
  <2>3. events' \in Seq(Event) /\ hooked' \subseteq Nat
    BY <1>2, HeadEvent DEF TypeOK, TakeStop, Take
  <2> QED BY <1>2, <2>1, <2>2, <2>3 DEF TypeOK, TakeStop
<1>3. CASE TakeShutdown(w)
  BY <1>3, HeadEvent DEF TypeOK, TakeShutdown, Take, Enter, Thread, Activity
<1>4. CASE HandlerCall(w)
  BY <1>4, CallType DEF TypeOK, HandlerCall
<1>5. CASE HandlerNote(w)
  <2>1. PICK k \in Note : /\ noted' = [noted EXCEPT ![k] = @ + 1]
                          /\ worker' = [worker EXCEPT ![w].notes[k] = @ + 1]
    BY <1>5 DEF HandlerNote
  <2>2. noted' \in [Note -> Nat]
    BY <2>1 DEF TypeOK
  <2>3. worker[w].notes \in [Note -> Nat]
    BY DEF TypeOK, Thread
  <2> DEFINE n == [worker[w].notes EXCEPT ![k] = @ + 1]
  <2>4. n \in [Note -> Nat]
    BY <2>3
  <2>5. worker' = [worker EXCEPT ![w].notes = n]
    BY <2>1
  <2> HIDE DEF n
  <2>6. worker' \in [Worker -> Thread]
    BY <2>4, <2>5 DEF TypeOK, Thread
  <2>7. \A v \in Worker : worker'[v].pc = worker[v].pc /\ worker'[v].tag = worker[v].tag
    BY <2>5 DEF TypeOK, Thread
  <2> QED BY <1>5, <2>2, <2>6, <2>7 DEF TypeOK, HandlerNote
<1>6. CASE ReceivePanic(w)
  BY <1>6 DEF TypeOK, ReceivePanic, Enter, Thread, Activity
<1>7. CASE SendReturn(w)
  <2>1. worker' \in [Worker -> Thread]
    BY <1>7 DEF TypeOK, SendReturn, Enter, Thread, Activity
  <2>2. worker[w].tag \in Address /\ worker[w].actor \in Nat
    BY <1>7 DEF TypeOK, SendReturn, Thread
  <2>3. actions' \in Seq(Action)
    BY <1>7, <2>2 DEF TypeOK, SendReturn, Push, Action
  <2> QED BY <1>7, <2>1, <2>3 DEF TypeOK, SendReturn, Enter
<1>8. CASE StopReturn(w)
  BY <1>8 DEF TypeOK, StopReturn, Enter, Thread, Activity
<1>9. CASE HookPanic(w)
  BY <1>9 DEF TypeOK, HookPanic, Enter, Thread, Activity
<1>10. CASE Drain(w)
  <2>1. PICK k \in Note : /\ Push([type |-> k, n |-> worker[w].notes[k]])
                          /\ worker' = [worker EXCEPT ![w].notes[k] = 0]
    BY <1>10 DEF Drain
  <2>2. worker[w].notes \in [Note -> Nat]
    BY DEF TypeOK, Thread
  <2>3. actions' \in Seq(Action)
    BY <2>1, <2>2 DEF TypeOK, Push, Action
  <2> DEFINE n == [worker[w].notes EXCEPT ![k] = 0]
  <2>4. n \in [Note -> Nat]
    BY <2>2
  <2>5. worker' = [worker EXCEPT ![w].notes = n]
    BY <2>1
  <2> HIDE DEF n
  <2>6. worker' \in [Worker -> Thread]
    BY <2>4, <2>5 DEF TypeOK, Thread
  <2>7. \A v \in Worker : worker'[v].pc = worker[v].pc /\ worker'[v].tag = worker[v].tag
    BY <2>5 DEF TypeOK, Thread
  <2> QED BY <1>10, <2>3, <2>6, <2>7 DEF TypeOK, Drain
<1>11. CASE Drained(w)
  <2>1. Idle \in Thread
    BY DEF Idle, Thread, Activity, NoNotes, NoEnvelope, Envelope
  <2>2. worker' \in [Worker -> Thread]
    BY <1>11, <2>1 DEF TypeOK, Drained
  <2>3. \A v \in Worker : worker'[v] = worker[v] \/ worker'[v].pc = "idle"
    BY <1>11 DEF TypeOK, Drained, Idle
  <2> QED BY <1>11, <2>2, <2>3 DEF TypeOK, Drained
<1> QED BY <1>1, <1>2, <1>3, <1>4, <1>5, <1>6, <1>7, <1>8, <1>9, <1>10, <1>11 DEF WorkerNext

\* The end of a match arm leaves the loop typed.
LEMMA EndMatchType ==
  ASSUME TypeOK, EndMatch
  PROVE  sched' \in Phase /\ shut' = shut /\ horizon' \in Nat
<1>1. HalfPrecision \in Nat
  BY BoundAssumption
<1> QED BY <1>1 DEF TypeOK, EndMatch, Phase

\* The events the scheduler sends for an actor of its registry.
LEMMA EventType ==
  ASSUME NEW tag \in Address, NEW actor \in Nat, NEW envelope \in Envelope
  PROVE  MailEvent(tag, actor, envelope) \in Event /\ StopEvent(tag, actor) \in Event
BY DEF MailEvent, StopEvent, Event

\* A mailbox with one more envelope.
LEMMA PushBackType ==
  ASSUME NEW mailbox \in Seq(Envelope), NEW envelope \in Envelope
  PROVE  /\ push_back(mailbox, envelope) \in Seq(Envelope)
         /\ push_back(mailbox, envelope) # <<>>
         /\ Head(push_back(mailbox, envelope)) \in Envelope
         /\ Tail(push_back(mailbox, envelope)) \in Seq(Envelope)
BY DEF push_back

\* What is left of the scheduler's state after the loop.
LEMMA LeaveLoopType ==
  ASSUME LeaveLoop
  PROVE  /\ sched' \in Phase /\ horizon' \in Nat /\ active' \subseteq Address
         /\ DOMAIN actors' \subseteq Address /\ actors' \in [DOMAIN actors' -> Nat]
         /\ DOMAIN queue' \subseteq Address /\ queue' \in [DOMAIN queue' -> Seq(Envelope)]
         /\ tasks' \subseteq Entry /\ notes' \in [Note -> Nat]
         /\ DOMAIN queue' = active'
<1>1. DOMAIN actors' = {} /\ DOMAIN queue' = {}
  BY DEF LeaveLoop
<1>2. actors' \in [DOMAIN actors' -> Nat] /\ queue' \in [DOMAIN queue' -> Seq(Envelope)]
  BY <1>1 DEF LeaveLoop
<1> QED BY <1>1, <1>2 DEF LeaveLoop, Phase, NoNotes

\* The arms of the scheduler's match.
LEMMA TypeMatch ==
  ASSUME TypeOK,
         \/ ReturnFailed \/ ReturnNext \/ ReturnIdle \/ ReturnStopped
         \/ QueueBusy \/ QueueIdle \/ SpawnNew \/ Delay \/ StopActive
         \/ Collect \/ Drop \/ Miss \/ Shutdown,
         MailboxIffActive
  PROVE  TypeOK'
<1> USE DEF loop, registry, budget, history, Receive
<1> DEFINE tag == Head(actions).tag
<1>1. CASE ReturnFailed
  <2>1. actions # <<>> /\ Head(actions).type = "Return" /\ actions' = Tail(actions)
    BY <1>1 DEF ReturnFailed
  <2>2. active' \subseteq Address /\ DOMAIN queue' \subseteq Address
        /\ queue' \in [DOMAIN queue' -> Seq(Envelope)]
    BY <1>1 DEF ReturnFailed, Deactivate, TypeOK, Without
  <2> QED BY <1>1, <2>1, <2>2, HeadAction DEF TypeOK, ReturnFailed
<1>2. CASE ReturnNext
  <2>1. actions # <<>> /\ Head(actions).type = "Return" /\ actions' = Tail(actions)
    BY <1>2 DEF ReturnNext
  <2>2. tag \in Address /\ Head(actions).actor \in Nat /\ actions' \in Seq(Action)
    BY <2>1, HeadAction
  <2>3. tag \in DOMAIN queue /\ queue[tag] # <<>> /\ queue[tag] \in Seq(Envelope)
    BY <1>2 DEF ReturnNext, MailboxIffActive, TypeOK
  <2>4. Head(queue[tag]) \in Envelope /\ Tail(queue[tag]) \in Seq(Envelope)
    BY <2>3
  <2>5. queue' = [queue EXCEPT ![tag] = Tail(queue[tag])]
    BY <1>2 DEF ReturnNext
  <2>6. DOMAIN queue' \subseteq Address /\ queue' \in [DOMAIN queue' -> Seq(Envelope)]
    BY <2>4, <2>5 DEF TypeOK
  <2>7. MailEvent(tag, Head(actions).actor, Head(queue[tag])) \in Event
    BY <2>2, <2>4, EventType
  <2>8. sched' \in Phase /\ shut' = shut /\ horizon' \in Nat /\ events' \in Seq(Event)
    BY <1>2, <2>7, SendEventType DEF ReturnNext
  <2> QED BY <1>2, <2>2, <2>6, <2>8 DEF TypeOK, ReturnNext
<1>3. CASE ReturnIdle
  <2>1. actions # <<>> /\ Head(actions).type = "Return" /\ actions' = Tail(actions)
    BY <1>3 DEF ReturnIdle
  <2>2. tag \in Address /\ Head(actions).actor \in Nat /\ actions' \in Seq(Action)
    BY <2>1, HeadAction
  <2>3. DOMAIN actors' \subseteq Address /\ actors' \in [DOMAIN actors' -> Nat]
    <3>1. actors' = Insert(actors, tag, Head(actions).actor)
      BY <1>3 DEF ReturnIdle
    <3>2. DOMAIN actors \subseteq Address /\ actors \in [DOMAIN actors -> Nat]
      BY DEF TypeOK
    <3> QED BY <2>2, <3>1, <3>2, MapType
  <2>4. sched' \in Phase /\ shut' = shut /\ horizon' \in Nat
    BY <1>3, EndMatchType DEF ReturnIdle
  <2> QED BY <1>3, <2>2, <2>3, <2>4 DEF TypeOK, ReturnIdle
<1>4. CASE ReturnStopped
  <2>1. actions # <<>> /\ Head(actions).type = "Return" /\ actions' = Tail(actions)
    BY <1>4 DEF ReturnStopped
  <2>2. tag \in Address /\ Head(actions).actor \in Nat /\ actions' \in Seq(Action)
    BY <2>1, HeadAction
  <2>3. DOMAIN queue' \subseteq Address /\ queue' \in [DOMAIN queue' -> Seq(Envelope)]
    BY <1>4 DEF ReturnStopped, TypeOK, Without
  <2>4. StopEvent(tag, Head(actions).actor) \in Event
    BY <2>2 DEF StopEvent, Event
  <2>5. sched' \in Phase /\ shut' = shut /\ horizon' \in Nat /\ events' \in Seq(Event)
    <3>1. CASE Head(actions).ok
      BY <1>4, <2>4, <3>1, SendEventType DEF ReturnStopped
    <3>2. CASE ~Head(actions).ok
      BY <1>4, <3>2, EndMatchType DEF ReturnStopped, TypeOK
    <3> QED BY <3>1, <3>2
  <2> QED BY <1>4, <2>2, <2>3, <2>5 DEF TypeOK, ReturnStopped
<1>5. CASE QueueBusy
  <2>1. actions # <<>> /\ Head(actions).type = "Queue" /\ actions' = Tail(actions)
    BY <1>5 DEF QueueBusy
  <2>2. tag \in Address /\ Head(actions).envelope \in Envelope /\ actions' \in Seq(Action)
    BY <2>1, HeadAction
  <2>3. tag \in DOMAIN queue /\ queue[tag] \in Seq(Envelope)
    BY <1>5 DEF QueueBusy, MailboxIffActive, TypeOK
  <2>4. push_back(queue[tag], Head(actions).envelope) \in Seq(Envelope)
    BY <2>2, <2>3, PushBackType
  <2>5. queue' = [queue EXCEPT ![tag] = push_back(queue[tag], Head(actions).envelope)]
    BY <1>5 DEF QueueBusy
  <2>6. DOMAIN queue' \subseteq Address /\ queue' \in [DOMAIN queue' -> Seq(Envelope)]
    BY <2>4, <2>5 DEF TypeOK
  <2>7. sched' \in Phase /\ shut' = shut /\ horizon' \in Nat
    BY <1>5, EndMatchType DEF QueueBusy
  <2> QED BY <1>5, <2>2, <2>6, <2>7 DEF TypeOK, QueueBusy
<1>6. CASE QueueIdle
  <2> DEFINE mailbox == push_back(queue[tag], Head(actions).envelope)
  <2>1. actions # <<>> /\ Head(actions).type = "Queue" /\ actions' = Tail(actions)
    BY <1>6 DEF QueueIdle
  <2>2. tag \in Address /\ Head(actions).envelope \in Envelope /\ actions' \in Seq(Action)
    BY <2>1, HeadAction
  <2>3. tag \in DOMAIN queue /\ queue[tag] \in Seq(Envelope)
    BY <1>6 DEF QueueIdle, MailboxIffActive, TypeOK
  <2>4. Head(mailbox) \in Envelope /\ Tail(mailbox) \in Seq(Envelope)
    BY <2>2, <2>3, PushBackType
  <2>5. queue' = [queue EXCEPT ![tag] = Tail(mailbox)]
        /\ actors' = Without(actors, tag)
        /\ SendEvent(MailEvent(tag, actors[tag], Head(mailbox)))
    BY <1>6 DEF QueueIdle
  <2> HIDE DEF mailbox
  <2>6. DOMAIN queue' \subseteq Address /\ queue' \in [DOMAIN queue' -> Seq(Envelope)]
    BY <2>4, <2>5 DEF TypeOK
  <2>7. DOMAIN actors' \subseteq Address /\ actors' \in [DOMAIN actors' -> Nat]
    BY <2>5 DEF TypeOK, Without
  <2>8. actors[tag] \in Nat
    BY <1>6 DEF QueueIdle, TypeOK
  <2>9. MailEvent(tag, actors[tag], Head(mailbox)) \in Event
    BY <2>2, <2>4, <2>8, EventType
  <2>10. sched' \in Phase /\ shut' = shut /\ horizon' \in Nat /\ events' \in Seq(Event)
    BY <2>5, <2>9, SendEventType
  <2> QED BY <1>6, <2>2, <2>6, <2>7, <2>10 DEF TypeOK, QueueIdle
<1>7. CASE SpawnNew
  <2>1. actions # <<>> /\ Head(actions).type = "Spawn" /\ actions' = Tail(actions)
    BY <1>7 DEF SpawnNew
  <2>2. tag \in Address /\ Head(actions).actor \in Nat /\ actions' \in Seq(Action)
    BY <2>1, HeadAction
  <2>3. DOMAIN actors' \subseteq Address /\ actors' \in [DOMAIN actors' -> Nat]
    BY <1>7, <2>2, MapType DEF SpawnNew, TypeOK
  <2>4. <<>> \in Seq(Envelope)
    OBVIOUS
  <2>5. DOMAIN queue' \subseteq Address /\ queue' \in [DOMAIN queue' -> Seq(Envelope)]
    BY <1>7, <2>2, <2>4, MapType DEF SpawnNew, TypeOK
  <2>6. accepted' \subseteq Nat \X Address /\ active' \subseteq Address
    BY <1>7, <2>2 DEF SpawnNew, TypeOK
  <2>7. sched' \in Phase /\ shut' = shut /\ horizon' \in Nat
    BY <1>7, EndMatchType DEF SpawnNew
  <2> QED BY <1>7, <2>2, <2>3, <2>5, <2>6, <2>7 DEF TypeOK, SpawnNew
<1>8. CASE Delay
  <2>1. actions # <<>> /\ Head(actions).type = "Delay" /\ actions' = Tail(actions)
    BY <1>8 DEF Delay
  <2>2. Head(actions).entry \in Entry /\ actions' \in Seq(Action)
    BY <2>1, HeadAction
  <2>3. sched' \in Phase /\ shut' = shut /\ horizon' \in Nat
    BY <1>8, EndMatchType DEF Delay
  <2> QED BY <1>8, <2>2, <2>3 DEF TypeOK, Delay
<1>9. CASE StopActive
  <2>1. actions # <<>> /\ Head(actions).type = "Stop" /\ actions' = Tail(actions)
    BY <1>9 DEF StopActive
  <2>2. tag \in Address /\ actions' \in Seq(Action)
    BY <2>1, HeadAction
  <2>3. DOMAIN queue' \subseteq Address /\ queue' \in [DOMAIN queue' -> Seq(Envelope)]
        /\ active' \subseteq Address
    BY <1>9 DEF StopActive, Deactivate, TypeOK, Without
  <2>4. DOMAIN actors' \subseteq Address /\ actors' \in [DOMAIN actors' -> Nat]
    BY <1>9 DEF StopActive, TypeOK, Without
  <2>5. sched' \in Phase /\ shut' = shut /\ horizon' \in Nat /\ events' \in Seq(Event)
    <3>1. CASE tag \in DOMAIN actors
      <4>1. StopEvent(tag, actors[tag]) \in Event
        BY <2>2, <3>1 DEF StopEvent, Event, TypeOK
      <4> QED BY <1>9, <3>1, <4>1, SendEventType DEF StopActive
    <3>2. CASE tag \notin DOMAIN actors
      BY <1>9, <3>2, EndMatchType DEF StopActive, TypeOK
    <3> QED BY <3>1, <3>2
  <2> QED BY <1>9, <2>2, <2>3, <2>4, <2>5 DEF TypeOK, StopActive
<1>10. CASE Collect
  <2>1. PICK k \in Note : /\ Receive(k)
                          /\ notes' = [notes EXCEPT ![k] = @ + Head(actions).n]
                          /\ EndMatch
    BY <1>10 DEF Collect
  <2>2. Head(actions).n \in Nat /\ actions' \in Seq(Action)
    BY <2>1, HeadAction
  <2>3. notes' \in [Note -> Nat]
    BY <2>1, <2>2 DEF TypeOK
  <2>4. sched' \in Phase /\ shut' = shut /\ horizon' \in Nat
    BY <2>1, EndMatchType
  <2> QED BY <1>10, <2>2, <2>3, <2>4 DEF TypeOK, Collect
<1>11. CASE Drop
  <2>1. actions' \in Seq(Action)
    BY <1>11, HeadAction DEF Drop
  <2>2. sched' \in Phase /\ shut' = shut /\ horizon' \in Nat
    BY <1>11, EndMatchType DEF Drop
  <2> QED BY <1>11, <2>1, <2>2 DEF TypeOK, Drop
<1>12. CASE Miss
  BY <1>12, EndMatchType DEF TypeOK, Miss
<1>13. CASE Shutdown
  <2>1. actions' \in Seq(Action)
    BY <1>13, HeadAction DEF Shutdown
  <2> QED BY <1>13, <2>1, LeaveLoopType DEF TypeOK, Shutdown
<1> QED BY <1>1, <1>2, <1>3, <1>4, <1>5, <1>6, <1>7, <1>8, <1>9, <1>10, <1>11, <1>12, <1>13

\* The rest of the iteration and what follows the loop.
LEMMA TypeAfterMatch ==
  ASSUME TypeOK,
         \/ FireTask \/ NextIteration \/ EagerExit
         \/ SendShutdown \/ AllNotified \/ DrainAction \/ Done
  PROVE  TypeOK'
<1> USE DEF loop, registry, budget, history
<1>1. CASE FireTask
  <2>1. PICK e \in tasks :
          /\ tasks' = tasks \ {e}
          /\ Push([type |-> "Queue", tag |-> e.tag, envelope |-> e.envelope])
    BY <1>1 DEF FireTask
  <2>2. [type |-> "Queue", tag |-> e.tag, envelope |-> e.envelope] \in Action
    BY DEF TypeOK, Entry, Action
  <2>3. actions' \in Seq(Action)
    BY <2>1, <2>2, AppendType DEF TypeOK, Push
  <2> QED BY <1>1, <2>1, <2>3 DEF TypeOK, FireTask
<1>2. CASE NextIteration
  <2>1. reported' \in [Note -> Nat] /\ notes' \in [Note -> Nat]
    <3>1. notes \in [Note -> Nat] /\ reported \in [Note -> Nat]
      BY DEF TypeOK
    <3>2. CASE Report
      <4>1. \A k \in Note : report(k) \in Nat
        BY <3>1 DEF report
      <4> QED BY <3>1, <3>2, <4>1 DEF Report
    <3>3. CASE UNCHANGED <<reported, notes>>
      BY <3>1, <3>3
    <3> QED BY <1>2, <3>2, <3>3 DEF NextIteration
  <2> QED BY <1>2, <2>1 DEF TypeOK, NextIteration, Phase
<1>3. CASE EagerExit
  BY <1>3, LeaveLoopType DEF TypeOK, EagerExit
<1>4. CASE SendShutdown
  <2>1. [type |-> "Shutdown"] \in Event
    BY DEF Event
  <2>2. events' \in Seq(Event)
    BY <1>4, <2>1, AppendType DEF TypeOK, SendShutdown
  <2>3. shut' \in 0..Cardinality(Worker)
    BY <1>4, WorkerCount DEF TypeOK, SendShutdown
  <2>4. sched' \in Phase
    BY <1>4 DEF TypeOK, SendShutdown, Phase
  <2> QED BY <1>4, <2>2, <2>3, <2>4 DEF TypeOK, SendShutdown
<1>5. CASE AllNotified
  BY <1>5 DEF TypeOK, AllNotified, Phase
<1>6. CASE DrainAction
  <2>1. actions' \in Seq(Action)
    BY <1>6, HeadAction DEF DrainAction
  <2> QED BY <1>6, <2>1 DEF TypeOK, DrainAction
<1>7. CASE Done
  BY <1>7 DEF TypeOK, Done, Phase
<1> QED BY <1>1, <1>2, <1>3, <1>4, <1>5, <1>6, <1>7

-----------------------------------------------------------------------------
(* The registry: active, actors and queue agree.                           *)

\* TypeOK and MailboxIffActive are only inductive together: the type of a
\* mailbox after push_back needs the mailbox to exist.  WaitingIsDrained needs
\* both.
RegistryInv == TypeOK /\ MailboxIffActive /\ WaitingIsDrained

\* At the start there are no addresses.
LEMMA RegistryInit == Init => RegistryInv
<1> SUFFICES ASSUME Init PROVE RegistryInv OBVIOUS
<1>1. DOMAIN queue = {} /\ active = {}
  BY DEF Init
<1> QED BY <1>1, TypeInit DEF RegistryInv, MailboxIffActive, WaitingIsDrained

\* Only the arms of the match change the registry, and leaving the loop.
LEMMA RegistryUnchanged ==
  ASSUME RegistryInv, UNCHANGED registry
  PROVE  MailboxIffActive' /\ WaitingIsDrained'
BY DEF RegistryInv, registry, MailboxIffActive, WaitingIsDrained

\* Leaving the loop empties the registry.
LEMMA RegistryLeave ==
  ASSUME LeaveLoop
  PROVE  MailboxIffActive' /\ WaitingIsDrained'
BY LeaveLoopType DEF LeaveLoop, MailboxIffActive, WaitingIsDrained

\* The arms of event_loop's match.
LEMMA RegistryMatch ==
  ASSUME RegistryInv,
         \/ ReturnFailed \/ ReturnNext \/ ReturnIdle \/ ReturnStopped
         \/ QueueBusy \/ QueueIdle \/ SpawnNew \/ Delay \/ StopActive
         \/ Collect \/ Drop \/ Miss \/ Shutdown
  PROVE  MailboxIffActive' /\ WaitingIsDrained'
<1> USE DEF RegistryInv, MailboxIffActive, WaitingIsDrained
<1> DEFINE tag == Head(actions).tag
<1>0. /\ DOMAIN queue = active
      /\ \A t \in DOMAIN queue : queue[t] \in Seq(Envelope)
      /\ \A t \in active \cap DOMAIN actors : queue[t] = <<>>
  BY DEF TypeOK
<1>1. CASE ReturnFailed
  BY <1>0, <1>1 DEF ReturnFailed, Deactivate, Without
<1>2. CASE ReturnNext
  <2>1. tag \in active /\ queue[tag] # <<>> /\ queue' = [queue EXCEPT ![tag] = Tail(@)]
        /\ active' = active /\ actors' = actors
    BY <1>2 DEF ReturnNext
  <2> QED BY <1>0, <2>1
<1>3. CASE ReturnIdle
  <2>1. tag \in active /\ queue[tag] = <<>> /\ active' = active /\ queue' = queue
        /\ actors' = Insert(actors, tag, Head(actions).actor)
    BY <1>3 DEF ReturnIdle
  <2> QED BY <1>0, <2>1 DEF Insert
<1>4. CASE ReturnStopped
  <2>1. tag \notin active /\ queue' = Without(queue, tag)
        /\ active' = active /\ actors' = actors
    BY <1>4 DEF ReturnStopped
  <2> QED BY <1>0, <2>1 DEF Without
<1>5. CASE QueueBusy
  <2>1. tag \in active /\ tag \notin DOMAIN actors /\ active' = active /\ actors' = actors
        /\ queue' = [queue EXCEPT ![tag] = push_back(@, Head(actions).envelope)]
    BY <1>5 DEF QueueBusy
  <2> QED BY <1>0, <2>1
<1>6. CASE QueueIdle
  <2>1. tag \in active /\ active' = active /\ actors' = Without(actors, tag)
        /\ queue' = [queue EXCEPT ![tag] = Tail(push_back(queue[tag], Head(actions).envelope))]
    BY <1>6 DEF QueueIdle
  <2> QED BY <1>0, <2>1 DEF Without
<1>7. CASE SpawnNew
  <2>1. tag \notin active /\ active' = active \cup {tag} /\ queue' = Insert(queue, tag, <<>>)
        /\ actors' = Insert(actors, tag, Head(actions).actor)
    BY <1>7 DEF SpawnNew
  <2> QED BY <1>0, <2>1 DEF Insert
<1>8. CASE Delay
  BY <1>8, RegistryUnchanged DEF Delay
<1>9. CASE StopActive
  <2>1. active' = active \ {tag} /\ queue' = Without(queue, tag)
        /\ actors' = Without(actors, tag)
    BY <1>9 DEF StopActive, Deactivate
  <2> QED BY <1>0, <2>1 DEF Without
<1>10. CASE Collect
  BY <1>10, RegistryUnchanged DEF Collect
<1>11. CASE Drop
  BY <1>11, RegistryUnchanged DEF Drop
<1>12. CASE Miss
  BY <1>12, RegistryUnchanged DEF Miss
<1>13. CASE Shutdown
  BY <1>13, RegistryLeave DEF Shutdown
<1> QED BY <1>1, <1>2, <1>3, <1>4, <1>5, <1>6, <1>7, <1>8, <1>9, <1>10, <1>11, <1>12, <1>13

\* Every step keeps RegistryInv.
LEMMA RegistryStep == RegistryInv /\ [Next]_vars => RegistryInv'
<1> SUFFICES ASSUME RegistryInv, [Next]_vars PROVE RegistryInv' OBVIOUS
<1>1. CASE RunCall \/ RunShutdown \/ RunDrop \/ Tick
  <2>1. UNCHANGED registry
    BY <1>1 DEF RunCall, RunShutdown, RunDrop, Tick
  <2> QED BY <1>1, <2>1, TypeRun, RegistryUnchanged DEF RegistryInv
<1>2. CASE \/ ReturnFailed \/ ReturnNext \/ ReturnIdle \/ ReturnStopped
           \/ QueueBusy \/ QueueIdle \/ SpawnNew \/ Delay \/ StopActive
           \/ Collect \/ Drop \/ Miss \/ Shutdown
  BY <1>2, TypeMatch, RegistryMatch DEF RegistryInv
<1>3. CASE \/ FireTask \/ NextIteration \/ EagerExit
           \/ SendShutdown \/ AllNotified \/ DrainAction \/ Done
  <2>1. CASE EagerExit
    BY <1>3, <2>1, TypeAfterMatch, RegistryLeave DEF RegistryInv, EagerExit
  <2>2. CASE ~EagerExit
    <3>1. UNCHANGED registry
      BY <1>3, <2>2 DEF FireTask, NextIteration, SendShutdown, AllNotified, DrainAction, Done
    <3> QED BY <1>3, <3>1, TypeAfterMatch, RegistryUnchanged DEF RegistryInv
  <2> QED BY <2>1, <2>2
<1>4. ASSUME NEW w \in Worker, WorkerNext(w) PROVE RegistryInv'
  <2>1. UNCHANGED registry
    BY <1>4 DEF WorkerNext, TakeMail, TakeStop, TakeShutdown, HandlerCall, HandlerNote,
                ReceivePanic, SendReturn, StopReturn, HookPanic, Drain, Drained
  <2> QED BY <1>4, <2>1, TypeWorker, RegistryUnchanged DEF RegistryInv
<1>5. CASE Finished \/ UNCHANGED vars
  <2>1. UNCHANGED vars
    BY <1>5 DEF Finished
  <2>2. UNCHANGED registry
    BY <2>1 DEF vars
  <2>3. TypeOK'
    BY <2>1 DEF RegistryInv, TypeOK, vars, loop, registry, budget, history
  <2> QED BY <2>2, <2>3, RegistryUnchanged DEF RegistryInv
<1> QED BY <1>1, <1>2, <1>3, <1>4, <1>5 DEF Next, SchedulerNext

\* The inductive invariant holds in every reachable state.
THEOREM RegistrySafe == Spec => []RegistryInv
BY RegistryInit, RegistryStep, PTL DEF Spec

\* Every variable keeps its type, in particular no more Shutdown events are
\* sent than there are workers.
THEOREM TypeCorrect == Spec => []TypeOK
<1>1. RegistryInv => TypeOK BY DEF RegistryInv
<1> QED BY <1>1, RegistrySafe, PTL

\* None of the unwrap()s of queue.get_mut(&tag) in event_loop can panic, and no
\* mailbox outlives its address: for any number of addresses, workers, actors
\* and envelopes.
THEOREM MailboxesMatch == Spec => []MailboxIffActive
<1>1. RegistryInv => MailboxIffActive BY DEF RegistryInv
<1> QED BY <1>1, RegistrySafe, PTL

\* No wakeup is lost: an actor set aside by event_loop has nothing to receive.
THEOREM NoLostWakeup == Spec => []WaitingIsDrained
<1>1. RegistryInv => WaitingIsDrained BY DEF RegistryInv
<1> QED BY <1>1, RegistrySafe, PTL

-----------------------------------------------------------------------------
(* The end of the scheduler thread.                                        *)

\* A worker that has left or died does not come back.
LEMMA LiveBefore ==
  ASSUME TypeOK, NEW w \in Worker, WorkerNext(w), NEW v \in Worker, Live(v)'
  PROVE  Live(v)
<1> USE DEF TypeOK, Live
<1>1. CASE v # w
  <2>1. worker'[v] = worker[v]
    BY <1>1 DEF WorkerNext, TakeMail, TakeStop, TakeShutdown, HandlerCall, HandlerNote,
                ReceivePanic, SendReturn, StopReturn, HookPanic, Drain, Drained, Enter
  <2> QED BY <2>1
<1>2. CASE v = w
  <2>1. worker[w].pc \in {"idle", "receive", "on_fail", "on_stop", "drain"}
    BY DEF WorkerNext, TakeMail, TakeStop, TakeShutdown, Take, HandlerCall, HandlerNote,
           InHandler, ReceivePanic, SendReturn, StopReturn, HookPanic, Drain, Drained
  <2> QED BY <1>2, <2>1
<1> QED BY <1>1, <1>2

\* The scheduler is done or panics only when no worker is left, and a worker
\* that left does not come back.
LEMMA DrainedStep == TypeOK /\ WorkersCanSend /\ [Next]_vars => WorkersCanSend'
<1> SUFFICES ASSUME TypeOK, WorkersCanSend, [Next]_vars,
                    NEW v \in Worker, Live(v)'
             PROVE  sched' \notin {"done", "panicked"}
  BY DEF WorkersCanSend
<1> USE DEF loop, registry, budget, history
<1>1. CASE Next /\ ~SchedulerNext /\ (\E w \in Worker : WorkerNext(w))
  <2>1. PICK w \in Worker : WorkerNext(w)
    BY <1>1
  <2>2. Live(v)
    BY <2>1, LiveBefore
  <2>3. sched' = sched
    BY <2>1 DEF WorkerNext, TakeMail, TakeStop, TakeShutdown, HandlerCall, HandlerNote,
                ReceivePanic, SendReturn, StopReturn, HookPanic, Drain, Drained
  <2> QED BY <2>2, <2>3 DEF WorkersCanSend
<1>2. CASE SchedulerNext
  <2>1. Live(v)
    <3>1. worker' = worker
      BY <1>2 DEF SchedulerNext, ReturnFailed, ReturnNext, ReturnIdle, ReturnStopped,
           QueueBusy, QueueIdle, SpawnNew, Delay, StopActive, Collect, Drop, Miss, Shutdown,
           FireTask, NextIteration, EagerExit, SendShutdown, AllNotified, DrainAction, Done
    <3> QED BY <3>1 DEF Live
  <2>2. EventsOpen
    BY <2>1 DEF EventsOpen
  <2>3. ~Disconnected
    BY <2>1 DEF Disconnected
  <2>4. sched \notin {"done", "panicked"}
    BY <2>1 DEF WorkersCanSend
  <2> QED BY <1>2, <2>2, <2>3, <2>4
        DEF SchedulerNext, SendEvent, EndMatch, LeaveLoop, ReturnFailed, ReturnNext,
            ReturnIdle, ReturnStopped, QueueBusy, QueueIdle, SpawnNew, Delay, StopActive,
            Collect, Drop, Miss, Shutdown, FireTask, NextIteration, EagerExit,
            SendShutdown, AllNotified, DrainAction, Done
<1>3. CASE RunCall \/ RunShutdown \/ RunDrop \/ Tick \/ Finished \/ UNCHANGED vars
  <2>1. worker' = worker /\ sched' = sched
    BY <1>3 DEF RunCall, RunShutdown, RunDrop, Tick, Finished, vars
  <2> QED BY <2>1 DEF WorkersCanSend, Live
<1> QED BY <1>1, <1>2, <1>3 DEF Next

\* The receiver of the actions outlives every worker, so that no send of a
\* Local and no Return can fail, however many workers there are and whatever
\* their handlers do while the system shuts down.
THEOREM DrainCoversWorkers == Spec => []WorkersCanSend
<1>1. Init => WorkersCanSend
  BY DEF Init, WorkersCanSend
<1> QED BY <1>1, TypeCorrect, DrainedStep, PTL DEF Spec

-----------------------------------------------------------------------------
(* Who holds an actor: the scheduler, an event, a worker or a Return, for  *)
(* any set of addresses, any finite set of workers and any bounds.         *)

-----------------------------------------------------------------------------
(* Where the actors of a tag are.                                          *)

\* A channel holds an item of this type for the tag,
Some(seq, type, tag) == \E i \in DOMAIN seq : seq[i].type = type /\ seq[i].tag = tag

\* with this actor,
Has(seq, type, tag, actor) ==
  \E i \in DOMAIN seq : seq[i].type = type /\ seq[i].tag = tag /\ seq[i].actor = actor

\* and no two of them.
Single(seq, type, tag) ==
  \A i, j \in DOMAIN seq :
    /\ seq[i].type = type /\ seq[i].tag = tag
    /\ seq[j].type = type /\ seq[j].tag = tag
    => i = j

\* The worker holds an actor it will return.
Carrying(w) == worker[w].pc \in {"receive", "on_fail"}
Working(w, tag) == Carrying(w) /\ worker[w].tag = tag
Carries(w, tag, actor) == Working(w, tag) /\ worker[w].actor = actor

Mailed(tag) == Some(events, "Mail", tag)
Returned(tag) == Some(actions, "Return", tag)
Worked(tag) == \E w \in Worker : Working(w, tag)
Waiting(tag) == tag \in DOMAIN actors

-----------------------------------------------------------------------------
(* The invariants.                                                         *)

\* Without a stop, an address has at most one actor in one place, and only
\* while it is active.
OnePlace(tag) ==
  /\ Single(events, "Mail", tag) /\ Single(actions, "Return", tag)
  /\ \A v, w \in Worker : Working(v, tag) /\ Working(w, tag) => v = w
  /\ Mailed(tag) => ~Returned(tag) /\ ~Worked(tag) /\ ~Waiting(tag)
  /\ Returned(tag) => ~Worked(tag) /\ ~Waiting(tag)
  /\ Worked(tag) => ~Waiting(tag)
  /\ Mailed(tag) \/ Returned(tag) \/ Worked(tag) \/ Waiting(tag) => tag \in active

\* Nobody asked for a stop.
NoStopAsked == stops = 0 => \A i \in DOMAIN actions : actions[i].type # "Stop"

\* An active address has an actor somewhere, unless on_fail panicked.
Present(tag) ==
  \/ Mailed(tag) \/ Returned(tag) \/ Worked(tag) \/ Waiting(tag)
  \/ \E w \in Worker : worker[w].pc = "dead" /\ worker[w].tag = tag

\* The actor is out under the tag, or waits.
Held(tag, actor) ==
  \/ Has(events, "Mail", tag, actor)
  \/ Has(actions, "Return", tag, actor)
  \/ \E w \in Worker : Carries(w, tag, actor)
  \/ tag \in DOMAIN actors /\ actors[tag] = actor

\* What became of an actor accepted under the tag.
ActorKept(tag, actor) ==
  \/ actor \in hooked
  \/ Held(tag, actor)
  \/ Has(events, "Stop", tag, actor)
  \/ \E other \in Nat : <<other, tag>> \in accepted /\ other # actor

\* The invariant for one address: only accepted actors are held, and they are
\* kept.
Sound(tag) ==
  /\ stops = 0 => OnePlace(tag)
  /\ tag \in active => Present(tag)
  /\ \A actor \in Nat : Held(tag, actor) => <<actor, tag>> \in accepted
  /\ \A actor \in Nat : <<actor, tag>> \in accepted => ActorKept(tag, actor)

\* An actor that is failing, or whose Return says so, had its on_fail.
FailingHooked == \A w \in Worker : worker[w].pc = "on_fail" => worker[w].actor \in hooked
FailedHooked ==
  \A i \in DOMAIN actions :
    actions[i].type = "Return" /\ ~actions[i].ok => actions[i].actor \in hooked

OwnerInv ==
  LoopRuns => /\ NoStopAsked /\ FailingHooked /\ FailedHooked
              /\ \A tag \in Address : Sound(tag)

-----------------------------------------------------------------------------
(* What the channels hold after a send or a receive.                       *)

\* One more item.
LEMMA ItemAppend ==
  ASSUME NEW T, NEW seq \in Seq(T), NEW item, NEW type, NEW tag, NEW actor
  PROVE  LET more == Append(seq, item)
             fits == item.type = type /\ item.tag = tag
         IN  /\ Some(more, type, tag) <=> Some(seq, type, tag) \/ fits
             /\ Has(more, type, tag, actor) <=>
                  Has(seq, type, tag, actor) \/ (fits /\ item.actor = actor)
             /\ Single(seq, type, tag) /\ ~(fits /\ Some(seq, type, tag)) => Single(more, type, tag)
<1> DEFINE more == Append(seq, item)
           last == Len(seq) + 1
<1>1. /\ \A i : i \in DOMAIN more <=> i \in DOMAIN seq \/ i = last
      /\ \A i \in DOMAIN seq : more[i] = seq[i]
      /\ more[last] = item /\ last \in DOMAIN more
  OBVIOUS
<1> HIDE DEF more, last
<1>2. Some(more, type, tag) <=> Some(seq, type, tag) \/ (item.type = type /\ item.tag = tag)
  BY <1>1 DEF Some
<1>3. Has(more, type, tag, actor) <=>
        Has(seq, type, tag, actor) \/ (item.type = type /\ item.tag = tag /\ item.actor = actor)
  BY <1>1 DEF Has
<1>4. Single(seq, type, tag) /\ ~(item.type = type /\ item.tag = tag /\ Some(seq, type, tag))
      => Single(more, type, tag)
  BY <1>1 DEF Single, Some
<1> QED BY <1>2, <1>3, <1>4 DEF more

\* One item less.
LEMMA ItemTail ==
  ASSUME NEW T, NEW seq \in Seq(T), seq # <<>>, NEW type, NEW tag, NEW actor
  PROVE  LET less == Tail(seq)
             fits == Head(seq).type = type /\ Head(seq).tag = tag
         IN  /\ Some(seq, type, tag) <=> Some(less, type, tag) \/ fits
             /\ Has(seq, type, tag, actor) <=>
                  Has(less, type, tag, actor) \/ (fits /\ Head(seq).actor = actor)
             /\ Single(seq, type, tag) => Single(less, type, tag)
             /\ Single(seq, type, tag) /\ fits => ~Some(less, type, tag)
<1> DEFINE less == Tail(seq)
<1>1. /\ \A i \in DOMAIN less : i \in Nat /\ i > 0 /\ i + 1 \in DOMAIN seq /\ less[i] = seq[i + 1]
      /\ \A i \in DOMAIN seq : i \in Nat /\ (i = 1 \/ (i - 1 \in DOMAIN less /\ less[i - 1] = seq[i]))
      /\ 1 \in DOMAIN seq /\ Head(seq) = seq[1]
  <2>1. \A i \in DOMAIN seq : i \in Nat /\ (i = 1 \/ (i - 1 \in DOMAIN less /\ less[i - 1] = seq[i]))
    OBVIOUS
  <2>2. \A i \in DOMAIN less : i \in Nat /\ i > 0 /\ i + 1 \in DOMAIN seq /\ less[i] = seq[i + 1]
    OBVIOUS
  <2>3. 1 \in DOMAIN seq /\ Head(seq) = seq[1]
    OBVIOUS
  <2> QED BY <2>1, <2>2, <2>3
<1> HIDE DEF less
<1>2. Some(seq, type, tag) <=> Some(less, type, tag) \/ (Head(seq).type = type /\ Head(seq).tag = tag)
  BY <1>1 DEF Some
<1>3. Has(seq, type, tag, actor) <=>
        \/ Has(less, type, tag, actor)
        \/ Head(seq).type = type /\ Head(seq).tag = tag /\ Head(seq).actor = actor
  <2>1. ASSUME Has(less, type, tag, actor) PROVE Has(seq, type, tag, actor)
    <3>1. PICK i \in DOMAIN less : less[i].type = type /\ less[i].tag = tag /\ less[i].actor = actor
      BY <2>1 DEF Has
    <3>2. i + 1 \in DOMAIN seq /\ seq[i + 1] = less[i]
      BY <1>1
    <3> QED BY <3>1, <3>2 DEF Has
  <2>2. ASSUME Has(seq, type, tag, actor)
        PROVE  \/ Has(less, type, tag, actor)
               \/ Head(seq).type = type /\ Head(seq).tag = tag /\ Head(seq).actor = actor
    <3>1. PICK i \in DOMAIN seq : seq[i].type = type /\ seq[i].tag = tag /\ seq[i].actor = actor
      BY <2>2 DEF Has
    <3>2. i = 1 \/ (i - 1 \in DOMAIN less /\ less[i - 1] = seq[i])
      BY <1>1
    <3> QED BY <1>1, <3>1, <3>2 DEF Has
  <2>3. Head(seq).type = type /\ Head(seq).tag = tag /\ Head(seq).actor = actor
        => Has(seq, type, tag, actor)
    BY <1>1 DEF Has
  <2> QED BY <2>1, <2>2, <2>3
<1>4. Single(seq, type, tag) => Single(less, type, tag)
  BY <1>1 DEF Single
<1>5. Single(seq, type, tag) /\ Head(seq).type = type /\ Head(seq).tag = tag => ~Some(less, type, tag)
  BY <1>1 DEF Single, Some
<1> QED BY <1>2, <1>3, <1>4, <1>5 DEF less

\* The places of this module are those of Carriers.
LEMMA CarriersAre ==
  ASSUME NEW tag, NEW actor
  PROVE  actor \in Carriers(tag) <=>
           \/ Has(events, "Mail", tag, actor)
           \/ Has(actions, "Return", tag, actor)
           \/ \E w \in Worker : Carries(w, tag, actor)
           \/ tag \in DOMAIN actors /\ actors[tag] = actor
<1>1. actor \in {events[i].actor : i \in {j \in DOMAIN events :
                     events[j].type = "Mail" /\ events[j].tag = tag}}
      <=> Has(events, "Mail", tag, actor)
  BY DEF Has
<1>2. actor \in {actions[i].actor : i \in {j \in DOMAIN actions :
                     actions[j].type = "Return" /\ actions[j].tag = tag}}
      <=> Has(actions, "Return", tag, actor)
  BY DEF Has
<1>3. actor \in {worker[w].actor : w \in {v \in Worker :
                     worker[v].pc \in {"receive", "on_fail"} /\ worker[v].tag = tag}}
      <=> \E w \in Worker : Carries(w, tag, actor)
  BY DEF Carries, Working, Carrying
<1>4. actor \in (IF tag \in DOMAIN actors THEN {actors[tag]} ELSE {})
      <=> tag \in DOMAIN actors /\ actors[tag] = actor
  OBVIOUS
<1> QED BY <1>1, <1>2, <1>3, <1>4 DEF Carriers, Carried

\* An address has a carrier when one of the places holds an actor of it.
LEMMA CarriersSome ==
  ASSUME NEW tag
  PROVE  Carriers(tag) # {} <=> Mailed(tag) \/ Returned(tag) \/ Worked(tag) \/ Waiting(tag)
<1>1. (\E actor : Has(events, "Mail", tag, actor)) <=> Mailed(tag)
  BY DEF Has, Mailed, Some
<1>2. (\E actor : Has(actions, "Return", tag, actor)) <=> Returned(tag)
  BY DEF Has, Returned, Some
<1>3. (\E actor : \E w \in Worker : Carries(w, tag, actor)) <=> Worked(tag)
  BY DEF Carries, Worked
<1>4. (\E actor : tag \in DOMAIN actors /\ actors[tag] = actor) <=> Waiting(tag)
  BY DEF Waiting
<1> QED BY <1>1, <1>2, <1>3, <1>4, CarriersAre

-----------------------------------------------------------------------------
(* Steps that move no actor.                                               *)

\* At most something else is taken from a channel, or sent; no worker gets or
\* gives up an actor; hooks are entered, never forgotten.
Still ==
  /\ \/ events' = events
     \/ /\ events # <<>> /\ Head(events).type # "Mail" /\ events' = Tail(events)
        /\ Head(events).type = "Stop" => Head(events).actor \in hooked'
  /\ \/ actions' = actions
     \/ \E item : /\ item.type # "Return" /\ (stops' = 0 => item.type # "Stop")
                  /\ actions' = Append(actions, item)
     \/ actions # <<>> /\ Head(actions).type # "Return" /\ actions' = Tail(actions)
  /\ \A w \in Worker :
       /\ Carrying(w)' <=> Carrying(w)
       /\ Carrying(w) => worker'[w].tag = worker[w].tag /\ worker'[w].actor = worker[w].actor
       /\ worker[w].pc = "dead" => worker'[w].pc = "dead" /\ worker'[w].tag = worker[w].tag
       /\ worker'[w].pc = "on_fail" => worker[w].pc = "on_fail" \/ worker'[w].actor \in hooked'
  /\ UNCHANGED <<active, actors, accepted>> /\ hooked \subseteq hooked'
  /\ stops' = 0 => stops = 0

\* A step that moves no actor of this tag, seen from each place.
MailSame(tag) ==
  /\ Mailed(tag)' <=> Mailed(tag)
  /\ Single(events, "Mail", tag) => Single(events', "Mail", tag)
  /\ \A actor \in Nat :
       /\ Has(events', "Mail", tag, actor) <=> Has(events, "Mail", tag, actor)
       /\ Has(events, "Stop", tag, actor) => Has(events', "Stop", tag, actor) \/ actor \in hooked'
ReturnSame(tag) ==
  /\ Returned(tag)' <=> Returned(tag)
  /\ Single(actions, "Return", tag) => Single(actions', "Return", tag)
  /\ \A actor \in Nat : Has(actions', "Return", tag, actor) <=> Has(actions, "Return", tag, actor)
WorkSame(tag) ==
  \A w \in Worker :
    /\ Working(w, tag)' <=> Working(w, tag)
    /\ \A actor \in Nat : Carries(w, tag, actor)' <=> Carries(w, tag, actor)
    /\ worker[w].pc = "dead" /\ worker[w].tag = tag => worker'[w].pc = "dead" /\ worker'[w].tag = tag
RegistrySame(tag) ==
  /\ tag \in DOMAIN actors' <=> tag \in DOMAIN actors
  /\ tag \in DOMAIN actors => actors'[tag] = actors[tag]
  /\ tag \in active' <=> tag \in active
  /\ \A actor \in Nat : <<actor, tag>> \in accepted' <=> <<actor, tag>> \in accepted

SameAt(tag) == MailSame(tag) /\ ReturnSame(tag) /\ WorkSame(tag) /\ RegistrySame(tag)

\* What no step takes back.
Forward == hooked \subseteq hooked' /\ (stops' = 0 => stops = 0)

\* It keeps the invariant for the tag.
LEMMA SameSound ==
  ASSUME NEW tag, Sound(tag), SameAt(tag), Forward
  PROVE  Sound(tag)'
<1>1. stops' = 0 => OnePlace(tag)'
  <2> SUFFICES ASSUME OnePlace(tag) PROVE OnePlace(tag)'
    BY DEF Sound, Forward
  <2>1. Worked(tag)' <=> Worked(tag)
    BY DEF SameAt, WorkSame, Worked
  <2> QED BY <2>1 DEF SameAt, MailSame, ReturnSame, WorkSame, RegistrySame, OnePlace, Waiting
<1>2. tag \in active' => Present(tag)'
  <2>1. Worked(tag)' <=> Worked(tag)
    BY DEF SameAt, WorkSame, Worked
  <2> QED BY <2>1 DEF Sound, SameAt, MailSame, ReturnSame, WorkSame, RegistrySame, Present, Waiting
<1>3. \A actor \in Nat : Held(tag, actor)' <=> Held(tag, actor)
  BY DEF SameAt, MailSame, ReturnSame, WorkSame, RegistrySame, Held
<1>4. \A actor \in Nat : ActorKept(tag, actor) => ActorKept(tag, actor)'
  BY <1>3 DEF SameAt, MailSame, RegistrySame, Forward, ActorKept
<1> QED BY <1>1, <1>2, <1>3, <1>4 DEF Sound, SameAt, RegistrySame

\* They leave every actor where it is.
LEMMA StillSame ==
  ASSUME TypeOK, Still, NEW tag
  PROVE  SameAt(tag)
<1> SUFFICES ASSUME NEW actor \in Nat
             PROVE  /\ Mailed(tag)' <=> Mailed(tag)
                    /\ Returned(tag)' <=> Returned(tag)
                    /\ Single(events, "Mail", tag) => Single(events', "Mail", tag)
                    /\ Single(actions, "Return", tag) => Single(actions', "Return", tag)
                    /\ \A w \in Worker : Working(w, tag)' <=> Working(w, tag)
                    /\ Has(events', "Mail", tag, actor) <=> Has(events, "Mail", tag, actor)
                    /\ Has(actions', "Return", tag, actor) <=> Has(actions, "Return", tag, actor)
                    /\ \A w \in Worker : Carries(w, tag, actor)' <=> Carries(w, tag, actor)
                    /\ Has(events, "Stop", tag, actor) =>
                         Has(events', "Stop", tag, actor) \/ actor \in hooked'
  BY DEF SameAt, MailSame, ReturnSame, WorkSame, RegistrySame, Still
<1>1. events \in Seq(Event) /\ actions \in Seq(Action)
  BY DEF TypeOK
<1>2. /\ Some(events', "Mail", tag) <=> Some(events, "Mail", tag)
      /\ Single(events, "Mail", tag) => Single(events', "Mail", tag)
      /\ Has(events', "Mail", tag, actor) <=> Has(events, "Mail", tag, actor)
      /\ Has(events, "Stop", tag, actor) => Has(events', "Stop", tag, actor) \/ actor \in hooked'
  <2>1. CASE events' = events
    BY <2>1
  <2>2. CASE /\ events # <<>> /\ Head(events).type # "Mail" /\ events' = Tail(events)
             /\ Head(events).type = "Stop" => Head(events).actor \in hooked'
    BY <1>1, <2>2, ItemTail
  <2> QED BY <2>1, <2>2 DEF Still
<1>3. /\ Some(actions', "Return", tag) <=> Some(actions, "Return", tag)
      /\ Single(actions, "Return", tag) => Single(actions', "Return", tag)
      /\ Has(actions', "Return", tag, actor) <=> Has(actions, "Return", tag, actor)
  <2>1. CASE actions' = actions
    BY <2>1
  <2>2. ASSUME NEW item, item.type # "Return", actions' = Append(actions, item)
        PROVE  <1>3!1 /\ <1>3!2 /\ <1>3!3
    BY <1>1, <2>2, ItemAppend
  <2>3. CASE actions # <<>> /\ Head(actions).type # "Return" /\ actions' = Tail(actions)
    BY <1>1, <2>3, ItemTail
  <2> QED BY <2>1, <2>2, <2>3 DEF Still
<1>4. \A w \in Worker : /\ Working(w, tag)' <=> Working(w, tag)
                        /\ Carries(w, tag, actor)' <=> Carries(w, tag, actor)
  BY DEF Still, Carries, Working, Carrying
<1> QED BY <1>2, <1>3, <1>4 DEF Mailed, Returned

\* A Stop action or a failed Return was in the channel before, or is new.
LEMMA ChannelAfter ==
  ASSUME TypeOK, NoStopAsked, FailedHooked, Forward,
         \/ actions' = actions
         \/ \E item : /\ actions' = Append(actions, item)
                      /\ stops' = 0 => item.type # "Stop"
                      /\ item.type = "Return" /\ ~item.ok => item.actor \in hooked'
         \/ actions # <<>> /\ actions' = Tail(actions)
  PROVE  NoStopAsked' /\ FailedHooked'
<1>1. actions \in Seq(Action)
  BY DEF TypeOK
<1>2. CASE actions' = actions
  BY <1>2 DEF NoStopAsked, FailedHooked, Forward
<1>3. ASSUME NEW item, actions' = Append(actions, item), stops' = 0 => item.type # "Stop",
             item.type = "Return" /\ ~item.ok => item.actor \in hooked'
      PROVE  NoStopAsked' /\ FailedHooked'
  <2>1. \A i \in DOMAIN actions' :
          (i \in DOMAIN actions /\ actions'[i] = actions[i]) \/ actions'[i] = item
    BY <1>1, <1>3
  <2> QED BY <1>3, <2>1 DEF NoStopAsked, FailedHooked, Forward
<1>4. CASE actions # <<>> /\ actions' = Tail(actions)
  <2>1. \A i \in DOMAIN actions' : i + 1 \in DOMAIN actions /\ actions'[i] = actions[i + 1]
    BY <1>1, <1>4
  <2>2. \A i \in DOMAIN actions' : \E j \in DOMAIN actions : actions'[i] = actions[j]
    BY <2>1
  <2> QED BY <2>2 DEF NoStopAsked, FailedHooked, Forward
<1> QED BY <1>2, <1>3, <1>4

\* A step that moves no actor keeps the invariant.
LEMMA StillOwner ==
  ASSUME TypeOK, OwnerInv, LoopRuns, Still
  PROVE  OwnerInv'
<1>1. Forward
  BY DEF Still, Forward
<1>2. \A tag \in Address : Sound(tag)'
  BY <1>1, StillSame, SameSound DEF OwnerInv
<1>3. FailingHooked'
  BY DEF Still, OwnerInv, FailingHooked, Carrying
<1>4. NoStopAsked' /\ FailedHooked'
  BY <1>1, ChannelAfter DEF Still, OwnerInv
<1> QED BY <1>2, <1>3, <1>4 DEF OwnerInv

\* What a call puts into the channel.
LEMMA CallPushes ==
  ASSUME TypeOK, Call
  PROVE  /\ \E item : /\ item.type # "Return" /\ (stops' = 0 => item.type # "Stop")
                      /\ actions' = Append(actions, item)
         /\ stops' = 0 => stops = 0
<1>1. PICK address \in Address :
        \/ send(address) \/ spawn(address) \/ stop(address)
        \/ \E duration \in Durations : delay(address, duration)
  BY DEF Call
<1>2. CASE send(address)
  <2> DEFINE new == [type |-> "Queue", tag |-> adjust_remote_address(address),
                     envelope |-> NewEnvelope(address, 0)]
  <2>1. actions' = Append(actions, new) /\ new.type = "Queue" /\ stops' = stops
    BY <1>2 DEF send, Push
  <2> HIDE DEF new
  <2> QED BY <2>1
<1>3. CASE spawn(address)
  <2> DEFINE new == [type |-> "Spawn", tag |-> address, actor |-> spawned + 1]
  <2>1. actions' = Append(actions, new) /\ new.type = "Spawn" /\ stops' = stops
    BY <1>3 DEF spawn, Push
  <2> HIDE DEF new
  <2> QED BY <2>1
<1>4. CASE stop(address)
  <2> DEFINE new == [type |-> "Stop", tag |-> address]
  <2>1. actions' = Append(actions, new) /\ new.type = "Stop" /\ stops' = stops + 1
    BY <1>4 DEF stop, Push
  <2>2. stops' # 0
    BY <2>1 DEF TypeOK
  <2> HIDE DEF new
  <2> QED BY <2>1, <2>2
<1>5. ASSUME NEW duration \in Durations, delay(address, duration)
      PROVE  /\ \E item : /\ item.type # "Return" /\ (stops' = 0 => item.type # "Stop")
                          /\ actions' = Append(actions, item)
             /\ stops' = 0 => stops = 0
  <2> DEFINE new == [type |-> "Delay",
                     entry |-> [tag |-> adjust_remote_address(address),
                                envelope |-> NewEnvelope(address, now + duration)]]
  <2>1. actions' = Append(actions, new) /\ new.type = "Delay" /\ stops' = stops
    BY <1>5 DEF delay, Push
  <2> HIDE DEF new
  <2> QED BY <2>1
<1> QED BY <1>1, <1>2, <1>3, <1>4, <1>5

\* The application, the clock, or nobody.
LEMMA RunStill ==
  ASSUME TypeOK, RunCall \/ RunShutdown \/ RunDrop \/ Tick \/ Finished \/ UNCHANGED vars
  PROVE  Still
<1> USE DEF loop, registry, budget, history
<1>1. UNCHANGED <<events, worker, active, actors, accepted, hooked>>
  BY DEF RunCall, RunShutdown, RunDrop, Tick, Finished, vars
<1>2. CASE RunCall
  BY <1>1, <1>2, CallPushes DEF RunCall, Still, Carrying
<1>3. CASE RunShutdown
  <2> DEFINE new == [type |-> "Shutdown"]
  <2>1. (actions' = actions \/ actions' = Append(actions, new)) /\ new.type = "Shutdown" /\ stops' = stops
    BY <1>3 DEF RunShutdown, Push
  <2> HIDE DEF new
  <2> QED BY <1>1, <2>1 DEF Still, Carrying
<1>4. CASE RunDrop \/ Tick \/ Finished \/ UNCHANGED vars
  <2>1. UNCHANGED <<actions, stops>>
    BY <1>4 DEF RunDrop, Tick, Finished, vars
  <2> QED BY <1>1, <2>1 DEF Still, Carrying
<1> QED BY <1>2, <1>3, <1>4

\* What a worker does with no actor to take or to give back.
LEMMA WorkerStill ==
  ASSUME TypeOK, NEW w \in Worker,
         \/ TakeStop(w) \/ TakeShutdown(w) \/ HandlerCall(w) \/ HandlerNote(w)
         \/ ReceivePanic(w) \/ StopReturn(w) \/ Drain(w) \/ Drained(w)
         \/ HookPanic(w) /\ worker[w].pc = "on_stop"
  PROVE  Still
<1> USE DEF loop, registry, budget, history
<1>1. worker \in [Worker -> Thread] /\ hooked \subseteq Nat
  BY DEF TypeOK
<1>2. UNCHANGED <<active, actors, accepted>>
  BY DEF TakeStop, TakeShutdown, HandlerCall, HandlerNote, ReceivePanic, StopReturn, Drain,
         Drained, HookPanic
<1>3. \A v \in Worker \ {w} : worker'[v] = worker[v]
  BY <1>1 DEF TakeStop, TakeShutdown, HandlerCall, HandlerNote, ReceivePanic, StopReturn, Drain,
         Drained, HookPanic, Enter
<1> DEFINE Quiet(v) ==
      /\ Carrying(v)' <=> Carrying(v)
      /\ Carrying(v) => worker'[v].tag = worker[v].tag /\ worker'[v].actor = worker[v].actor
      /\ worker[v].pc = "dead" => worker'[v].pc = "dead" /\ worker'[v].tag = worker[v].tag
      /\ worker'[v].pc = "on_fail" => worker[v].pc = "on_fail" \/ worker'[v].actor \in hooked'
<1>4. \A v \in Worker \ {w} : Quiet(v)
  BY <1>3 DEF Carrying
<1>5. Quiet(w)
  <2>1. CASE TakeStop(w)
    BY <1>1, <2>1 DEF TakeStop, Take, Carrying
  <2>2. CASE TakeShutdown(w)
    BY <1>1, <2>2 DEF TakeShutdown, Take, Enter, Carrying, Thread
  <2>3. CASE HandlerCall(w)
    BY <1>1, <2>3 DEF HandlerCall, Carrying
  <2>4. CASE HandlerNote(w)
    <3>1. worker'[w].pc = worker[w].pc /\ worker'[w].tag = worker[w].tag
          /\ worker'[w].actor = worker[w].actor
      BY <1>1, <2>4 DEF HandlerNote, Thread
    <3> QED BY <3>1 DEF Carrying
  <2>5. CASE ReceivePanic(w)
    BY <1>1, <2>5 DEF ReceivePanic, Enter, Carrying, Thread
  <2>6. CASE StopReturn(w)
    BY <1>1, <2>6 DEF StopReturn, Enter, Carrying, Thread
  <2>7. CASE Drain(w)
    <3>1. worker'[w].pc = worker[w].pc /\ worker'[w].tag = worker[w].tag
          /\ worker'[w].actor = worker[w].actor
      BY <1>1, <2>7 DEF Drain, Thread
    <3> QED BY <3>1 DEF Carrying
  <2>8. CASE Drained(w)
    BY <1>1, <2>8 DEF Drained, Idle, Carrying
  <2>9. CASE HookPanic(w) /\ worker[w].pc = "on_stop"
    BY <1>1, <2>9 DEF HookPanic, Enter, Carrying, Thread
  <2> QED BY <2>1, <2>2, <2>3, <2>4, <2>5, <2>6, <2>7, <2>8, <2>9
<1>6. \A v \in Worker : Quiet(v)
  BY <1>4, <1>5
<1>7. hooked \subseteq hooked' /\ (stops' = 0 => stops = 0)
  <2>1. CASE HandlerCall(w)
    BY <2>1, CallPushes DEF HandlerCall
  <2>2. CASE ~HandlerCall(w)
    BY <2>2 DEF TakeStop, TakeShutdown, HandlerNote, ReceivePanic, StopReturn, Drain, Drained, HookPanic
  <2> QED BY <2>1, <2>2
<1>8. \/ events' = events
      \/ /\ events # <<>> /\ Head(events).type # "Mail" /\ events' = Tail(events)
         /\ Head(events).type = "Stop" => Head(events).actor \in hooked'
  <2>1. CASE TakeStop(w) \/ TakeShutdown(w)
    BY <2>1 DEF TakeStop, TakeShutdown, Take
  <2>2. CASE ~TakeStop(w) /\ ~TakeShutdown(w)
    BY <2>2 DEF HandlerCall, HandlerNote, ReceivePanic, StopReturn, Drain, Drained, HookPanic
  <2> QED BY <2>1, <2>2
<1>9. \/ actions' = actions
      \/ \E item : /\ item.type # "Return" /\ (stops' = 0 => item.type # "Stop")
                   /\ actions' = Append(actions, item)
  <2>1. CASE HandlerCall(w)
    BY <2>1, CallPushes DEF HandlerCall
  <2>2. CASE Drain(w)
    <3>1. PICK k \in Note : Push([type |-> k, n |-> worker[w].notes[k]])
      BY <2>2 DEF Drain
    <3> DEFINE new == [type |-> k, n |-> worker[w].notes[k]]
    <3>2. actions' = Append(actions, new) /\ new.type \in {"Logs", "Metrics"}
      BY <3>1 DEF Push, Note
    <3> HIDE DEF new
    <3> QED BY <3>2
  <2>3. CASE ~HandlerCall(w) /\ ~Drain(w)
    BY <2>3 DEF TakeStop, TakeShutdown, HandlerNote, ReceivePanic, StopReturn, Drained, HookPanic
  <2> QED BY <2>1, <2>2, <2>3
<1> QED BY <1>2, <1>6, <1>7, <1>8, <1>9 DEF Still

\* What event_loop does without an actor.
LEMMA LoopStill ==
  ASSUME TypeOK, QueueBusy \/ Delay \/ Collect \/ Drop \/ Miss \/ FireTask \/ NextIteration
  PROVE  Still
<1> USE DEF loop, registry, budget, history
<1>1. UNCHANGED <<events, worker, active, actors, accepted, hooked, stops>>
  BY DEF QueueBusy, Delay, Collect, Drop, Miss, FireTask, NextIteration
<1>2. \/ actions' = actions
      \/ \E item : /\ item.type # "Return" /\ (stops' = 0 => item.type # "Stop")
                   /\ actions' = Append(actions, item)
      \/ actions # <<>> /\ Head(actions).type # "Return" /\ actions' = Tail(actions)
  <2>1. CASE FireTask
    <3>1. PICK e \in tasks : Push([type |-> "Queue", tag |-> e.tag, envelope |-> e.envelope])
      BY <2>1 DEF FireTask
    <3> DEFINE new == [type |-> "Queue", tag |-> e.tag, envelope |-> e.envelope]
    <3>2. actions' = Append(actions, new) /\ new.type = "Queue"
      BY <3>1 DEF Push
    <3> HIDE DEF new
    <3> QED BY <3>2
  <2>2. CASE Miss \/ NextIteration
    BY <2>2 DEF Miss, NextIteration
  <2>3. CASE QueueBusy \/ Delay \/ Collect \/ Drop
    BY <2>3 DEF QueueBusy, Delay, Collect, Drop, Receive, Note
  <2> QED BY <2>1, <2>2, <2>3
<1> QED BY <1>1, <1>2 DEF Still, Carrying

-----------------------------------------------------------------------------
(* Steps that move an actor.                                               *)

\* The actors of one tag move, those of the others stay.
LEMMA MoveOwner ==
  ASSUME TypeOK, OwnerInv, LoopRuns, Forward, FailingHooked', NEW tag,
         Sound(tag)', \A t \in Address : t # tag => SameAt(t),
         \/ actions' = actions
         \/ \E item : /\ actions' = Append(actions, item)
                      /\ stops' = 0 => item.type # "Stop"
                      /\ item.type = "Return" /\ ~item.ok => item.actor \in hooked'
         \/ actions # <<>> /\ actions' = Tail(actions)
  PROVE  OwnerInv'
<1>1. \A t \in Address : Sound(t)'
  BY SameSound DEF OwnerInv
<1>2. NoStopAsked' /\ FailedHooked'
  BY ChannelAfter DEF OwnerInv
<1> QED BY <1>1, <1>2 DEF OwnerInv

\* The actor level of Sound, when every actor stays held.
LEMMA HeldSound ==
  ASSUME NEW tag, Sound(tag), Forward, accepted' = accepted,
         stops' = 0 => OnePlace(tag)', tag \in active' => Present(tag)',
         \A actor \in Nat : Held(tag, actor)' <=> Held(tag, actor),
         \A actor \in Nat : Has(events, "Stop", tag, actor) => Has(events', "Stop", tag, actor)
  PROVE  Sound(tag)'
<1>1. \A actor \in Nat : ActorKept(tag, actor) => ActorKept(tag, actor)'
  BY DEF ActorKept, Forward
<1> QED BY <1>1 DEF Sound

\* A worker takes the actor out of its event.
LEMMA TakeMailOwner ==
  ASSUME TypeOK, OwnerInv, LoopRuns, NEW w \in Worker, TakeMail(w)
  PROVE  OwnerInv'
<1> USE DEF loop, registry, budget, history
<1>0. PICK tag, actor : tag = Head(events).tag /\ actor = Head(events).actor
  OBVIOUS
<1>1. worker \in [Worker -> Thread] /\ events \in Seq(Event)
  BY DEF TypeOK
<1>2. /\ events # <<>> /\ Head(events).type = "Mail" /\ events' = Tail(events)
      /\ worker[w].pc = "idle" /\ worker'[w].pc = "receive"
      /\ worker'[w].tag = tag /\ worker'[w].actor = actor
      /\ \A v \in Worker : v # w => worker'[v] = worker[v]
      /\ UNCHANGED <<active, actors, actions, accepted, hooked, stops>>
  BY <1>0, <1>1 DEF TakeMail, Take
<1>3. tag \in Address
  BY <1>0, <1>2, HeadEvent
<1>4. \A t, a :
        /\ Some(events, "Mail", t) <=> Some(events', "Mail", t) \/ t = tag
        /\ Has(events, "Mail", t, a) <=> Has(events', "Mail", t, a) \/ (t = tag /\ a = actor)
        /\ Has(events, "Stop", t, a) <=> Has(events', "Stop", t, a)
        /\ Single(events, "Mail", t) => Single(events', "Mail", t)
        /\ Single(events, "Mail", t) /\ t = tag => ~Some(events', "Mail", t)
  BY <1>0, <1>1, <1>2, ItemTail
<1>5. \A v \in Worker : \A t, a :
        /\ Working(v, t)' <=> Working(v, t) \/ (v = w /\ t = tag)
        /\ Carries(v, t, a)' <=> Carries(v, t, a) \/ (v = w /\ t = tag /\ a = actor)
  BY <1>2 DEF Carries, Working, Carrying
<1>6. Forward /\ FailingHooked'
  BY <1>2 DEF Forward, OwnerInv, FailingHooked
<1>7. \A t \in Address : t # tag => SameAt(t)
  BY <1>2, <1>4, <1>5 DEF SameAt, MailSame, ReturnSame, WorkSame, RegistrySame, Mailed, Returned
<1>8. Sound(tag)'
  <2>1. Sound(tag)
    BY <1>3 DEF OwnerInv
  <2>2. Mailed(tag) /\ Worked(tag)'
    BY <1>4, <1>5 DEF Mailed, Worked
  <2>3. stops' = 0 => OnePlace(tag)'
    <3> SUFFICES ASSUME OnePlace(tag) PROVE OnePlace(tag)'
      BY <1>2, <2>1 DEF Sound
    <3>1. ~Returned(tag) /\ ~Worked(tag) /\ ~Waiting(tag) /\ tag \in active
      BY <2>2 DEF OnePlace
    <3>2. ~Mailed(tag)' /\ Single(events', "Mail", tag) /\ Single(actions', "Return", tag)
      BY <1>2, <1>4 DEF OnePlace, Mailed
    <3>3. \A v \in Worker : Working(v, tag)' => v = w
      BY <1>5, <3>1 DEF Worked
    <3>4. ~Returned(tag)' /\ ~Waiting(tag)' /\ tag \in active'
      BY <1>2, <3>1 DEF Returned, Waiting
    <3> QED BY <3>2, <3>3, <3>4 DEF OnePlace
  <2>4. \A a \in Nat : Held(tag, a)' <=> Held(tag, a)
    BY <1>2, <1>4, <1>5 DEF Held
  <2> QED BY <1>2, <1>4, <1>6, <2>1, <2>2, <2>3, <2>4, HeldSound DEF Present
<1> QED BY <1>2, <1>6, <1>7, <1>8, MoveOwner

\* A worker gives the actor back.
LEMMA SendReturnOwner ==
  ASSUME TypeOK, OwnerInv, LoopRuns, NEW w \in Worker, SendReturn(w)
  PROVE  OwnerInv'
<1> USE DEF loop, registry, budget, history
<1>0. PICK tag, actor : tag = worker[w].tag /\ actor = worker[w].actor
  OBVIOUS
<1> DEFINE item == [type |-> "Return", tag |-> worker[w].tag, actor |-> worker[w].actor,
                    ok |-> worker[w].pc = "receive"]
<1>1. worker \in [Worker -> Thread] /\ actions \in Seq(Action)
  BY DEF TypeOK
<1>2. /\ worker[w].pc \in {"receive", "on_fail"} /\ worker'[w].pc = "drain"
      /\ \A v \in Worker : v # w => worker'[v] = worker[v]
      /\ UNCHANGED <<active, actors, events, accepted, hooked, stops>>
  BY <1>1 DEF SendReturn, Enter, Thread
<1>3. actions' = Append(actions, item) /\ tag \in Address
  BY <1>0, <1>2 DEF SendReturn, Push, TypeOK
<1>4. item.type = "Return" /\ item.tag = tag /\ item.actor = actor
  BY <1>0
<1>5. ~item.ok => worker[w].pc = "on_fail"
  BY <1>2
<1>6. ~item.ok => item.actor \in hooked'
  BY <1>0, <1>2, <1>4, <1>5 DEF OwnerInv, FailingHooked
<1>7. Working(w, tag) /\ Carries(w, tag, actor)
  BY <1>0, <1>2 DEF Working, Carries, Carrying
<1> HIDE DEF item
<1>8. \A t, a :
        /\ Some(actions', "Return", t) <=> Some(actions, "Return", t) \/ t = tag
        /\ Has(actions', "Return", t, a) <=> Has(actions, "Return", t, a) \/ (t = tag /\ a = actor)
        /\ Single(actions, "Return", t) /\ ~(t = tag /\ Some(actions, "Return", t))
           => Single(actions', "Return", t)
  BY <1>1, <1>3, <1>4, ItemAppend
<1>9. \A v \in Worker : \A t, a :
        /\ Working(v, t) <=> Working(v, t)' \/ (v = w /\ t = tag)
        /\ Carries(v, t, a) <=> Carries(v, t, a)' \/ (v = w /\ t = tag /\ a = actor)
        /\ ~Working(w, t)'
  BY <1>0, <1>2, <1>7 DEF Carries, Working, Carrying
<1>10. Forward /\ FailingHooked'
  BY <1>2 DEF Forward, OwnerInv, FailingHooked
<1>11. \A t \in Address : t # tag => SameAt(t)
  BY <1>2, <1>8, <1>9 DEF SameAt, MailSame, ReturnSame, WorkSame, RegistrySame, Mailed, Returned
<1>12. Sound(tag)'
  <2>1. Sound(tag)
    BY <1>3 DEF OwnerInv
  <2>2. Worked(tag) /\ Returned(tag)'
    BY <1>8, <1>9 DEF Returned, Worked
  <2>3. stops' = 0 => OnePlace(tag)'
    <3> SUFFICES ASSUME OnePlace(tag) PROVE OnePlace(tag)'
      BY <1>2, <2>1 DEF Sound
    <3>1. ~Returned(tag) /\ ~Mailed(tag) /\ ~Waiting(tag) /\ tag \in active
      BY <2>2 DEF OnePlace
    <3>2. Single(events', "Mail", tag) /\ Single(actions', "Return", tag)
      BY <1>2, <1>8, <3>1 DEF OnePlace, Returned
    <3>3. ~Worked(tag)'
      BY <1>7, <1>9 DEF OnePlace, Worked
    <3>4. ~Mailed(tag)' /\ ~Waiting(tag)' /\ tag \in active'
      BY <1>2, <3>1 DEF Mailed, Waiting
    <3> QED BY <3>2, <3>3, <3>4 DEF OnePlace, Worked
  <2>4. \A a \in Nat : Held(tag, a)' <=> Held(tag, a)
    BY <1>2, <1>8, <1>9 DEF Held
  <2> QED BY <1>2, <1>10, <2>1, <2>2, <2>3, <2>4, HeldSound DEF Present
<1>13. \E new : /\ actions' = Append(actions, new)
                /\ stops' = 0 => new.type # "Stop"
                /\ new.type = "Return" /\ ~new.ok => new.actor \in hooked'
  BY <1>3, <1>4, <1>6
<1> QED BY <1>10, <1>11, <1>12, <1>13, MoveOwner

\* A panic of on_fail takes the actor with the worker.
LEMMA HookPanicOwner ==
  ASSUME TypeOK, OwnerInv, LoopRuns, NEW w \in Worker, HookPanic(w), worker[w].pc = "on_fail"
  PROVE  OwnerInv'
<1> USE DEF loop, registry, budget, history
<1>0. PICK tag, actor : tag = worker[w].tag /\ actor = worker[w].actor
  OBVIOUS
<1>1. worker \in [Worker -> Thread] /\ tag \in Address
  BY <1>0 DEF TypeOK
<1>2. /\ worker'[w].pc = "dead" /\ worker'[w].tag = tag
      /\ \A v \in Worker : v # w => worker'[v] = worker[v]
      /\ UNCHANGED <<active, actors, events, actions, accepted, hooked, stops>>
  BY <1>0, <1>1 DEF HookPanic, Enter, Thread
<1>3. \A v \in Worker : \A t, a :
        /\ Working(v, t) <=> Working(v, t)' \/ (v = w /\ t = tag)
        /\ Carries(v, t, a) <=> Carries(v, t, a)' \/ (v = w /\ t = tag /\ a = actor)
        /\ worker[v].pc = "dead" /\ worker[v].tag = t => worker'[v].pc = "dead" /\ worker'[v].tag = t
  BY <1>0, <1>2 DEF Carries, Working, Carrying
<1>4. Forward /\ FailingHooked' /\ actor \in hooked
  BY <1>0, <1>2 DEF Forward, OwnerInv, FailingHooked
<1>5. \A t \in Address : t # tag => SameAt(t)
  BY <1>2, <1>3 DEF SameAt, MailSame, ReturnSame, WorkSame, RegistrySame, Mailed, Returned
<1>6. Sound(tag)'
  <2>1. Sound(tag)
    BY <1>1 DEF OwnerInv
  <2>2. stops' = 0 => OnePlace(tag)'
    BY <1>2, <1>3, <2>1 DEF Sound, OnePlace, Mailed, Returned, Worked, Waiting
  <2>3. Present(tag)'
    BY <1>2 DEF Present
  <2>4. \A a \in Nat : /\ Held(tag, a)' => Held(tag, a)
                       /\ Held(tag, a) => Held(tag, a)' \/ a = actor
    BY <1>2, <1>3 DEF Held
  <2>5. \A a \in Nat : ActorKept(tag, a) => ActorKept(tag, a)'
    BY <1>2, <1>4, <2>4 DEF ActorKept
  <2> QED BY <1>2, <2>1, <2>2, <2>3, <2>4, <2>5 DEF Sound
<1> QED BY <1>2, <1>4, <1>5, <1>6, MoveOwner

\* The scheduler takes a Return.
LEMMA ReturnTaken ==
  ASSUME TypeOK, Receive("Return"), NEW tag, tag = Head(actions).tag,
         NEW actor, actor = Head(actions).actor
  PROVE  /\ tag \in Address /\ actor \in Nat
         /\ actions # <<>> /\ actions' = Tail(actions)
         /\ FailedHooked => Head(actions).ok \/ actor \in hooked
         /\ \A t, a :
              /\ Some(actions, "Return", t) <=> Some(actions', "Return", t) \/ t = tag
              /\ Has(actions, "Return", t, a) <=>
                   Has(actions', "Return", t, a) \/ (t = tag /\ a = actor)
              /\ Single(actions, "Return", t) => Single(actions', "Return", t)
              /\ Single(actions, "Return", t) /\ t = tag => ~Some(actions', "Return", t)
<1>1. /\ actions \in Seq(Action) /\ actions # <<>> /\ actions' = Tail(actions)
      /\ Head(actions).type = "Return"
  BY DEF TypeOK, Receive
<1>2. \A t, a :
        /\ Some(actions, "Return", t) <=> Some(actions', "Return", t) \/ t = tag
        /\ Has(actions, "Return", t, a) <=>
             Has(actions', "Return", t, a) \/ (t = tag /\ a = actor)
        /\ Single(actions, "Return", t) => Single(actions', "Return", t)
        /\ Single(actions, "Return", t) /\ t = tag => ~Some(actions', "Return", t)
  BY <1>1, ItemTail
<1>3. 1 \in DOMAIN actions /\ Head(actions) = actions[1]
  BY <1>1
<1>4. FailedHooked => Head(actions).ok \/ actor \in hooked
  BY <1>1, <1>3 DEF FailedHooked
<1> QED BY <1>1, <1>2, <1>4, HeadAction

\* The scheduler sends an actor out with an envelope,
LEMMA MailSent ==
  ASSUME TypeOK, LoopRuns', NEW tag, NEW actor, NEW envelope,
         SendEvent(MailEvent(tag, actor, envelope))
  PROVE  \A t, a :
           /\ Some(events', "Mail", t) <=> Some(events, "Mail", t) \/ t = tag
           /\ Has(events', "Mail", t, a) <=> Has(events, "Mail", t, a) \/ (t = tag /\ a = actor)
           /\ Has(events', "Stop", t, a) <=> Has(events, "Stop", t, a)
           /\ Single(events, "Mail", t) /\ ~(t = tag /\ Some(events, "Mail", t))
              => Single(events', "Mail", t)
<1>1. PICK event : event = MailEvent(tag, actor, envelope)
  OBVIOUS
<1>2. event.type = "Mail" /\ event.tag = tag /\ event.actor = actor
  BY <1>1 DEF MailEvent
<1>3. events' = Append(events, event) /\ events \in Seq(Event)
  BY <1>1 DEF SendEvent, LoopRuns, TypeOK
<1> QED BY <1>2, <1>3, ItemAppend

\* or to its end.
LEMMA StopSent ==
  ASSUME TypeOK, LoopRuns', NEW tag, NEW actor, SendEvent(StopEvent(tag, actor))
  PROVE  \A t, a :
           /\ Some(events', "Mail", t) <=> Some(events, "Mail", t)
           /\ Has(events', "Mail", t, a) <=> Has(events, "Mail", t, a)
           /\ Has(events', "Stop", t, a) <=> Has(events, "Stop", t, a) \/ (t = tag /\ a = actor)
           /\ Single(events, "Mail", t) => Single(events', "Mail", t)
<1>1. PICK event : event = StopEvent(tag, actor)
  OBVIOUS
<1>2. event.type = "Stop" /\ event.tag = tag /\ event.actor = actor
  BY <1>1 DEF StopEvent
<1>3. events' = Append(events, event) /\ events \in Seq(Event)
  BY <1>1 DEF SendEvent, LoopRuns, TypeOK
<1> QED BY <1>2, <1>3, ItemAppend

\* Without a look at the workers, which the scheduler does not touch.
LEMMA WorkersStay ==
  ASSUME worker' = worker
  PROVE  /\ \A tag : (Worked(tag)' <=> Worked(tag)) /\ WorkSame(tag)
         /\ \A w \in Worker : \A tag, actor :
              /\ Working(w, tag)' <=> Working(w, tag)
              /\ Carries(w, tag, actor)' <=> Carries(w, tag, actor)
BY DEF Worked, Carries, Working, Carrying, WorkSame

\* A failed actor is dropped with its address; it had its on_fail.
LEMMA ReturnFailedOwner ==
  ASSUME TypeOK, OwnerInv, LoopRuns, ReturnFailed
  PROVE  OwnerInv'
<1> USE DEF loop, registry, budget, history
<1>0. PICK tag, actor : tag = Head(actions).tag /\ actor = Head(actions).actor
  OBVIOUS
<1>1. /\ Receive("Return") /\ ~Head(actions).ok /\ active' = active \ {tag}
      /\ UNCHANGED <<actors, events, worker, accepted, hooked, stops>>
  BY <1>0 DEF ReturnFailed, Deactivate
<1>2. /\ tag \in Address /\ actions # <<>> /\ actions' = Tail(actions) /\ actor \in hooked
      /\ \A t, a :
           /\ Some(actions, "Return", t) <=> Some(actions', "Return", t) \/ t = tag
           /\ Has(actions, "Return", t, a) <=> Has(actions', "Return", t, a) \/ (t = tag /\ a = actor)
           /\ Single(actions, "Return", t) => Single(actions', "Return", t)
           /\ Single(actions, "Return", t) /\ t = tag => ~Some(actions', "Return", t)
  BY <1>0, <1>1, ReturnTaken DEF OwnerInv
<1>3. Forward /\ FailingHooked'
  BY <1>1 DEF Forward, OwnerInv, FailingHooked
<1>4. \A t \in Address : t # tag => SameAt(t)
  BY <1>1, <1>2, WorkersStay DEF SameAt, MailSame, ReturnSame, RegistrySame, Mailed, Returned
<1>5. Sound(tag)'
  <2>1. Sound(tag)
    BY <1>2 DEF OwnerInv
  <2>2. stops' = 0 => OnePlace(tag)'
    <3> SUFFICES ASSUME OnePlace(tag) PROVE OnePlace(tag)'
      BY <1>1, <2>1 DEF Sound
    <3>1. ~Mailed(tag) /\ ~Worked(tag) /\ ~Waiting(tag)
      BY <1>2 DEF OnePlace, Returned
    <3>2. ~Mailed(tag)' /\ ~Worked(tag)' /\ ~Waiting(tag)'
      BY <1>1, <3>1, WorkersStay DEF Mailed, Waiting
    <3>3. ~Returned(tag)' /\ Single(actions', "Return", tag) /\ Single(events', "Mail", tag)
      BY <1>1, <1>2 DEF OnePlace, Returned
    <3> QED BY <3>2, <3>3 DEF OnePlace, Worked
  <2>3. \A a \in Nat : /\ Held(tag, a)' => Held(tag, a)
                       /\ Held(tag, a) => Held(tag, a)' \/ a = actor
    BY <1>1, <1>2, WorkersStay DEF Held
  <2>4. \A a \in Nat : ActorKept(tag, a) => ActorKept(tag, a)'
    BY <1>1, <1>2, <2>3 DEF ActorKept
  <2> QED BY <1>1, <2>1, <2>2, <2>3, <2>4 DEF Sound
<1> QED BY <1>2, <1>3, <1>4, <1>5, MoveOwner

\* A returned actor goes out again with the next envelope.
LEMMA ReturnNextOwner ==
  ASSUME TypeOK, OwnerInv, LoopRuns, LoopRuns', ReturnNext
  PROVE  OwnerInv'
<1> USE DEF loop, registry, budget, history
<1>0. PICK tag, actor : tag = Head(actions).tag /\ actor = Head(actions).actor
  OBVIOUS
<1>1. /\ Receive("Return") /\ tag \in active
      /\ SendEvent(MailEvent(tag, actor, Head(queue[tag])))
      /\ UNCHANGED <<active, actors, worker, accepted, hooked, stops>>
  BY <1>0 DEF ReturnNext
<1>2. /\ tag \in Address /\ actions # <<>> /\ actions' = Tail(actions)
      /\ \A t, a :
           /\ Some(actions, "Return", t) <=> Some(actions', "Return", t) \/ t = tag
           /\ Has(actions, "Return", t, a) <=> Has(actions', "Return", t, a) \/ (t = tag /\ a = actor)
           /\ Single(actions, "Return", t) => Single(actions', "Return", t)
           /\ Single(actions, "Return", t) /\ t = tag => ~Some(actions', "Return", t)
  BY <1>0, <1>1, ReturnTaken
<1>3. \A t, a :
        /\ Some(events', "Mail", t) <=> Some(events, "Mail", t) \/ t = tag
        /\ Has(events', "Mail", t, a) <=> Has(events, "Mail", t, a) \/ (t = tag /\ a = actor)
        /\ Has(events', "Stop", t, a) <=> Has(events, "Stop", t, a)
        /\ Single(events, "Mail", t) /\ ~(t = tag /\ Some(events, "Mail", t))
           => Single(events', "Mail", t)
  BY <1>1, MailSent
<1>4. Forward /\ FailingHooked'
  BY <1>1 DEF Forward, OwnerInv, FailingHooked
<1>5. \A t \in Address : t # tag => SameAt(t)
  <2> SUFFICES ASSUME NEW t \in Address, t # tag PROVE SameAt(t)
    OBVIOUS
  <2>1. MailSame(t)
    BY <1>3 DEF MailSame, Mailed
  <2>2. ReturnSame(t)
    BY <1>2 DEF ReturnSame, Returned
  <2>3. WorkSame(t) /\ RegistrySame(t)
    BY <1>1, WorkersStay DEF RegistrySame
  <2> QED BY <2>1, <2>2, <2>3 DEF SameAt
<1>6. Sound(tag)'
  <2>1. Sound(tag)
    BY <1>2 DEF OwnerInv
  <2>2. stops' = 0 => OnePlace(tag)'
    <3> SUFFICES ASSUME OnePlace(tag) PROVE OnePlace(tag)'
      BY <1>1, <2>1 DEF Sound
    <3>1. ~Mailed(tag) /\ ~Worked(tag) /\ ~Waiting(tag)
      BY <1>2 DEF OnePlace, Returned
    <3>2. ~Worked(tag)' /\ ~Waiting(tag)' /\ tag \in active'
      BY <1>1, <3>1, WorkersStay DEF Waiting
    <3>3. ~Returned(tag)' /\ Single(actions', "Return", tag) /\ Single(events', "Mail", tag)
      BY <1>2, <1>3, <3>1 DEF OnePlace, Returned, Mailed
    <3> QED BY <3>2, <3>3 DEF OnePlace, Worked
  <2>3. Present(tag)'
    BY <1>3 DEF Present, Mailed
  <2>4. \A a \in Nat : Held(tag, a)' <=> Held(tag, a)
    BY <1>1, <1>2, <1>3, WorkersStay DEF Held
  <2> QED BY <1>1, <1>3, <1>4, <2>1, <2>2, <2>3, <2>4, HeldSound
<1> QED BY <1>2, <1>4, <1>5, <1>6, MoveOwner

\* The map of waiting actors after an insert or a remove.
LEMMA MapAfter ==
  ASSUME NEW map, NEW key, NEW value
  PROVE  /\ \A k : k \in DOMAIN Insert(map, key, value) <=> k \in DOMAIN map \/ k = key
         /\ Insert(map, key, value)[key] = value
         /\ \A k \in DOMAIN map : k # key => Insert(map, key, value)[k] = map[k]
         /\ \A k : k \in DOMAIN Without(map, key) <=> k \in DOMAIN map /\ k # key
         /\ \A k \in DOMAIN map : k # key => Without(map, key)[k] = map[k]
BY DEF Insert, Without

\* A returned actor waits.  Another one that waited under the same tag would be
\* lost: both were accepted.
LEMMA ReturnIdleOwner ==
  ASSUME TypeOK, OwnerInv, LoopRuns, ReturnIdle
  PROVE  OwnerInv'
<1> USE DEF loop, registry, budget, history
<1>0. PICK tag, actor : tag = Head(actions).tag /\ actor = Head(actions).actor
  OBVIOUS
<1>1. /\ Receive("Return") /\ tag \in active /\ actors' = Insert(actors, tag, actor)
      /\ UNCHANGED <<active, events, worker, accepted, hooked, stops>>
  BY <1>0 DEF ReturnIdle
<1>2. /\ tag \in Address /\ actor \in Nat /\ actions # <<>> /\ actions' = Tail(actions)
      /\ \A t, a :
           /\ Some(actions, "Return", t) <=> Some(actions', "Return", t) \/ t = tag
           /\ Has(actions, "Return", t, a) <=> Has(actions', "Return", t, a) \/ (t = tag /\ a = actor)
           /\ Single(actions, "Return", t) => Single(actions', "Return", t)
           /\ Single(actions, "Return", t) /\ t = tag => ~Some(actions', "Return", t)
  BY <1>0, <1>1, ReturnTaken
<1>3. /\ \A t : t \in DOMAIN actors' <=> t \in DOMAIN actors \/ t = tag
      /\ actors'[tag] = actor
      /\ \A t \in DOMAIN actors : t # tag => actors'[t] = actors[t]
  BY <1>1, MapAfter
<1>4. Forward /\ FailingHooked'
  BY <1>1 DEF Forward, OwnerInv, FailingHooked
<1>5. \A t \in Address : t # tag => SameAt(t)
  BY <1>1, <1>2, <1>3, WorkersStay DEF SameAt, MailSame, ReturnSame, RegistrySame, Mailed, Returned
<1>6. Sound(tag)'
  <2>1. Sound(tag)
    BY <1>2 DEF OwnerInv
  <2>2. stops' = 0 => OnePlace(tag)'
    <3> SUFFICES ASSUME OnePlace(tag) PROVE OnePlace(tag)'
      BY <1>1, <2>1 DEF Sound
    <3>1. ~Mailed(tag) /\ ~Worked(tag)
      BY <1>2 DEF OnePlace, Returned
    <3>2. ~Mailed(tag)' /\ ~Worked(tag)' /\ tag \in active'
      BY <1>1, <3>1, WorkersStay DEF Mailed
    <3>3. ~Returned(tag)' /\ Single(actions', "Return", tag) /\ Single(events', "Mail", tag)
      BY <1>1, <1>2 DEF OnePlace, Returned
    <3> QED BY <3>2, <3>3 DEF OnePlace, Worked
  <2>3. Present(tag)'
    BY <1>3 DEF Present, Waiting
  <2>4. Held(tag, actor) /\ <<actor, tag>> \in accepted
    BY <1>2, <2>1 DEF Held, Sound
  <2>5. \A a \in Nat : Held(tag, a)' => Held(tag, a)
    BY <1>1, <1>2, <1>3, WorkersStay DEF Held
  <2>6. \A a \in Nat : Held(tag, a) => Held(tag, a)' \/ a # actor
    BY <1>3 DEF Held
  <2>7. \A a \in Nat : ActorKept(tag, a) => ActorKept(tag, a)'
    BY <1>1, <1>2, <2>4, <2>6 DEF ActorKept
  <2> QED BY <1>1, <2>1, <2>2, <2>3, <2>5, <2>7 DEF Sound
<1> QED BY <1>2, <1>4, <1>5, <1>6, MoveOwner

\* An actor stopped while it was at work goes to its end; a stop was asked for.
LEMMA ReturnStoppedOwner ==
  ASSUME TypeOK, OwnerInv, LoopRuns, LoopRuns', ReturnStopped
  PROVE  OwnerInv'
<1> USE DEF loop, registry, budget, history
<1>0. PICK tag, actor : tag = Head(actions).tag /\ actor = Head(actions).actor
  OBVIOUS
<1>1. /\ Receive("Return") /\ tag \notin active
      /\ \/ Head(actions).ok /\ SendEvent(StopEvent(tag, actor))
         \/ ~Head(actions).ok /\ events' = events
      /\ UNCHANGED <<active, actors, worker, accepted, hooked, stops>>
  BY <1>0 DEF ReturnStopped
<1>2. /\ tag \in Address /\ actions # <<>> /\ actions' = Tail(actions)
      /\ Head(actions).ok \/ actor \in hooked
      /\ \A t, a :
           /\ Some(actions, "Return", t) <=> Some(actions', "Return", t) \/ t = tag
           /\ Has(actions, "Return", t, a) <=> Has(actions', "Return", t, a) \/ (t = tag /\ a = actor)
           /\ Single(actions, "Return", t) => Single(actions', "Return", t)
  BY <1>0, <1>1, ReturnTaken DEF OwnerInv
<1>3. \A t, a :
        /\ Some(events', "Mail", t) <=> Some(events, "Mail", t)
        /\ Has(events', "Mail", t, a) <=> Has(events, "Mail", t, a)
        /\ Has(events, "Stop", t, a) => Has(events', "Stop", t, a)
        /\ Single(events, "Mail", t) => Single(events', "Mail", t)
        /\ Head(actions).ok => Has(events', "Stop", tag, actor)
  <2>1. CASE Head(actions).ok /\ SendEvent(StopEvent(tag, actor))
    BY <2>1, StopSent
  <2>2. CASE ~Head(actions).ok /\ events' = events
    BY <2>2
  <2> QED BY <1>1, <2>1, <2>2
<1>4. Forward /\ FailingHooked'
  BY <1>1 DEF Forward, OwnerInv, FailingHooked
<1>5. \A t \in Address : t # tag => SameAt(t)
  <2> SUFFICES ASSUME NEW t \in Address, t # tag PROVE SameAt(t)
    OBVIOUS
  <2>1. MailSame(t)
    BY <1>3 DEF MailSame, Mailed
  <2>2. ReturnSame(t)
    BY <1>2 DEF ReturnSame, Returned
  <2>3. WorkSame(t) /\ RegistrySame(t)
    BY <1>1, WorkersStay DEF RegistrySame
  <2> QED BY <2>1, <2>2, <2>3 DEF SameAt
<1>6. Sound(tag)'
  <2>1. Sound(tag)
    BY <1>2 DEF OwnerInv
  <2>2. stops' # 0
    <3>1. Returned(tag)
      BY <1>2 DEF Returned
    <3> QED BY <1>1, <2>1, <3>1 DEF Sound, OnePlace
  <2>3. \A a \in Nat : /\ Held(tag, a)' => Held(tag, a)
                       /\ Held(tag, a) => Held(tag, a)' \/ a = actor
    BY <1>1, <1>2, <1>3, WorkersStay DEF Held
  <2>4. \A a \in Nat : ActorKept(tag, a) => ActorKept(tag, a)'
    BY <1>1, <1>2, <1>3, <2>3 DEF ActorKept
  <2> QED BY <1>1, <2>1, <2>2, <2>3, <2>4 DEF Sound
<1> QED BY <1>2, <1>4, <1>5, <1>6, MoveOwner

\* The scheduler takes something else.
LEMMA OtherTaken ==
  ASSUME TypeOK, NEW type, type # "Return", Receive(type)
  PROVE  /\ actions # <<>> /\ actions' = Tail(actions)
         /\ \A t : (Returned(t)' <=> Returned(t)) /\ ReturnSame(t)
<1>1. /\ actions \in Seq(Action) /\ actions # <<>> /\ actions' = Tail(actions)
      /\ Head(actions).type # "Return"
  BY DEF TypeOK, Receive
<1>2. \A t, a :
        /\ Some(actions', "Return", t) <=> Some(actions, "Return", t)
        /\ Has(actions', "Return", t, a) <=> Has(actions, "Return", t, a)
        /\ Single(actions, "Return", t) => Single(actions', "Return", t)
  BY <1>1, ItemTail
<1> QED BY <1>1, <1>2 DEF Returned, ReturnSame

\* A waiting actor goes out with an envelope.
LEMMA QueueIdleOwner ==
  ASSUME TypeOK, OwnerInv, LoopRuns, LoopRuns', QueueIdle
  PROVE  OwnerInv'
<1> USE DEF loop, registry, budget, history
<1>0. PICK tag, actor, mailbox :
        /\ tag = Head(actions).tag /\ actor = actors[tag]
        /\ mailbox = push_back(queue[tag], Head(actions).envelope)
  OBVIOUS
<1>1. /\ Receive("Queue") /\ tag \in active /\ tag \in DOMAIN actors
      /\ actors' = Without(actors, tag)
      /\ SendEvent(MailEvent(tag, actor, Head(mailbox)))
      /\ UNCHANGED <<active, worker, accepted, hooked, stops>>
  BY <1>0 DEF QueueIdle
<1>2. /\ actions # <<>> /\ actions' = Tail(actions)
      /\ \A t : (Returned(t)' <=> Returned(t)) /\ ReturnSame(t)
  BY <1>1, OtherTaken
<1>3. \A t, a :
        /\ Some(events', "Mail", t) <=> Some(events, "Mail", t) \/ t = tag
        /\ Has(events', "Mail", t, a) <=> Has(events, "Mail", t, a) \/ (t = tag /\ a = actor)
        /\ Has(events', "Stop", t, a) <=> Has(events, "Stop", t, a)
        /\ Single(events, "Mail", t) /\ ~(t = tag /\ Some(events, "Mail", t))
           => Single(events', "Mail", t)
  BY <1>1, MailSent
<1>4. /\ \A t : t \in DOMAIN actors' <=> t \in DOMAIN actors /\ t # tag
      /\ \A t \in DOMAIN actors : t # tag => actors'[t] = actors[t]
  BY <1>1, MapAfter
<1>5. Forward /\ FailingHooked' /\ tag \in Address
  BY <1>1 DEF Forward, OwnerInv, FailingHooked, TypeOK
<1>6. \A t \in Address : t # tag => SameAt(t)
  <2> SUFFICES ASSUME NEW t \in Address, t # tag PROVE SameAt(t)
    OBVIOUS
  <2>1. MailSame(t)
    BY <1>3 DEF MailSame, Mailed
  <2>2. WorkSame(t) /\ RegistrySame(t)
    BY <1>1, <1>4, WorkersStay DEF RegistrySame
  <2> QED BY <1>2, <2>1, <2>2 DEF SameAt
<1>7. Sound(tag)'
  <2>1. Sound(tag)
    BY <1>5 DEF OwnerInv
  <2>2. stops' = 0 => OnePlace(tag)'
    <3> SUFFICES ASSUME OnePlace(tag) PROVE OnePlace(tag)'
      BY <1>1, <2>1 DEF Sound
    <3>1. ~Mailed(tag) /\ ~Worked(tag) /\ ~Returned(tag)
      BY <1>1 DEF OnePlace, Waiting
    <3>2. ~Worked(tag)' /\ ~Waiting(tag)' /\ ~Returned(tag)' /\ tag \in active'
      BY <1>1, <1>2, <1>4, <3>1, WorkersStay DEF Waiting
    <3>3. Single(actions', "Return", tag) /\ Single(events', "Mail", tag)
      BY <1>2, <1>3, <3>1 DEF OnePlace, ReturnSame, Mailed
    <3> QED BY <3>2, <3>3 DEF OnePlace, Worked
  <2>3. Present(tag)'
    BY <1>3 DEF Present, Mailed
  <2>4. \A a \in Nat : Held(tag, a)' <=> Held(tag, a)
    BY <1>0, <1>1, <1>2, <1>3, <1>4, WorkersStay DEF Held, ReturnSame
  <2> QED BY <1>1, <1>3, <1>5, <2>1, <2>2, <2>3, <2>4, HeldSound
<1> QED BY <1>2, <1>5, <1>6, <1>7, MoveOwner

\* An actor is accepted and waits.  One that still waited under the inactive tag
\* would be lost: it was accepted, too.
LEMMA SpawnNewOwner ==
  ASSUME TypeOK, OwnerInv, LoopRuns, SpawnNew
  PROVE  OwnerInv'
<1> USE DEF loop, registry, budget, history
<1>0. PICK tag, actor : tag = Head(actions).tag /\ actor = Head(actions).actor
  OBVIOUS
<1>1. /\ Receive("Spawn") /\ tag \notin active /\ active' = active \cup {tag}
      /\ actors' = Insert(actors, tag, actor)
      /\ accepted' = accepted \cup {<<actor, tag>>}
      /\ UNCHANGED <<events, worker, hooked, stops>>
  BY <1>0 DEF SpawnNew
<1>2. /\ actions # <<>> /\ actions' = Tail(actions)
      /\ \A t : (Returned(t)' <=> Returned(t)) /\ ReturnSame(t)
  BY <1>1, OtherTaken
<1>3. tag \in Address /\ actor \in Nat
  BY <1>0, <1>1, <1>2, HeadAction DEF Receive
<1>4. /\ \A t : t \in DOMAIN actors' <=> t \in DOMAIN actors \/ t = tag
      /\ actors'[tag] = actor
      /\ \A t \in DOMAIN actors : t # tag => actors'[t] = actors[t]
  BY <1>1, MapAfter
<1>5. Forward /\ FailingHooked'
  BY <1>1 DEF Forward, OwnerInv, FailingHooked
<1>6. \A t \in Address : t # tag => SameAt(t)
  <2> SUFFICES ASSUME NEW t \in Address, t # tag PROVE SameAt(t)
    OBVIOUS
  <2>1. MailSame(t)
    BY <1>1 DEF MailSame, Mailed
  <2>2. WorkSame(t)
    BY <1>1, WorkersStay
  <2>3. RegistrySame(t)
    BY <1>1, <1>4 DEF RegistrySame
  <2> QED BY <1>2, <2>1, <2>2, <2>3 DEF SameAt
<1>7. Sound(tag)'
  <2>1. Sound(tag)
    BY <1>3 DEF OwnerInv
  <2>2. stops' = 0 => OnePlace(tag)'
    <3> SUFFICES ASSUME OnePlace(tag) PROVE OnePlace(tag)'
      BY <1>1, <2>1 DEF Sound
    <3>1. ~Mailed(tag) /\ ~Worked(tag) /\ ~Returned(tag)
      BY <1>1 DEF OnePlace
    <3>2. ~Mailed(tag)' /\ ~Worked(tag)' /\ ~Returned(tag)' /\ tag \in active'
      BY <1>1, <1>2, <3>1, WorkersStay DEF Mailed
    <3>3. Single(actions', "Return", tag) /\ Single(events', "Mail", tag)
      BY <1>1, <1>2 DEF OnePlace, ReturnSame
    <3> QED BY <3>2, <3>3 DEF OnePlace, Worked
  <2>3. Present(tag)'
    BY <1>4 DEF Present, Waiting
  <2>4. \A a \in Nat : /\ Held(tag, a)' => Held(tag, a) \/ a = actor
                       /\ Held(tag, a) => Held(tag, a)' \/ a # actor
    BY <1>1, <1>2, <1>4, WorkersStay DEF Held, ReturnSame
  <2>5. Held(tag, actor)'
    BY <1>4 DEF Held
  <2>6. \A a \in Nat : Held(tag, a)' => <<a, tag>> \in accepted'
    BY <1>1, <2>1, <2>4 DEF Sound
  <2>7. \A a \in Nat : <<a, tag>> \in accepted' => ActorKept(tag, a)'
    <3> SUFFICES ASSUME NEW a \in Nat, <<a, tag>> \in accepted' PROVE ActorKept(tag, a)'
      OBVIOUS
    <3>1. CASE a = actor
      BY <2>5, <3>1 DEF ActorKept
    <3>2. CASE a # actor
      BY <1>1, <1>3, <3>2 DEF ActorKept
    <3> QED BY <3>1, <3>2
  <2> QED BY <2>2, <2>3, <2>6, <2>7 DEF Sound
<1> QED BY <1>2, <1>5, <1>6, <1>7, MoveOwner

\* A waiting actor goes to its end; one at work is left to its Return.
LEMMA StopActiveOwner ==
  ASSUME TypeOK, OwnerInv, LoopRuns, LoopRuns', StopActive
  PROVE  OwnerInv'
<1> USE DEF loop, registry, budget, history
<1>0. PICK tag, actor : tag = Head(actions).tag /\ actor = actors[tag]
  OBVIOUS
<1>1. /\ Receive("Stop") /\ tag \in active /\ active' = active \ {tag}
      /\ actors' = Without(actors, tag)
      /\ \/ tag \in DOMAIN actors /\ SendEvent(StopEvent(tag, actor))
         \/ tag \notin DOMAIN actors /\ events' = events
      /\ UNCHANGED <<worker, accepted, hooked, stops>>
  BY <1>0 DEF StopActive, Deactivate
<1>2. /\ actions # <<>> /\ actions' = Tail(actions)
      /\ \A t : (Returned(t)' <=> Returned(t)) /\ ReturnSame(t)
  BY <1>1, OtherTaken
<1>3. tag \in Address /\ stops' # 0
  <2>1. Head(actions).type = "Stop" /\ actions \in Seq(Action)
    BY <1>1 DEF Receive, TypeOK
  <2>2. 1 \in DOMAIN actions /\ actions[1] = Head(actions)
    BY <1>2, <2>1
  <2> QED BY <1>1, <2>1, <2>2 DEF OwnerInv, NoStopAsked, TypeOK
<1>4. \A t, a :
        /\ Some(events', "Mail", t) <=> Some(events, "Mail", t)
        /\ Has(events', "Mail", t, a) <=> Has(events, "Mail", t, a)
        /\ Has(events, "Stop", t, a) => Has(events', "Stop", t, a)
        /\ Single(events, "Mail", t) => Single(events', "Mail", t)
        /\ tag \in DOMAIN actors => Has(events', "Stop", tag, actor)
  <2>1. CASE tag \in DOMAIN actors /\ SendEvent(StopEvent(tag, actor))
    BY <2>1, StopSent
  <2>2. CASE tag \notin DOMAIN actors /\ events' = events
    BY <2>2
  <2> QED BY <1>1, <2>1, <2>2
<1>5. /\ \A t : t \in DOMAIN actors' <=> t \in DOMAIN actors /\ t # tag
      /\ \A t \in DOMAIN actors : t # tag => actors'[t] = actors[t]
  BY <1>1, MapAfter
<1>6. Forward /\ FailingHooked'
  BY <1>1 DEF Forward, OwnerInv, FailingHooked
<1>7. \A t \in Address : t # tag => SameAt(t)
  <2> SUFFICES ASSUME NEW t \in Address, t # tag PROVE SameAt(t)
    OBVIOUS
  <2>1. MailSame(t)
    BY <1>4 DEF MailSame, Mailed
  <2>2. WorkSame(t)
    BY <1>1, WorkersStay
  <2>3. RegistrySame(t)
    BY <1>1, <1>5 DEF RegistrySame
  <2> QED BY <1>2, <2>1, <2>2, <2>3 DEF SameAt
<1>8. Sound(tag)'
  <2>1. Sound(tag)
    BY <1>3 DEF OwnerInv
  <2>2. \A a \in Nat : /\ Held(tag, a)' => Held(tag, a)
                       /\ Held(tag, a) => Held(tag, a)' \/ (tag \in DOMAIN actors /\ a = actor)
    BY <1>0, <1>1, <1>2, <1>4, <1>5, WorkersStay DEF Held, ReturnSame
  <2>3. \A a \in Nat : ActorKept(tag, a) => ActorKept(tag, a)'
    BY <1>1, <1>4, <2>2 DEF ActorKept
  <2> QED BY <1>1, <1>3, <2>1, <2>2, <2>3 DEF Sound
<1> QED BY <1>2, <1>6, <1>7, <1>8, MoveOwner

-----------------------------------------------------------------------------
(* The theorems.                                                           *)

\* Every step keeps the invariant.
LEMMA OwnerStep == TypeOK /\ OwnerInv /\ [Next]_vars => OwnerInv'
<1> SUFFICES ASSUME TypeOK, OwnerInv, [Next]_vars, LoopRuns' PROVE OwnerInv'
  BY DEF OwnerInv
<1> USE DEF loop, registry, budget, history
<1>1. CASE RunCall \/ RunShutdown \/ RunDrop \/ Tick \/ Finished \/ UNCHANGED vars
  <2>1. LoopRuns
    BY <1>1 DEF LoopRuns, RunCall, RunShutdown, RunDrop, Tick, Finished, vars
  <2> QED BY <1>1, <2>1, RunStill, StillOwner
<1>2. ASSUME NEW w \in Worker, WorkerNext(w) PROVE OwnerInv'
  <2>1. LoopRuns
    BY <1>2 DEF LoopRuns, WorkerNext, TakeMail, TakeStop, TakeShutdown, HandlerCall, HandlerNote,
       ReceivePanic, SendReturn, StopReturn, HookPanic, Drain, Drained
  <2>2. CASE TakeMail(w)
    BY <2>1, <2>2, TakeMailOwner
  <2>3. CASE SendReturn(w)
    BY <2>1, <2>3, SendReturnOwner
  <2>4. CASE HookPanic(w) /\ worker[w].pc = "on_fail"
    BY <2>1, <2>4, HookPanicOwner
  <2>5. CASE \/ TakeStop(w) \/ TakeShutdown(w) \/ HandlerCall(w) \/ HandlerNote(w)
             \/ ReceivePanic(w) \/ StopReturn(w) \/ Drain(w) \/ Drained(w)
             \/ HookPanic(w) /\ worker[w].pc = "on_stop"
    BY <2>1, <2>5, WorkerStill, StillOwner
  <2>6. HookPanic(w) => worker[w].pc \in {"on_fail", "on_stop"}
    BY DEF HookPanic
  <2> QED BY <1>2, <2>2, <2>3, <2>4, <2>5, <2>6 DEF WorkerNext
<1>3. CASE QueueBusy \/ Delay \/ Collect \/ Drop \/ Miss \/ FireTask \/ NextIteration
  <2>1. LoopRuns
    BY <1>3 DEF LoopRuns, QueueBusy, Delay, Collect, Drop, Miss, FireTask, NextIteration, Receive
  <2> QED BY <1>3, <2>1, LoopStill, StillOwner
<1>4. CASE \/ ReturnFailed \/ ReturnNext \/ ReturnIdle \/ ReturnStopped
           \/ QueueIdle \/ SpawnNew \/ StopActive
  <2>1. LoopRuns
    BY <1>4 DEF LoopRuns, ReturnFailed, ReturnNext, ReturnIdle, ReturnStopped, QueueIdle,
       SpawnNew, StopActive, Receive
  <2> QED BY <1>4, <2>1, ReturnFailedOwner, ReturnNextOwner, ReturnIdleOwner, ReturnStoppedOwner,
             QueueIdleOwner, SpawnNewOwner, StopActiveOwner
<1>5. ~(Shutdown \/ EagerExit \/ SendShutdown \/ AllNotified \/ DrainAction \/ Done)
  BY DEF LoopRuns, Shutdown, EagerExit, LeaveLoop, SendShutdown, AllNotified, DrainAction, Done
<1> QED BY <1>1, <1>2, <1>3, <1>4, <1>5 DEF Next, SchedulerNext

\* OwnerInv always holds.
THEOREM OwnersSafe == Spec => []OwnerInv
<1>1. Init => OwnerInv
  <2> SUFFICES ASSUME Init
               PROVE  /\ NoStopAsked /\ FailingHooked /\ FailedHooked
                      /\ \A tag \in Address : Sound(tag)
    BY DEF OwnerInv
  <2>1. /\ events = <<>> /\ actions = <<>> /\ DOMAIN actors = {} /\ active = {} /\ accepted = {}
        /\ \A w \in Worker : worker[w].pc = "idle"
    BY DEF Init, Idle
  <2>2. NoStopAsked /\ FailingHooked /\ FailedHooked
    BY <2>1 DEF NoStopAsked, FailingHooked, FailedHooked
  <2>3. ASSUME NEW tag \in Address
        PROVE  Sound(tag)
    <3>1. /\ ~Mailed(tag) /\ ~Returned(tag) /\ ~Worked(tag) /\ ~Waiting(tag)
          /\ Single(events, "Mail", tag) /\ Single(actions, "Return", tag)
          /\ \A w \in Worker : ~Working(w, tag)
      BY <2>1 DEF Mailed, Returned, Worked, Waiting, Working, Carrying, Some, Single
    <3>2. \A actor \in Nat : ~Held(tag, actor)
      BY <2>1 DEF Held, Has, Carries, Working, Carrying
    <3> QED BY <2>1, <3>1, <3>2 DEF Sound, OnePlace
  <2> QED BY <2>2, <2>3
<1> QED BY <1>1, OwnerStep, TypeCorrect, PTL DEF Spec

\* While event_loop runs, every active address has its actor in the map, in an
\* event, with a worker or in a Return, so its mailbox will be read; unless
\* on_fail panicked and the worker died with it.
THEOREM NobodyStranded == Spec => []ActiveHasActor
<1>1. TypeOK /\ OwnerInv => ActiveHasActor
  <2> SUFFICES ASSUME TypeOK, OwnerInv, LoopRuns, NEW tag \in active
               PROVE  \/ Carriers(tag) # {}
                      \/ \E w \in Worker : worker[w].pc = "dead" /\ worker[w].tag = tag
    BY DEF ActiveHasActor
  <2>1. Present(tag)
    BY DEF OwnerInv, Sound, TypeOK
  <2> QED BY <2>1, CarriersSome DEF Present
<1> QED BY <1>1, OwnersSafe, TypeCorrect, PTL

\* As long as nobody calls stop(), an address has at most one actor and an
\* address that failed has none: respawning it finds nothing left behind.
THEOREM BoundToOne == Spec => []BoundOnceUntilStop
<1>1. OwnerInv => BoundOnceUntilStop
  <2> SUFFICES ASSUME OwnerInv, stops = 0, LoopRuns, NEW tag \in Address
               PROVE  /\ \A a, b \in Carriers(tag) : a = b
                      /\ tag \notin active => Carriers(tag) = {}
    BY DEF BoundOnceUntilStop
  <2>1. OnePlace(tag)
    BY DEF OwnerInv, Sound
  <2>2. tag \notin active => Carriers(tag) = {}
    BY <2>1, CarriersSome DEF OnePlace
  <2>3. ASSUME NEW a \in Carriers(tag), NEW b \in Carriers(tag) PROVE a = b
    <3> DEFINE At(c) == \/ Has(events, "Mail", tag, c) \/ Has(actions, "Return", tag, c)
                        \/ \E w \in Worker : Carries(w, tag, c)
                        \/ tag \in DOMAIN actors /\ actors[tag] = c
    <3>1. At(a) /\ At(b)
      BY CarriersAre
    <3>2. \A c : /\ Has(events, "Mail", tag, c) => Mailed(tag)
                 /\ Has(actions, "Return", tag, c) => Returned(tag)
                 /\ (\E w \in Worker : Carries(w, tag, c)) => Worked(tag)
      BY DEF Has, Mailed, Returned, Some, Worked, Carries
    <3>3. \A c, d : /\ Has(events, "Mail", tag, c) /\ Has(events, "Mail", tag, d) => c = d
                    /\ Has(actions, "Return", tag, c) /\ Has(actions, "Return", tag, d) => c = d
      BY <2>1 DEF OnePlace, Single, Has
    <3>4. \A c, d : (\E w \in Worker : Carries(w, tag, c)) /\ (\E w \in Worker : Carries(w, tag, d)) => c = d
      BY <2>1 DEF OnePlace, Carries
    <3> QED BY <2>1, <3>1, <3>2, <3>3, <3>4 DEF OnePlace, Waiting
  <2> QED BY <2>2, <2>3
<1> QED BY <1>1, OwnersSafe, PTL

\* While event_loop runs, the only actor accepted under an address is never
\* dropped without a hook: it is held somewhere, on its way to on_stop, or had
\* its on_stop or on_fail.
THEOREM NobodyVanishes == Spec => []NoSilentDrop
<1>1. TypeOK /\ OwnerInv => NoSilentDrop
  <2> SUFFICES ASSUME TypeOK, OwnerInv, LoopRuns, NEW p \in accepted
               PROVE  \/ p[1] \in hooked
                      \/ p[1] \in Carriers(p[2])
                      \/ \E i \in DOMAIN events : events[i] = StopEvent(p[2], p[1])
                      \/ \E q \in accepted : q[2] = p[2] /\ q # p
    BY DEF NoSilentDrop
  <2>1. p[1] \in Nat /\ p[2] \in Address /\ p = <<p[1], p[2]>>
    BY DEF TypeOK
  <2>2. PICK actor \in Nat, tag \in Address : p = <<actor, tag>> /\ actor = p[1] /\ tag = p[2]
    BY <2>1
  <2>3. ActorKept(tag, actor)
    BY <2>2 DEF OwnerInv, Sound
  <2>4. Held(tag, actor) => actor \in Carriers(tag)
    BY CarriersAre DEF Held
  <2>5. Has(events, "Stop", tag, actor) => \E i \in DOMAIN events : events[i] = StopEvent(tag, actor)
    <3>1. \A i \in DOMAIN events : events[i] \in Event
      BY DEF TypeOK
    <3> QED BY <3>1 DEF Has, StopEvent, Event
  <2>6. ASSUME NEW other \in Nat, <<other, tag>> \in accepted, other # actor
        PROVE  \E q \in accepted : q[2] = p[2] /\ q # p
    BY <2>2, <2>6
  <2> QED BY <2>2, <2>3, <2>4, <2>5, <2>6 DEF ActorKept
<1> QED BY <1>1, OwnersSafe, TypeCorrect, PTL

=============================================================================
