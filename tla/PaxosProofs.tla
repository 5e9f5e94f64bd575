---------------------------- MODULE PaxosProofs ----------------------------
(***************************************************************************)
(* Theorems about Paxos, for any agents, clients and bound of the ballots. *)
(***************************************************************************)
EXTENDS Paxos, SequenceTheorems, FiniteSetTheorems, WellFoundedInduction, TLAPS

AgentState ==
  [val : Val, seq : Nat, seq_promised : Nat, seq_accepted : Nat,
   promised : SUBSET Agent, accepted : SUBSET Agent,
   clients : SUBSET Client, storage : Seq([seq : Nat, val : Val])]
ClientState == [asked : BOOLEAN, done : BOOLEAN, log : Seq(Val)]
ChanState == [Node -> [Node -> Seq(Message)]]
Outbox == [Node -> Seq(Message)]

-----------------------------------------------------------------------------
(* Messages.                                                               *)

\* The fields of a message depend on its type.
LEMMA Fields ==
  ASSUME NEW m \in Message
  PROVE  /\ m.type = "Request" => m.val \in Client
         /\ m.type \in {"Prepare", "Promise", "Ignored", "Rejected"} => m.seq \in Nat
         /\ m.type \in {"Accept", "Accepted", "Selected"} =>
              /\ m.seq \in Nat /\ m.val \in Val
              /\ m \in [type : {"Accept", "Accepted", "Selected"}, seq : Nat, val : Val]
BY DEF Message

\* What n sends to targets.
LEMMA ToOK ==
  ASSUME NEW targets, NEW m \in Message
  PROVE  /\ To(targets, m) \in Outbox
         /\ \A y \in Node : To(targets, m)[y] = IF y \in targets THEN <<m>> ELSE <<>>
<1>1. <<m>> \in Seq(Message) /\ <<>> \in Seq(Message)
  OBVIOUS
<1> QED BY <1>1 DEF To, Outbox

LEMMA NothingOK == Nothing \in Outbox /\ \A y \in Node : Nothing[y] = <<>>
BY DEF Nothing, Outbox

\* A message that n receives from s is there.
LEMMA ReceivedIs ==
  ASSUME TypeOK, NEW s \in Node, NEW n \in Node, NEW type, type # None, Received(s, n, type)
  PROVE  /\ chan[s][n] \in Seq(Message) /\ chan[s][n] # <<>>
         /\ Head(chan[s][n]) \in Message /\ Head(chan[s][n]).type = type
         /\ Head(chan[s][n]) = chan[s][n][1] /\ 1 \in DOMAIN chan[s][n]
<1>1. chan[s][n] \in Seq(Message)
  BY DEF TypeOK
<1>2. chan[s][n] # <<>>
  BY DEF Received, Incoming
<1>3. Head(chan[s][n]).type = type
  BY <1>2 DEF Received, Incoming
<1> QED BY <1>1, <1>2, <1>3

\* The channels after a message from s to n and its answer.
Rest(s, n, x, y) == IF x = s /\ y = n THEN Tail(chan[x][y]) ELSE chan[x][y]
LEMMA RespondOK ==
  ASSUME TypeOK, NEW s \in Node, NEW n \in Node, NEW out \in Outbox,
         chan[s][n] # <<>>, Respond(s, n, out)
  PROVE  /\ chan' \in ChanState
         /\ \A x, y \in Node :
              /\ Rest(s, n, x, y) \in Seq(Message)
              /\ chan'[x][y] = IF x = n THEN Rest(s, n, x, y) \o out[y] ELSE Rest(s, n, x, y)
<1> DEFINE After(x, y) == Rest(s, n, x, y) \o (IF x = n THEN out[y] ELSE <<>>)
<1>1. chan' = [x \in Node |-> [y \in Node |-> After(x, y)]]
  BY DEF Respond, Rest
<1>2. ASSUME NEW x \in Node, NEW y \in Node
      PROVE  /\ Rest(s, n, x, y) \in Seq(Message) /\ After(x, y) \in Seq(Message)
             /\ After(x, y) = IF x = n THEN Rest(s, n, x, y) \o out[y] ELSE Rest(s, n, x, y)
  <2>1. chan[x][y] \in Seq(Message) /\ out[y] \in Seq(Message)
    BY DEF TypeOK, Outbox
  <2>2. Rest(s, n, x, y) \in Seq(Message)
    BY <2>1 DEF Rest
  <2>3. Rest(s, n, x, y) \o <<>> = Rest(s, n, x, y)
    BY <2>2
  <2>4. Rest(s, n, x, y) \o out[y] \in Seq(Message)
    BY <2>1, <2>2
  <2> QED BY <2>2, <2>3, <2>4
<1> HIDE DEF After
<1>3. chan' \in ChanState /\ \A x, y \in Node : chan'[x][y] = After(x, y)
  BY <1>1, <1>2 DEF ChanState
<1> QED BY <1>2, <1>3

-----------------------------------------------------------------------------
(* What a message makes an agent do.                                       *)

\* a receives a message from b, steps to s and sends m to targets.
Handles(a, b, s, targets, m) ==
  /\ chan[b][a] # <<>>
  /\ agent' = [agent EXCEPT ![a] = s] /\ UNCHANGED client
  /\ Respond(b, a, To(targets, m))

\* The answers that select nothing, by the type of what is answered.
Answers(b, type, targets, m) ==
  \/ type \notin {"Request", "Selected"} /\ targets = {}
  \/ type = "Request" /\ targets = Agent /\ m.type = "Prepare"
  \/ type = "Prepare" /\ targets = {b} /\ m.type \in {"Promise", "Ignored"}
  \/ type = "Promise" /\ targets = Agent /\ m.type = "Accept"
  \/ type = "Accept" /\ targets = {b} /\ m.type \in {"Accepted", "Rejected"}

\* What becomes of a's value and ballots when it answers h with m to targets.
Ballots(a, h, s, targets, m) ==
  /\ s.val = IF h.type = "Request" THEN h.val ELSE agent[a].val
  /\ s.seq = agent[a].seq \/ (h.type \in {"Prepare", "Selected"} /\ s.seq = h.seq)
  /\ \/ s.seq_promised = agent[a].seq_promised /\ (targets = {} \/ m.type # "Accept")
     \/ /\ h.type = "Promise" /\ h.seq > agent[a].seq_promised /\ s.seq_promised = h.seq
        /\ m.type = "Accept" /\ m.val = agent[a].val
  /\ targets # {} =>
       /\ m.type = "Prepare" => m.seq = agent[a].seq + 1
       /\ m.type # "Prepare" => m.seq = h.seq
       /\ m.type \in {"Accepted", "Selected"} => m.val = h.val

\* A step that selects nothing and stores nothing.
Quiet(a, b, s, targets, m) ==
  /\ Handles(a, b, s, targets, m)
  /\ Answers(b, Head(chan[b][a]).type, targets, m)
  /\ Ballots(a, Head(chan[b][a]), s, targets, m)
  /\ s.storage = agent[a].storage /\ s.seq_accepted = agent[a].seq_accepted
  /\ s.clients = IF Head(chan[b][a]).type = "Request" THEN agent[a].clients \cup {b}
                 ELSE agent[a].clients

\* A step that selects: a quorum has accepted.
Selects(a, b, s, m) ==
  /\ Handles(a, b, s, Agent, m)
  /\ Head(chan[b][a]).type = "Accepted"
  /\ m.type = "Selected" /\ m.seq > agent[a].seq_accepted
  /\ Ballots(a, Head(chan[b][a]), s, Agent, m)
  /\ s.storage = agent[a].storage /\ s.seq_accepted = m.seq /\ s.clients = agent[a].clients

\* A step that stores what was selected, and passes it on to the clients.
Stores(a, b, s, m) ==
  /\ Handles(a, b, s, agent[a].clients, m)
  /\ m = Head(chan[b][a]) /\ m.type = "Selected"
  /\ Ballots(a, m, s, agent[a].clients, m) /\ s.seq = m.seq
  /\ s.storage = Append(agent[a].storage, [seq |-> m.seq, val |-> m.val])
  /\ s.seq_accepted = agent[a].seq_accepted /\ s.clients = agent[a].clients

\* An agent is in Node, and agents are no clients.
LEMMA Nodes ==
  /\ \A a \in Agent : a \in Node /\ a \notin Client
  /\ \A c \in Client : c \in Node /\ c \notin Agent /\ Target[c] \in Agent
BY PaxosAssumption DEF Node

\* An agent may step to its own state.
LEMMA SameAgent ==
  ASSUME TypeOK, NEW a \in Agent
  PROVE  agent[a] \in AgentState /\ agent = [agent EXCEPT ![a] = agent[a]]
BY DEF TypeOK, AgentState

\* Nobody is sent nothing.
LEMMA NothingIs == \A m : Nothing = To({}, m)
BY DEF Nothing, To

LEMMA RequestIs ==
  ASSUME TypeOK, NEW a \in Agent, NEW c \in Client, Request(a, c)
  PROVE  \E s \in AgentState, targets \in SUBSET Agent, m \in Message : Quiet(a, c, s, targets, m)
<1> DEFINE h == Head(chan[c][a])
           clients == agent[a].clients \cup {c}
           s == [agent[a] EXCEPT !.val = h.val, !.clients = clients]
           m == [type |-> "Prepare", seq |-> agent[a].seq + 1]
<1>1. chan[c][a] # <<>> /\ h \in Message /\ h.type = "Request"
  BY Nodes, ReceivedIs DEF Request, None
<1>2. agent[a] \in AgentState
  BY SameAgent
<1>3. m \in Message
  BY <1>2 DEF AgentState, Message
<1>4. h.val \in Val
  BY <1>1, Fields DEF Val
<1>5. agent' = [agent EXCEPT ![a] = s] /\ Respond(c, a, To(Agent, m)) /\ UNCHANGED client
  BY DEF Request, Registered, peers
<1> HIDE DEF h, m
<1>6. s \in AgentState /\ s.storage = agent[a].storage /\ s.clients = clients
      /\ s.seq_accepted = agent[a].seq_accepted /\ s.val = h.val /\ s.seq = agent[a].seq
      /\ s.seq_promised = agent[a].seq_promised
  BY <1>2, <1>4 DEF AgentState
<1>7. m.type = "Prepare" /\ m.seq = agent[a].seq + 1
  BY DEF m
<1> HIDE DEF s
<1>8. Ballots(a, h, s, Agent, m)
  BY <1>1, <1>6, <1>7 DEF Ballots
<1>9. Quiet(a, c, s, Agent, m)
  BY <1>1, <1>5, <1>6, <1>7, <1>8 DEF Quiet, Handles, Answers, h
<1> QED BY <1>3, <1>6, <1>9

LEMMA PrepareIs ==
  ASSUME TypeOK, NEW a \in Agent, NEW b \in Agent, Prepare(a, b)
  PROVE  \E s \in AgentState, targets \in SUBSET Agent, m \in Message : Quiet(a, b, s, targets, m)
<1> DEFINE h == Head(chan[b][a])
           s == [agent[a] EXCEPT !.seq = h.seq]
           Reply(type) == [type |-> type, seq |-> h.seq]
<1>1. chan[b][a] # <<>> /\ h \in Message /\ h.type = "Prepare"
  BY Nodes, ReceivedIs DEF Prepare, None
<1>2. agent[a] \in AgentState /\ agent = [agent EXCEPT ![a] = agent[a]]
  BY SameAgent
<1>3. h.seq \in Nat
  BY <1>1, Fields
<1>4. \/ agent' = [agent EXCEPT ![a] = s] /\ Respond(b, a, To({b}, Reply("Promise")))
      \/ UNCHANGED agent /\ Respond(b, a, To({b}, Reply("Ignored")))
  BY DEF Prepare
<1>5. UNCHANGED client
  BY DEF Prepare
<1> HIDE DEF h
<1>6. \A type \in {"Promise", "Ignored"} :
        Reply(type) \in Message /\ Reply(type).type = type /\ Reply(type).seq = h.seq
  BY <1>3 DEF Message
<1>7. s \in AgentState /\ s.storage = agent[a].storage /\ s.clients = agent[a].clients
      /\ s.seq_accepted = agent[a].seq_accepted /\ s.val = agent[a].val /\ s.seq = h.seq
      /\ s.seq_promised = agent[a].seq_promised
  BY <1>2, <1>3 DEF AgentState
<1> HIDE DEF s, Reply
<1>8. CASE agent' = [agent EXCEPT ![a] = s] /\ Respond(b, a, To({b}, Reply("Promise")))
  <2>1. Ballots(a, h, s, {b}, Reply("Promise"))
    BY <1>1, <1>6, <1>7 DEF Ballots
  <2>2. Quiet(a, b, s, {b}, Reply("Promise"))
    BY <1>1, <1>5, <1>6, <1>7, <1>8, <2>1 DEF Quiet, Handles, Answers, h
  <2> QED BY <1>6, <1>7, <2>2
<1>9. CASE UNCHANGED agent /\ Respond(b, a, To({b}, Reply("Ignored")))
  <2>1. Ballots(a, h, agent[a], {b}, Reply("Ignored"))
    BY <1>1, <1>6 DEF Ballots
  <2>2. Quiet(a, b, agent[a], {b}, Reply("Ignored"))
    BY <1>1, <1>2, <1>5, <1>6, <1>9, <2>1 DEF Quiet, Handles, Answers, h
  <2> QED BY <1>2, <1>6, <2>2
<1> QED BY <1>4, <1>8, <1>9

LEMMA PromiseIs ==
  ASSUME TypeOK, NEW a \in Agent, NEW b \in Agent, Promise(a, b)
  PROVE  \E s \in AgentState, targets \in SUBSET Agent, m \in Message : Quiet(a, b, s, targets, m)
<1> DEFINE h == Head(chan[b][a])
           promised == agent[a].promised \cup {b}
           s == [agent[a] EXCEPT !.promised = {}, !.seq_promised = h.seq]
           t == [agent[a] EXCEPT !.promised = promised]
           m == [type |-> "Accept", seq |-> h.seq, val |-> agent[a].val]
<1>1. chan[b][a] # <<>> /\ h \in Message /\ h.type = "Promise"
  BY Nodes, ReceivedIs DEF Promise, None
<1>2. agent[a] \in AgentState
  BY SameAgent
<1>3. h.seq \in Nat
  BY <1>1, Fields
<1>4. \/ agent' = [agent EXCEPT ![a] = s] /\ Respond(b, a, To(Agent, m))
      \/ agent' = [agent EXCEPT ![a] = t] /\ Respond(b, a, To({}, h))
  BY NothingIs DEF Promise, peers
<1>5. UNCHANGED client /\ h.seq > agent[a].seq_promised
  BY DEF Promise
<1> HIDE DEF h
<1>6. m \in Message /\ m.type = "Accept" /\ m.seq = h.seq /\ m.val = agent[a].val
  BY <1>2, <1>3 DEF AgentState, Message
<1>7. s \in AgentState /\ s.storage = agent[a].storage /\ s.clients = agent[a].clients
      /\ s.seq_accepted = agent[a].seq_accepted /\ s.val = agent[a].val /\ s.seq = agent[a].seq
      /\ s.seq_promised = h.seq
  BY <1>2, <1>3 DEF AgentState
<1>8. t \in AgentState /\ t.storage = agent[a].storage /\ t.clients = agent[a].clients
      /\ t.seq_accepted = agent[a].seq_accepted /\ t.val = agent[a].val /\ t.seq = agent[a].seq
      /\ t.seq_promised = agent[a].seq_promised
  BY <1>2 DEF AgentState
<1> HIDE DEF s, t, m
<1>9. CASE agent' = [agent EXCEPT ![a] = s] /\ Respond(b, a, To(Agent, m))
  <2>1. Ballots(a, h, s, Agent, m)
    BY <1>1, <1>5, <1>6, <1>7 DEF Ballots
  <2>2. Quiet(a, b, s, Agent, m)
    BY <1>1, <1>5, <1>6, <1>7, <1>9, <2>1 DEF Quiet, Handles, Answers, h
  <2> QED BY <1>6, <1>7, <2>2
<1>10. CASE agent' = [agent EXCEPT ![a] = t] /\ Respond(b, a, To({}, h))
  <2>1. Ballots(a, h, t, {}, h)
    BY <1>1, <1>8 DEF Ballots
  <2>2. Quiet(a, b, t, {}, h)
    BY <1>1, <1>5, <1>8, <1>10, <2>1 DEF Quiet, Handles, Answers, h
  <2> QED BY <1>1, <1>8, <2>2
<1> QED BY <1>4, <1>9, <1>10

LEMMA AcceptIs ==
  ASSUME TypeOK, NEW a \in Agent, NEW b \in Agent, Accept(a, b)
  PROVE  \E s \in AgentState, targets \in SUBSET Agent, m \in Message : Quiet(a, b, s, targets, m)
<1> DEFINE h == Head(chan[b][a])
           m == IF h.seq >= agent[a].seq THEN [h EXCEPT !.type = "Accepted"]
                ELSE [type |-> "Rejected", seq |-> h.seq]
<1>1. chan[b][a] # <<>> /\ h \in Message /\ h.type = "Accept"
  BY Nodes, ReceivedIs DEF Accept, None
<1>2. agent[a] \in AgentState /\ agent = [agent EXCEPT ![a] = agent[a]]
  BY SameAgent
<1>3. Respond(b, a, To({b}, m)) /\ UNCHANGED <<agent, client>>
  BY DEF Accept
<1>4. h \in [type : {"Accept", "Accepted", "Selected"}, seq : Nat, val : Val]
  BY <1>1, Fields
<1> HIDE DEF h
<1>5. /\ m \in Message /\ m.type \in {"Accepted", "Rejected"} /\ m.seq = h.seq
      /\ m.type = "Accepted" => m.val = h.val
  BY <1>4 DEF Message
<1> HIDE DEF m
<1>6. Ballots(a, h, agent[a], {b}, m)
  BY <1>1, <1>5 DEF Ballots
<1>7. Quiet(a, b, agent[a], {b}, m)
  BY <1>1, <1>2, <1>3, <1>5, <1>6 DEF Quiet, Handles, Answers, h
<1> QED BY <1>2, <1>5, <1>7

LEMMA DiscardIs ==
  ASSUME TypeOK, NEW a \in Agent, NEW b \in Agent, Discard(a, b)
  PROVE  \E s \in AgentState, targets \in SUBSET Agent, m \in Message : Quiet(a, b, s, targets, m)
<1> DEFINE h == Head(chan[b][a])
<1>1. Incoming(b, a).type \in {"Ignored", "Rejected", "Promise", "Accepted"}
  BY DEF Discard
<1>2. chan[b][a] # <<>> /\ h.type \in {"Ignored", "Rejected", "Promise", "Accepted"}
  BY <1>1 DEF Incoming, None
<1>3. h \in Message
  <2>1. chan[b][a] \in Seq(Message)
    BY Nodes DEF TypeOK
  <2> QED BY <1>2, <2>1
<1>4. agent[a] \in AgentState /\ agent = [agent EXCEPT ![a] = agent[a]]
  BY SameAgent
<1>5. Respond(b, a, To({}, h)) /\ UNCHANGED <<agent, client>>
  BY NothingIs DEF Discard
<1>6. Ballots(a, h, agent[a], {}, h)
  BY <1>2 DEF Ballots
<1>7. Quiet(a, b, agent[a], {}, h)
  BY <1>2, <1>4, <1>5, <1>6 DEF Quiet, Handles, Answers
<1> QED BY <1>3, <1>4, <1>7

LEMMA AcceptedIs ==
  ASSUME TypeOK, NEW a \in Agent, NEW b \in Agent, Accepted(a, b)
  PROVE  \/ \E s \in AgentState, targets \in SUBSET Agent, m \in Message : Quiet(a, b, s, targets, m)
         \/ \E s \in AgentState, m \in Message : Selects(a, b, s, m)
<1> DEFINE h == Head(chan[b][a])
           accepted == agent[a].accepted \cup {b}
           s == [agent[a] EXCEPT !.accepted = {}, !.seq_accepted = h.seq]
           t == [agent[a] EXCEPT !.accepted = accepted]
           m == [h EXCEPT !.type = "Selected"]
<1>1. chan[b][a] # <<>> /\ h \in Message /\ h.type = "Accepted"
  BY Nodes, ReceivedIs DEF Accepted, None
<1>2. agent[a] \in AgentState
  BY SameAgent
<1>3. h \in [type : {"Accept", "Accepted", "Selected"}, seq : Nat, val : Val]
  BY <1>1, Fields
<1>4. \/ agent' = [agent EXCEPT ![a] = s] /\ Respond(b, a, To(Agent, m))
      \/ agent' = [agent EXCEPT ![a] = t] /\ Respond(b, a, To({}, h))
  BY NothingIs DEF Accepted, peers
<1>5. UNCHANGED client /\ h.seq > agent[a].seq_accepted
  BY DEF Accepted, FreshAccepted
<1> HIDE DEF h
<1>6. m \in Message /\ m.type = "Selected" /\ m.seq = h.seq /\ m.val = h.val
  BY <1>3 DEF Message
<1>7. s \in AgentState /\ s.storage = agent[a].storage /\ s.clients = agent[a].clients
      /\ s.seq_accepted = h.seq /\ s.val = agent[a].val /\ s.seq = agent[a].seq
      /\ s.seq_promised = agent[a].seq_promised
  BY <1>2, <1>3 DEF AgentState
<1>8. t \in AgentState /\ t.storage = agent[a].storage /\ t.clients = agent[a].clients
      /\ t.seq_accepted = agent[a].seq_accepted /\ t.val = agent[a].val /\ t.seq = agent[a].seq
      /\ t.seq_promised = agent[a].seq_promised
  BY <1>2 DEF AgentState
<1> HIDE DEF s, t, m
<1>9. CASE agent' = [agent EXCEPT ![a] = s] /\ Respond(b, a, To(Agent, m))
  <2>1. Ballots(a, h, s, Agent, m)
    BY <1>1, <1>6, <1>7 DEF Ballots
  <2>2. Selects(a, b, s, m)
    BY <1>1, <1>5, <1>6, <1>7, <1>9, <2>1 DEF Selects, Handles, h
  <2> QED BY <1>6, <1>7, <2>2
<1>10. CASE agent' = [agent EXCEPT ![a] = t] /\ Respond(b, a, To({}, h))
  <2>1. Ballots(a, h, t, {}, h)
    BY <1>1, <1>8 DEF Ballots
  <2>2. Quiet(a, b, t, {}, h)
    BY <1>1, <1>5, <1>8, <1>10, <2>1 DEF Quiet, Handles, Answers, h
  <2> QED BY <1>1, <1>8, <2>2
<1> QED BY <1>4, <1>9, <1>10

LEMMA SelectedIs ==
  ASSUME TypeOK, NEW a \in Agent, NEW b \in Agent, Selected(a, b)
  PROVE  \E s \in AgentState, m \in Message : Stores(a, b, s, m)
<1> DEFINE h == Head(chan[b][a])
           storage == Append(agent[a].storage, [seq |-> h.seq, val |-> h.val])
           s == [agent[a] EXCEPT !.seq = h.seq, !.promised = {}, !.storage = storage]
<1>1. chan[b][a] # <<>> /\ h \in Message /\ h.type = "Selected"
  BY Nodes, ReceivedIs DEF Selected, None
<1>2. agent[a] \in AgentState
  BY SameAgent
<1>3. h.seq \in Nat /\ h.val \in Val
  BY <1>1, Fields
<1>4. agent' = [agent EXCEPT ![a] = s] /\ Respond(b, a, To(agent[a].clients, h)) /\ UNCHANGED client
  BY DEF Selected, Informed
<1> HIDE DEF h
<1>5. storage \in Seq([seq : Nat, val : Val])
  BY <1>2, <1>3 DEF AgentState
<1> HIDE DEF storage
<1>6. s \in AgentState /\ s.storage = storage /\ s.clients = agent[a].clients
      /\ s.seq_accepted = agent[a].seq_accepted /\ s.val = agent[a].val /\ s.seq = h.seq
      /\ s.seq_promised = agent[a].seq_promised
  BY <1>2, <1>3, <1>5 DEF AgentState
<1> HIDE DEF s
<1>7. Ballots(a, h, s, agent[a].clients, h)
  BY <1>1, <1>6 DEF Ballots
<1>8. Stores(a, b, s, h)
  BY <1>1, <1>4, <1>6, <1>7 DEF Stores, Handles, h, storage
<1> QED BY <1>1, <1>6, <1>8

\* Every step of an agent is one of the three.
Quietly(a, b) ==
  \E s \in AgentState, targets \in SUBSET Agent, m \in Message : Quiet(a, b, s, targets, m)
Selecting(a, b) == \E s \in AgentState, m \in Message : Selects(a, b, s, m)
Storing(a, b) == \E s \in AgentState, m \in Message : Stores(a, b, s, m)
LEMMA AgentSteps ==
  ASSUME TypeOK, NEW a \in Agent, NEW b \in Agent, AgentNext(a, b)
  PROVE  Quietly(a, b) \/ Selecting(a, b) \/ Storing(a, b)
BY PrepareIs, PromiseIs, AcceptIs, DiscardIs, AcceptedIs, SelectedIs
   DEF AgentNext, Quietly, Selecting, Storing

\* The state after it.
LEMMA HandlesOK ==
  ASSUME TypeOK, NEW a \in Agent, NEW b \in Node, NEW s \in AgentState, NEW targets,
         NEW m \in Message, Handles(a, b, s, targets, m)
  PROVE  /\ TypeOK' /\ agent'[a] = s /\ \A x \in Agent : x # a => agent'[x] = agent[x]
         /\ client' = client
         /\ \A x, y \in Node :
              /\ Rest(b, a, x, y) \in Seq(Message)
              /\ chan'[x][y] = IF x = a /\ y \in targets THEN Append(Rest(b, a, x, y), m)
                               ELSE Rest(b, a, x, y)
<1> DEFINE out == To(targets, m)
<1>1. /\ chan[b][a] # <<>> /\ agent' = [agent EXCEPT ![a] = s]
      /\ client' = client /\ Respond(b, a, out)
  BY DEF Handles
<1>2. out \in Outbox /\ \A y \in Node : out[y] = IF y \in targets THEN <<m>> ELSE <<>>
  BY ToOK
<1> HIDE DEF out
<1>3. /\ chan' \in ChanState
      /\ \A x, y \in Node :
           /\ Rest(b, a, x, y) \in Seq(Message)
           /\ chan'[x][y] = IF x = a THEN Rest(b, a, x, y) \o out[y] ELSE Rest(b, a, x, y)
  BY <1>1, <1>2, Nodes, RespondOK
<1>4. ASSUME NEW x \in Node, NEW y \in Node
      PROVE  /\ Rest(b, a, x, y) \in Seq(Message)
             /\ chan'[x][y] = IF x = a /\ y \in targets THEN Append(Rest(b, a, x, y), m)
                              ELSE Rest(b, a, x, y)
  <2>1. /\ Rest(b, a, x, y) \in Seq(Message)
        /\ chan'[x][y] = IF x = a THEN Rest(b, a, x, y) \o out[y] ELSE Rest(b, a, x, y)
    BY <1>3
  <2>2. out[y] = IF y \in targets THEN <<m>> ELSE <<>>
    BY <1>2
  <2>3. /\ Rest(b, a, x, y) \o <<m>> = Append(Rest(b, a, x, y), m)
        /\ Rest(b, a, x, y) \o <<>> = Rest(b, a, x, y)
    BY <2>1
  <2> QED BY <2>1, <2>2, <2>3
<1>5. /\ agent' \in [Agent -> AgentState] /\ agent'[a] = s
      /\ \A x \in Agent : x # a => agent'[x] = agent[x]
  BY <1>1 DEF TypeOK, AgentState
<1>6. TypeOK'
  BY <1>1, <1>3, <1>5 DEF TypeOK, AgentState, ChanState
<1> QED BY <1>1, <1>4, <1>5, <1>6

-----------------------------------------------------------------------------
(* What a client does.                                                     *)

\* The client asks; or is told something and asks again, or is done.
Asks(c, x, y, q) == IF x = c /\ y = Target[c] THEN Append(q, Ask(c)) ELSE q

LEMMA SetupIs ==
  ASSUME TypeOK, NEW c \in Client, Setup(c)
  PROVE  /\ TypeOK' /\ agent' = agent /\ ~client[c].asked /\ client'[c].asked
         /\ \A d \in Client : client'[d].log = client[d].log /\ client'[d].done = client[d].done
         /\ \A d \in Client : d # c => client'[d] = client[d]
         /\ \A x, y \in Node : chan'[x][y] = Asks(c, x, y, chan[x][y])
<1> DEFINE t == Target[c]
           q == Append(chan[c][t], Ask(c))
           line == [chan[c] EXCEPT ![t] = q]
           s == [client[c] EXCEPT !.asked = TRUE]
<1>1. c \in Node /\ t \in Node /\ Ask(c) \in Message
  BY Nodes DEF Ask, Message
<1>2. chan[c] \in [Node -> Seq(Message)] /\ chan[c][t] \in Seq(Message)
  BY <1>1 DEF TypeOK
<1>3. chan' = [chan EXCEPT ![c] = line] /\ client' = [client EXCEPT ![c] = s] /\ agent' = agent
  BY DEF Setup
<1>4. q \in Seq(Message)
  BY <1>1, <1>2
<1> HIDE DEF t
<1>5. line \in [Node -> Seq(Message)] /\ \A y \in Node : line[y] = IF y = t THEN q ELSE chan[c][y]
  <2> HIDE DEF q
  <2> QED BY <1>1, <1>2, <1>4
<1> HIDE DEF line
<1>6. chan' \in ChanState /\ \A x \in Node : chan'[x] = IF x = c THEN line ELSE chan[x]
  BY <1>1, <1>3, <1>5 DEF TypeOK, ChanState
<1>7. ASSUME NEW x \in Node, NEW y \in Node PROVE chan'[x][y] = Asks(c, x, y, chan[x][y])
  <2>1. CASE x = c
    <3>1. chan'[x][y] = line[y]
      BY <1>6, <2>1
    <3> QED BY <1>5, <2>1, <3>1 DEF Asks, t
  <2>2. CASE x # c
    BY <1>6, <2>2 DEF Asks
  <2> QED BY <2>1, <2>2
<1>8. s \in ClientState /\ s.log = client[c].log /\ s.done = client[c].done /\ s.asked
  BY DEF TypeOK, ClientState
<1> HIDE DEF s
<1>9. /\ client' \in [Client -> ClientState] /\ client'[c] = s
      /\ \A d \in Client : d # c => client'[d] = client[d]
  BY <1>3, <1>8 DEF TypeOK, ClientState
<1>10. TypeOK'
  BY <1>3, <1>6, <1>9 DEF TypeOK, ChanState, ClientState
<1>11. ~client[c].asked
  BY DEF Setup
<1> QED BY <1>3, <1>7, <1>8, <1>9, <1>10, <1>11

\* The client adds what it is told to its log.
LEMMA ToldIs ==
  ASSUME TypeOK, NEW c \in Client, NEW a \in Agent, Told(c, a)
  PROVE  /\ TypeOK' /\ agent' = agent /\ chan[a][c] \in Seq(Message) /\ chan[a][c] # <<>>
         /\ client'[c].log = Append(client[c].log, Head(chan[a][c]).val)
         /\ \A d \in Client : d # c => client'[d] = client[d]
         /\ client'[c].asked = client[c].asked
         /\ \A x, y \in Node : /\ Rest(a, c, x, y) \in Seq(Message)
                               /\ \/ chan'[x][y] = Rest(a, c, x, y)
                                  \/ chan'[x][y] = Asks(c, x, y, Rest(a, c, x, y))
         /\ client[c].done \/ Head(chan[a][c]).val = c =>
              /\ client'[c].done
              /\ \A x, y \in Node : chan'[x][y] = Rest(a, c, x, y)
<1> DEFINE h == Head(chan[a][c])
           done == client[c].done \/ h.val = c
           log == Append(client[c].log, h.val)
           s == [client[c] EXCEPT !.log = log, !.done = done]
           out == IF done THEN Nothing ELSE To({Target[c]}, Ask(c))
<1>1. a \in Node /\ c \in Node /\ Target[c] \in Node /\ Ask(c) \in Message
  BY Nodes DEF Ask, Message
<1>2. chan[a][c] \in Seq(Message) /\ chan[a][c] # <<>> /\ h \in Message /\ h.type = "Selected"
  BY <1>1, ReceivedIs DEF Told, None
<1>3. client' = [client EXCEPT ![c] = s] /\ Respond(a, c, out) /\ agent' = agent
  BY DEF Told
<1>4. h.val \in Val
  BY <1>2, Fields
<1>5. done \in BOOLEAN
  <2>1. client[c].done \in BOOLEAN
    BY DEF TypeOK
  <2> QED BY <2>1, Zenon
<1>6. /\ out \in Outbox
      /\ \A y \in Node : out[y] = <<>> \/ (~done /\ y = Target[c] /\ out[y] = <<Ask(c)>>)
  <2>1. out = Nothing \/ (~done /\ out = To({Target[c]}, Ask(c)))
    OBVIOUS
  <2> HIDE DEF out
  <2>2. CASE out = Nothing
    BY <2>2, NothingOK
  <2>3. CASE ~done /\ out = To({Target[c]}, Ask(c))
    <3>1. /\ out \in Outbox
          /\ \A y \in Node : out[y] = IF y \in {Target[c]} THEN <<Ask(c)>> ELSE <<>>
      BY <1>1, <2>3, ToOK
    <3> QED BY <2>3, <3>1
  <2> QED BY <2>1, <2>2, <2>3
<1> HIDE DEF out, done
<1>7. /\ chan' \in ChanState
      /\ \A x, y \in Node :
           /\ Rest(a, c, x, y) \in Seq(Message)
           /\ chan'[x][y] = IF x = c THEN Rest(a, c, x, y) \o out[y] ELSE Rest(a, c, x, y)
  BY <1>1, <1>2, <1>3, <1>6, RespondOK
<1>8. ASSUME NEW x \in Node, NEW y \in Node
      PROVE  /\ Rest(a, c, x, y) \in Seq(Message)
             /\ \/ chan'[x][y] = Rest(a, c, x, y)
                \/ ~done /\ chan'[x][y] = Asks(c, x, y, Rest(a, c, x, y))
  <2>1. /\ Rest(a, c, x, y) \in Seq(Message)
        /\ chan'[x][y] = IF x = c THEN Rest(a, c, x, y) \o out[y] ELSE Rest(a, c, x, y)
    BY <1>7
  <2>2. /\ Rest(a, c, x, y) \o <<>> = Rest(a, c, x, y)
        /\ Rest(a, c, x, y) \o <<Ask(c)>> = Append(Rest(a, c, x, y), Ask(c))
    BY <1>1, <2>1
  <2>3. out[y] = <<>> \/ (~done /\ y = Target[c] /\ out[y] = <<Ask(c)>>)
    BY <1>6
  <2> QED BY <2>1, <2>2, <2>3 DEF Asks
<1> HIDE DEF h
<1>9. log \in Seq(Val)
  BY <1>4 DEF TypeOK
<1> HIDE DEF log
<1>10. s \in ClientState /\ s.log = log /\ s.asked = client[c].asked /\ s.done = done
  BY <1>5, <1>9 DEF TypeOK, ClientState
<1> HIDE DEF s
<1>11. /\ client' \in [Client -> ClientState] /\ client'[c] = s
       /\ \A d \in Client : d # c => client'[d] = client[d]
  BY <1>3, <1>10 DEF TypeOK, ClientState
<1>12. TypeOK'
  BY <1>3, <1>7, <1>11 DEF TypeOK, ChanState, ClientState
<1>13. done => client'[c].done /\ \A x, y \in Node : chan'[x][y] = Rest(a, c, x, y)
  BY <1>8, <1>10, <1>11
<1> QED BY <1>2, <1>3, <1>8, <1>10, <1>11, <1>12, <1>13 DEF log, h, done

-----------------------------------------------------------------------------
(* Types.                                                                  *)

LEMMA TypeStep ==
  ASSUME TypeOK, [Next]_vars
  PROVE  TypeOK'
<1>1. CASE UNCHANGED vars
  BY <1>1 DEF vars, TypeOK
<1>2. ASSUME NEW a \in Agent, NEW b \in Node,
             Quietly(a, b) \/ Selecting(a, b) \/ Storing(a, b)
      PROVE  TypeOK'
  BY <1>2, HandlesOK DEF Quietly, Quiet, Selecting, Selects, Storing, Stores
<1>3. ASSUME NEW a \in Agent, NEW b \in Agent, AgentNext(a, b) PROVE TypeOK'
  BY <1>2, <1>3, AgentSteps, Nodes
<1>4. ASSUME NEW c \in Client, NEW a \in Agent, Request(a, c) PROVE TypeOK'
  BY <1>2, <1>4, RequestIs, Nodes DEF Quietly
<1> QED BY <1>1, <1>3, <1>4, SetupIs, ToldIs DEF Next, ClientNext

\* Agents, clients and messages are what they should be.
THEOREM PaxosTypes == Spec => []TypeOK
<1>1. Init => TypeOK
  BY DEF Init, TypeOK, Val
<1> QED BY <1>1, TypeStep, PTL DEF Spec

-----------------------------------------------------------------------------
(* What a client knows.                                                    *)

\* A log, with what is on its way to it, is the end of what is stored; element
\* by element.
Follows(log, coming, stored) ==
  /\ Len(log) + Len(coming) <= Len(stored)
  /\ \A i \in 1..Len(log) : log[i] = stored[Len(stored) - Len(log) - Len(coming) + i].val
  /\ \A i \in 1..Len(coming) : coming[i].val = stored[Len(stored) - Len(coming) + i].val

Stored == [seq : Nat, val : Val]

\* More is stored and sent.
LEMMA FollowsStored ==
  ASSUME NEW log \in Seq(Val), NEW coming \in Seq(Message), NEW stored \in Seq(Stored),
         Follows(log, coming, stored), NEW m \in Message, NEW e \in Stored, e.val = m.val
  PROVE  Follows(log, Append(coming, m), Append(stored, e))
<1> DEFINE coming1 == Append(coming, m)
           stored1 == Append(stored, e)
           n == Len(stored)
           k == Len(coming)
<1>1. /\ n \in Nat /\ k \in Nat /\ Len(log) \in Nat /\ Len(coming1) = k + 1 /\ Len(stored1) = n + 1
      /\ Len(log) + k <= n
  BY DEF Follows
<1>2. \A i \in 1..n : stored1[i] = stored[i]
  OBVIOUS
<1>3. \A i \in 1..k : coming1[i] = coming[i]
  OBVIOUS
<1>4. coming1[k + 1] = m /\ stored1[n + 1] = e
  OBVIOUS
<1> HIDE DEF coming1, stored1
<1>5. ASSUME NEW i \in 1..Len(log)
      PROVE  log[i] = stored1[Len(stored1) - Len(log) - Len(coming1) + i].val
  <2>1. Len(stored1) - Len(log) - Len(coming1) + i = n - Len(log) - k + i
    BY <1>1
  <2>2. n - Len(log) - k + i \in 1..n
    BY <1>1
  <2>3. log[i] = stored[n - Len(log) - k + i].val
    BY DEF Follows
  <2> QED BY <1>2, <2>1, <2>2, <2>3
<1>6. ASSUME NEW i \in 1..Len(coming1)
      PROVE  coming1[i].val = stored1[Len(stored1) - Len(coming1) + i].val
  <2>1. Len(stored1) - Len(coming1) + i = n - k + i
    BY <1>1
  <2>2. CASE i = k + 1
    <3>1. n - k + i = n + 1
      BY <1>1, <2>2
    <3> QED BY <1>4, <2>1, <2>2, <3>1
  <2>3. CASE i \in 1..k
    <3>1. n - k + i \in 1..n
      BY <1>1, <2>3
    <3>2. coming[i].val = stored[n - k + i].val
      BY <2>3 DEF Follows
    <3> QED BY <1>2, <1>3, <2>1, <2>3, <3>1, <3>2
  <2>4. i = k + 1 \/ i \in 1..k
    BY <1>1
  <2> QED BY <2>2, <2>3, <2>4
<1>7. Len(log) + Len(coming1) <= Len(stored1)
  BY <1>1
<1>8. Follows(log, coming1, stored1)
  BY <1>5, <1>6, <1>7 DEF Follows
<1> QED BY <1>8 DEF coming1, stored1

\* What was on its way arrives.
LEMMA FollowsTaken ==
  ASSUME NEW log \in Seq(Val), NEW coming \in Seq(Message), NEW stored \in Seq(Stored),
         Follows(log, coming, stored), coming # <<>>
  PROVE  Follows(Append(log, Head(coming).val), Tail(coming), stored)
<1> DEFINE v == Head(coming).val
           log1 == Append(log, v)
           coming1 == Tail(coming)
           n == Len(stored)
           k == Len(coming)
           l == Len(log)
<1>1. /\ n \in Nat /\ k \in Nat /\ k >= 1 /\ l \in Nat /\ Len(coming1) = k - 1 /\ l + k <= n
      /\ v = coming[1].val
  BY DEF Follows
<1>2. \A i \in 1..(k - 1) : coming1[i] = coming[i + 1]
  OBVIOUS
<1>3. Len(log1) = l + 1 /\ log1[l + 1] = v /\ \A i \in 1..l : log1[i] = log[i]
  BY Z3
<1> HIDE DEF coming1, log1, v
<1>4. ASSUME NEW i \in 1..Len(log1)
      PROVE  log1[i] = stored[n - Len(log1) - Len(coming1) + i].val
  <2>1. n - Len(log1) - Len(coming1) + i = n - l - k + i
    BY <1>1, <1>3
  <2>2. CASE i = l + 1
    <3>1. n - l - k + i = n - k + 1
      BY <1>1, <2>2
    <3>2. coming[1].val = stored[n - k + 1].val
      BY <1>1 DEF Follows
    <3> QED BY <1>1, <1>3, <2>1, <2>2, <3>1, <3>2
  <2>3. CASE i \in 1..l
    <3>1. log[i] = stored[n - l - k + i].val
      BY <2>3 DEF Follows
    <3> QED BY <1>3, <2>1, <2>3, <3>1
  <2>4. i = l + 1 \/ i \in 1..l
    BY <1>1, <1>3
  <2> QED BY <2>2, <2>3, <2>4
<1>5. ASSUME NEW i \in 1..Len(coming1)
      PROVE  coming1[i].val = stored[n - Len(coming1) + i].val
  <2>1. n - Len(coming1) + i = n - k + (i + 1) /\ i \in 1..(k - 1) /\ i + 1 \in 1..k
    BY <1>1
  <2>2. coming[i + 1].val = stored[n - k + (i + 1)].val
    BY <2>1 DEF Follows
  <2> QED BY <1>2, <2>1, <2>2
<1>6. Len(log1) + Len(coming1) <= n
  BY <1>1, <1>3
<1>7. Follows(log1, coming1, stored)
  BY <1>4, <1>5, <1>6 DEF Follows
<1> QED BY <1>7 DEF log1, coming1, v

\* Two sequences, one after the other.
LEMMA CatIs ==
  ASSUME NEW S, NEW q \in Seq(S), NEW r \in Seq(S)
  PROVE  /\ q \o r \in Seq(S) /\ Len(q \o r) = Len(q) + Len(r)
         /\ \A i \in 1..Len(q) : (q \o r)[i] = q[i]
         /\ \A i \in 1..Len(r) : (q \o r)[Len(q) + i] = r[i]
OBVIOUS

\* The last j elements of a sequence.
LEMMA EndIs ==
  ASSUME NEW S, NEW q \in Seq(S), NEW j \in 0..Len(q)
  PROVE  /\ SubSeq(q, Len(q) - j + 1, Len(q)) \in Seq(S)
         /\ Len(SubSeq(q, Len(q) - j + 1, Len(q))) = j
         /\ \A i \in 1..j : SubSeq(q, Len(q) - j + 1, Len(q))[i] = q[Len(q) - j + i]
<1> DEFINE n == Len(q)
           from == n - j + 1
<1>1. n \in Int /\ from \in Int /\ n - from + 1 = j /\ from >= 1 /\ j \in Nat /\ (from <= n \/ j = 0)
  OBVIOUS
<1>2. \A i \in from..n : q[i] \in S
  BY <1>1
<1> HIDE DEF from, n
<1>3. /\ SubSeq(q, from, n) \in Seq(S)
      /\ Len(SubSeq(q, from, n)) = IF from <= n THEN n - from + 1 ELSE 0
      /\ \A i \in 1..(n - from + 1) : SubSeq(q, from, n)[i] = q[from + i - 1]
  BY <1>1, <1>2, SubSeqProperties
<1>4. Len(SubSeq(q, from, n)) = j
  BY <1>1, <1>3
<1>5. \A i \in 1..j : SubSeq(q, from, n)[i] = q[n - j + i]
  <2> SUFFICES ASSUME NEW i \in 1..j PROVE SubSeq(q, from, n)[i] = q[n - j + i]
    OBVIOUS
  <2>1. from + i - 1 = n - j + i
    BY <1>1 DEF from
  <2>2. SubSeq(q, from, n)[i] = q[from + i - 1]
    BY <1>1, <1>3
  <2> QED BY <2>1, <2>2
<1> QED BY <1>3, <1>4, <1>5 DEF from, n

\* Two sequences that are, one after the other, the end of a third.
LEMMA CatIsEnd ==
  ASSUME NEW S, NEW q \in Seq(S), NEW r \in Seq(S), NEW w \in Seq(S),
         Len(q) + Len(r) <= Len(w),
         \A i \in 1..Len(q) : q[i] = w[Len(w) - (Len(q) + Len(r)) + i],
         \A i \in 1..Len(r) : r[i] = w[Len(w) - (Len(q) + Len(r)) + (Len(q) + i)]
  PROVE  /\ Len(q \o r) <= Len(w)
         /\ q \o r = SubSeq(w, Len(w) - Len(q \o r) + 1, Len(w))
<1> DEFINE j == Len(q) + Len(r)
           c == q \o r
           end == SubSeq(w, Len(w) - j + 1, Len(w))
<1>1. /\ c \in Seq(S) /\ Len(c) = j
      /\ \A i \in 1..Len(q) : c[i] = q[i]
      /\ \A i \in 1..Len(r) : c[Len(q) + i] = r[i]
  BY CatIs
<1>2. j \in 0..Len(w)
  OBVIOUS
<1>3. end \in Seq(S) /\ Len(end) = j /\ \A i \in 1..j : end[i] = w[Len(w) - j + i]
  <2> HIDE DEF j
  <2> QED BY <1>2, EndIs
<1> HIDE DEF c, end
<1>4. ASSUME NEW i \in 1..j PROVE c[i] = end[i]
  <2>1. CASE i \in 1..Len(q)
    BY <1>1, <1>3, <2>1
  <2>2. CASE i \notin 1..Len(q)
    <3>1. i - Len(q) \in 1..Len(r) /\ Len(q) + (i - Len(q)) = i
      BY <2>2
    <3>2. c[i] = r[i - Len(q)]
      BY <1>1, <3>1
    <3>3. r[i - Len(q)] = w[Len(w) - j + i]
      BY <3>1
    <3> QED BY <1>3, <3>2, <3>3
  <2> QED BY <2>1, <2>2
<1>5. c = end
  BY <1>1, <1>3, <1>4, SeqEqual
<1> QED BY <1>1, <1>2, <1>5 DEF c, end

\* It is what ClientFollows says.
LEMMA FollowsIs ==
  ASSUME NEW log \in Seq(Val), NEW coming \in Seq(Message), NEW stored \in Seq(Stored),
         Follows(log, coming, stored)
  PROVE  LET vals == [i \in DOMAIN stored |-> stored[i].val]
             known == log \o [i \in DOMAIN coming |-> coming[i].val]
         IN  Len(known) <= Len(vals) /\ known = SubSeq(vals, Len(vals) - Len(known) + 1, Len(vals))
<1> DEFINE n == Len(stored)
           k == Len(coming)
           l == Len(log)
           vals == [i \in DOMAIN stored |-> stored[i].val]
           news == [i \in DOMAIN coming |-> coming[i].val]
<1>1. n \in Nat /\ k \in Nat /\ l \in Nat /\ l + k <= n
      /\ DOMAIN coming = 1..k /\ DOMAIN stored = 1..n
  BY DEF Follows
<1>2. vals \in Seq(Val) /\ Len(vals) = n /\ \A i \in 1..n : vals[i] = stored[i].val
  <2>0. \A i \in 1..n : stored[i] \in Stored
    OBVIOUS
  <2>1. \A i \in 1..n : stored[i].val \in Val
    BY <2>0 DEF Stored
  <2>2. vals = [i \in 1..n |-> stored[i].val]
    BY <1>1
  <2> HIDE DEF n, vals
  <2> QED BY <1>1, <2>1, <2>2
<1>3. \A i \in 1..k : coming[i].val = vals[n - k + i] /\ vals[n - k + i] \in Val
  <2> SUFFICES ASSUME NEW i \in 1..k
               PROVE  coming[i].val = vals[n - k + i] /\ vals[n - k + i] \in Val
    OBVIOUS
  <2>1. coming[i].val = stored[n - k + i].val
    BY DEF Follows
  <2>2. n - k + i \in 1..n
    BY <1>1
  <2> HIDE DEF n, k, vals
  <2> QED BY <1>2, <2>1, <2>2
<1>4. news \in Seq(Val) /\ Len(news) = k /\ \A i \in 1..k : news[i] = vals[n - k + i]
  <2>1. news = [i \in 1..k |-> coming[i].val]
    BY <1>1
  <2>2. \A i \in 1..k : coming[i].val \in Val
    BY <1>3
  <2>3. \A i \in 1..k : news[i] = coming[i].val
    BY <2>1
  <2> HIDE DEF n, k, news, vals
  <2>4. news \in Seq(Val) /\ Len(news) = k
    BY <1>1, <2>1, <2>2
  <2> QED BY <1>3, <2>3, <2>4
<1>5. \A i \in 1..l : log[i] = vals[n - (l + k) + i]
  <2> SUFFICES ASSUME NEW i \in 1..l PROVE log[i] = vals[n - (l + k) + i]
    OBVIOUS
  <2>1. log[i] = stored[n - l - k + i].val
    BY DEF Follows
  <2>2. n - l - k + i = n - (l + k) + i /\ n - (l + k) + i \in 1..n
    BY <1>1
  <2> HIDE DEF n, k, l, vals
  <2> QED BY <1>2, <2>1, <2>2
<1>6. \A i \in 1..k : news[i] = vals[n - (l + k) + (l + i)]
  <2> HIDE DEF n, k, l, vals, news
  <2>1. \A i \in 1..k : n - (l + k) + (l + i) = n - k + i
    BY <1>1
  <2> QED BY <1>4, <2>1
<1> HIDE DEF n, k, vals, news
<1>7. /\ Len(log \o news) <= Len(vals)
      /\ log \o news = SubSeq(vals, Len(vals) - Len(log \o news) + 1, Len(vals))
  BY <1>1, <1>2, <1>4, <1>5, <1>6, CatIsEnd
<1> QED BY <1>7 DEF vals, news

\* Clients are told things only by the agent they ask, and ask no other, each for
\* itself.
Routed(x, y, m) ==
  /\ y \in Client => x = Target[y] /\ m.type = "Selected"
  /\ m.type = "Request" => x \in Client /\ y = Target[x] /\ m.val = x
RoutesOK == \A x, y \in Node : \A i \in DOMAIN chan[x][y] : Routed(x, y, chan[x][y][i])

\* A client that its agent does not know yet has been told nothing; otherwise
\* it might miss the beginning.  Nobody else's client is known.
ClientOK(c) ==
  /\ \A a \in Agent : c \in agent[a].clients => a = Target[c]
  /\ c \notin agent[Target[c]].clients => client[c].log = <<>> /\ chan[Target[c]][c] = <<>>
  /\ Follows(client[c].log, chan[Target[c]][c], agent[Target[c]].storage)

FollowInv == TypeOK /\ RoutesOK /\ \A c \in Client : ClientOK(c)

\* What is left of a channel was in it.
LEMMA RestIs ==
  ASSUME TypeOK, NEW s \in Node, NEW n \in Node, NEW x \in Node, NEW y \in Node, chan[s][n] # <<>>
  PROVE  \A i \in DOMAIN Rest(s, n, x, y) :
           \E j \in DOMAIN chan[x][y] : Rest(s, n, x, y)[i] = chan[x][y][j]
<1> SUFFICES ASSUME NEW i \in DOMAIN Rest(s, n, x, y)
             PROVE  \E j \in DOMAIN chan[x][y] : Rest(s, n, x, y)[i] = chan[x][y][j]
  OBVIOUS
<1>1. chan[x][y] \in Seq(Message)
  BY DEF TypeOK
<1>2. CASE x = s /\ y = n
  <2>1. Rest(s, n, x, y) = Tail(chan[x][y]) /\ chan[x][y] # <<>>
    BY <1>2 DEF Rest
  <2>2. i + 1 \in DOMAIN chan[x][y] /\ Rest(s, n, x, y)[i] = chan[x][y][i + 1]
    BY <1>1, <2>1
  <2> QED BY <2>2
<1>3. CASE ~(x = s /\ y = n)
  <2>1. Rest(s, n, x, y) = chan[x][y]
    BY <1>3 DEF Rest
  <2> QED BY <2>1
<1> QED BY <1>2, <1>3

\* What is left of a channel is routed right.
LEMMA RestRouted ==
  ASSUME TypeOK, RoutesOK, NEW s \in Node, NEW n \in Node, NEW x \in Node, NEW y \in Node,
         chan[s][n] # <<>>
  PROVE  \A i \in DOMAIN Rest(s, n, x, y) : Routed(x, y, Rest(s, n, x, y)[i])
<1> SUFFICES ASSUME NEW i \in DOMAIN Rest(s, n, x, y) PROVE Routed(x, y, Rest(s, n, x, y)[i])
  OBVIOUS
<1>1. \A j \in DOMAIN chan[x][y] : Routed(x, y, chan[x][y][j])
  BY DEF RoutesOK
<1>2. \E j \in DOMAIN chan[x][y] : Rest(s, n, x, y)[i] = chan[x][y][j]
  BY RestIs
<1> QED BY <1>1, <1>2

\* An element of a longer sequence was there or is the new one.
LEMMA AppendElem ==
  ASSUME NEW S, NEW q \in Seq(S), NEW m \in S, NEW i \in DOMAIN Append(q, m)
  PROVE  (i \in DOMAIN q /\ Append(q, m)[i] = q[i]) \/ Append(q, m)[i] = m
OBVIOUS

\* Routes stay right when what is added to them is.
LEMMA RoutesStep ==
  ASSUME TypeOK, RoutesOK, NEW s \in Node, NEW n \in Node, chan[s][n] # <<>>,
         \A x, y \in Node :
           /\ Rest(s, n, x, y) \in Seq(Message)
           /\ \/ chan'[x][y] = Rest(s, n, x, y)
              \/ \E m \in Message : chan'[x][y] = Append(Rest(s, n, x, y), m) /\ Routed(x, y, m)
  PROVE  RoutesOK'
<1> SUFFICES ASSUME NEW x \in Node, NEW y \in Node, NEW i \in DOMAIN chan'[x][y]
             PROVE  Routed(x, y, chan'[x][y][i])
  BY DEF RoutesOK, Routed
<1>1. ASSUME NEW j \in DOMAIN Rest(s, n, x, y) PROVE Routed(x, y, Rest(s, n, x, y)[j])
  BY RestRouted
<1>2. CASE chan'[x][y] = Rest(s, n, x, y)
  BY <1>1, <1>2
<1>3. ASSUME NEW m \in Message, chan'[x][y] = Append(Rest(s, n, x, y), m), Routed(x, y, m)
      PROVE  Routed(x, y, chan'[x][y][i])
  <2> DEFINE q == Rest(s, n, x, y)
  <2>1. q \in Seq(Message)
    OBVIOUS
  <2>2. chan'[x][y] = Append(q, m)
    BY <1>3
  <2>3. \A j \in DOMAIN q : Routed(x, y, q[j])
    BY <1>1
  <2> HIDE DEF q
  <2>4. i \in DOMAIN Append(q, m)
    BY <2>2
  <2>5. (i \in DOMAIN q /\ Append(q, m)[i] = q[i]) \/ Append(q, m)[i] = m
    BY <2>1, <2>4, AppendElem
  <2> QED BY <1>3, <2>2, <2>3, <2>5
<1> QED BY <1>2, <1>3

\* A client of which nothing changes, or that only is known now.
LEMMA ClientSame ==
  ASSUME FollowInv, NEW c \in Client,
         \A a \in Agent : c \in agent'[a].clients => a = Target[c],
         c \in agent[Target[c]].clients => c \in agent'[Target[c]].clients,
         client'[c].log = client[c].log, chan'[Target[c]][c] = chan[Target[c]][c],
         agent'[Target[c]].storage = agent[Target[c]].storage
  PROVE  ClientOK(c)'
BY DEF FollowInv, ClientOK

\* The steps that store nothing change nothing for the clients.
LEMMA FollowUnstored ==
  ASSUME FollowInv, NEW a \in Agent, NEW b \in Node, NEW s \in AgentState,
         NEW targets \in SUBSET Agent, NEW m \in Message, Handles(a, b, s, targets, m),
         s.storage = agent[a].storage, targets # {} => m.type # "Request",
         \/ s.clients = agent[a].clients
         \/ s.clients = agent[a].clients \cup {b} /\ b \in Client /\ a = Target[b]
  PROVE  FollowInv'
<1>0. TypeOK /\ RoutesOK /\ chan[b][a] # <<>> /\ a \in Node
  BY Nodes DEF FollowInv, Handles
<1>1. /\ TypeOK' /\ agent'[a] = s /\ \A x \in Agent : x # a => agent'[x] = agent[x]
      /\ client' = client
      /\ \A x, y \in Node :
           /\ Rest(b, a, x, y) \in Seq(Message)
           /\ chan'[x][y] = IF x = a /\ y \in targets THEN Append(Rest(b, a, x, y), m)
                            ELSE Rest(b, a, x, y)
  BY <1>0, HandlesOK
<1>2. RoutesOK'
  <2>1. \A x, y \in Node : y \in targets => Routed(x, y, m)
    BY Nodes DEF Routed
  <2>2. m \in Message
    BY DEF Handles
  <2>3. \A x, y \in Node :
          /\ Rest(b, a, x, y) \in Seq(Message)
          /\ \/ chan'[x][y] = Rest(b, a, x, y)
             \/ \E m1 \in Message : chan'[x][y] = Append(Rest(b, a, x, y), m1) /\ Routed(x, y, m1)
    BY <1>1, <2>1, <2>2
  <2> QED BY <1>0, <2>3, RoutesStep
<1>3. ASSUME NEW c \in Client PROVE ClientOK(c)'
  <2>1. c \in Node /\ Target[c] \in Agent /\ Target[c] \in Node /\ c \notin targets /\ c # a
    BY Nodes
  <2>2. chan'[Target[c]][c] = chan[Target[c]][c]
    BY <1>1, <2>1 DEF Rest
  <2>3. agent'[Target[c]].storage = agent[Target[c]].storage
    BY <1>1, <2>1
  <2>4. \A x \in Agent : c \in agent[x].clients => x = Target[c]
    BY DEF FollowInv, ClientOK
  <2>5. \A x \in Agent : c \in agent'[x].clients => x = Target[c]
    BY <1>1, <2>4
  <2>6. c \in agent[Target[c]].clients => c \in agent'[Target[c]].clients
    BY <1>1, <2>1
  <2> QED BY <1>1, <2>2, <2>3, <2>5, <2>6, ClientSame
<1> QED BY <1>1, <1>2, <1>3 DEF FollowInv

\* What is stored is sent to the clients that are known.
LEMMA FollowStored ==
  ASSUME FollowInv, NEW a \in Agent, NEW b \in Agent, NEW s \in AgentState, NEW m \in Message,
         Stores(a, b, s, m)
  PROVE  FollowInv'
<1>0. /\ TypeOK /\ RoutesOK /\ chan[b][a] # <<>> /\ a \in Node /\ b \in Node
      /\ Handles(a, b, s, agent[a].clients, m) /\ m.type = "Selected"
      /\ s.storage = Append(agent[a].storage, [seq |-> m.seq, val |-> m.val])
      /\ s.clients = agent[a].clients
  BY Nodes DEF FollowInv, Stores, Handles
<1>1. /\ TypeOK' /\ agent'[a] = s /\ \A x \in Agent : x # a => agent'[x] = agent[x]
      /\ client' = client
      /\ \A x, y \in Node :
           /\ Rest(b, a, x, y) \in Seq(Message)
           /\ chan'[x][y] = IF x = a /\ y \in agent[a].clients THEN Append(Rest(b, a, x, y), m)
                            ELSE Rest(b, a, x, y)
  BY <1>0, HandlesOK
<1>2. \A c \in Client : c \in agent[a].clients => a = Target[c]
  BY DEF FollowInv, ClientOK
<1>3. agent[a].clients \subseteq Client
  BY <1>0 DEF TypeOK
<1>4. RoutesOK'
  <2>1. \A y \in Node : y \in agent[a].clients => Routed(a, y, m)
    BY <1>0, <1>2, <1>3 DEF Routed
  <2>2. m \in Message
    BY <1>0 DEF Handles
  <2>3. \A x, y \in Node :
          /\ Rest(b, a, x, y) \in Seq(Message)
          /\ \/ chan'[x][y] = Rest(b, a, x, y)
             \/ \E m1 \in Message : chan'[x][y] = Append(Rest(b, a, x, y), m1) /\ Routed(x, y, m1)
    BY <1>1, <2>1, <2>2
  <2> QED BY <1>0, <2>3, RoutesStep
<1>5. ASSUME NEW c \in Client PROVE ClientOK(c)'
  <2> DEFINE t == Target[c]
  <2>1. c \in Node /\ t \in Agent /\ t \in Node /\ c # a
    BY Nodes
  <2>2. ClientOK(c)
    BY DEF FollowInv
  <2>3. \A x \in Agent : agent'[x].clients = agent[x].clients
    BY <1>0, <1>1
  <2>4. CASE t # a
    <3>1. chan'[t][c] = chan[t][c] /\ agent'[t] = agent[t]
      BY <1>1, <2>1, <2>4 DEF Rest
    <3>2. \A x \in Agent : c \in agent'[x].clients => x = t
      BY <2>2, <2>3 DEF ClientOK
    <3> QED BY <1>1, <3>1, <3>2, ClientSame
  <2>5. CASE t = a /\ c \notin agent[a].clients
    <3>1. chan'[t][c] = chan[t][c]
      BY <1>1, <2>1, <2>5 DEF Rest
    <3>2. client[c].log = <<>> /\ chan[t][c] = <<>>
      BY <2>2, <2>5 DEF ClientOK
    <3>3. agent'[t].storage \in Seq(Stored)
      BY <1>1, <2>1 DEF TypeOK, Stored
    <3>4. Follows(<<>>, <<>>, agent'[t].storage)
      BY <3>3 DEF Follows
    <3>5. \A x \in Agent : c \in agent'[x].clients => x = t
      BY <2>2, <2>3 DEF ClientOK
    <3> QED BY <1>1, <3>1, <3>2, <3>4, <3>5 DEF ClientOK
  <2>6. CASE t = a /\ c \in agent[a].clients
    <3> DEFINE e == [seq |-> m.seq, val |-> m.val]
    <3>1. chan'[t][c] = Append(chan[t][c], m)
      BY <1>1, <2>1, <2>6 DEF Rest
    <3>2. m.seq \in Nat /\ m.val \in Val
      BY <1>0, Fields
    <3>3. e \in Stored /\ e.val = m.val
      BY <3>2 DEF Stored
    <3>4. agent'[t].storage = Append(agent[t].storage, e)
      BY <1>0, <1>1, <2>6
    <3> HIDE DEF e
    <3>5. client[c].log \in Seq(Val) /\ chan[t][c] \in Seq(Message)
      BY <1>0, <2>1 DEF TypeOK
    <3>6. agent[t].storage \in Seq(Stored)
      BY <1>0, <2>1 DEF TypeOK, Stored
    <3>7. Follows(client[c].log, chan[t][c], agent[t].storage)
      BY <2>2 DEF ClientOK
    <3> HIDE DEF t
    <3>8. Follows(client[c].log, Append(chan[t][c], m), Append(agent[t].storage, e))
      BY <3>3, <3>5, <3>6, <3>7, FollowsStored
    <3>9. Follows(client'[c].log, chan'[t][c], agent'[t].storage)
      BY <1>1, <3>1, <3>4, <3>8
    <3>10. \A x \in Agent : c \in agent'[x].clients => x = t
      BY <2>2, <2>3 DEF ClientOK, t
    <3>11. c \in agent'[t].clients
      BY <1>0, <1>1, <2>6
    <3> QED BY <3>9, <3>10, <3>11 DEF ClientOK, t
  <2> QED BY <2>4, <2>5, <2>6
<1> QED BY <1>1, <1>4, <1>5 DEF FollowInv

\* A client asks.
LEMMA FollowSetup ==
  ASSUME FollowInv, NEW c \in Client, Setup(c)
  PROVE  FollowInv'
<1>0. TypeOK /\ RoutesOK
  BY DEF FollowInv
<1>1. /\ TypeOK' /\ agent' = agent /\ \A d \in Client : client'[d].log = client[d].log
      /\ \A x, y \in Node : chan'[x][y] = Asks(c, x, y, chan[x][y])
  BY <1>0, SetupIs
<1>2. Ask(c) \in Message /\ Routed(c, Target[c], Ask(c))
  BY Nodes DEF Ask, Message, Routed
<1>3. RoutesOK'
  <2> SUFFICES ASSUME NEW x \in Node, NEW y \in Node, NEW i \in DOMAIN chan'[x][y]
               PROVE  Routed(x, y, chan'[x][y][i])
    BY DEF RoutesOK, Routed
  <2> DEFINE q == chan[x][y]
  <2>1. q \in Seq(Message) /\ \A j \in DOMAIN q : Routed(x, y, q[j])
    BY <1>0 DEF TypeOK, RoutesOK
  <2>2. chan'[x][y] = Asks(c, x, y, q)
    BY <1>1
  <2> HIDE DEF q
  <2>3. CASE x = c /\ y = Target[c]
    <3>1. chan'[x][y] = Append(q, Ask(c))
      BY <2>2, <2>3 DEF Asks
    <3>2. (i \in DOMAIN q /\ Append(q, Ask(c))[i] = q[i]) \/ Append(q, Ask(c))[i] = Ask(c)
      BY <1>2, <2>1, <3>1
    <3> QED BY <1>2, <2>1, <2>3, <3>1, <3>2
  <2>4. CASE ~(x = c /\ y = Target[c])
    BY <2>1, <2>2, <2>4 DEF Asks
  <2> QED BY <2>3, <2>4
<1>4. ASSUME NEW d \in Client PROVE ClientOK(d)'
  <2>1. d \in Node /\ Target[d] \in Node /\ Target[d] # c
    BY Nodes
  <2>2. chan'[Target[d]][d] = chan[Target[d]][d]
    BY <1>1, <2>1 DEF Asks
  <2>3. \A a \in Agent : d \in agent'[a].clients => a = Target[d]
    BY <1>1 DEF FollowInv, ClientOK
  <2> QED BY <1>1, <2>2, <2>3, ClientSame
<1> QED BY <1>1, <1>3, <1>4 DEF FollowInv

\* A client is told something, and may ask again.
LEMMA FollowTold ==
  ASSUME FollowInv, NEW c \in Client, NEW a \in Agent, Told(c, a)
  PROVE  FollowInv'
<1>0. TypeOK /\ RoutesOK /\ ClientOK(c) /\ c \in Node /\ a \in Node /\ Target[c] \in Node
  BY Nodes DEF FollowInv
<1>1. /\ TypeOK' /\ agent' = agent /\ chan[a][c] \in Seq(Message) /\ chan[a][c] # <<>>
      /\ client'[c].log = Append(client[c].log, Head(chan[a][c]).val)
      /\ \A d \in Client : d # c => client'[d].log = client[d].log
      /\ \A x, y \in Node : /\ Rest(a, c, x, y) \in Seq(Message)
                            /\ \/ chan'[x][y] = Rest(a, c, x, y)
                               \/ chan'[x][y] = Asks(c, x, y, Rest(a, c, x, y))
  BY <1>0, ToldIs
<1>2. Ask(c) \in Message /\ Routed(c, Target[c], Ask(c))
  BY Nodes DEF Ask, Message, Routed
<1>3. RoutesOK'
  <2>1. ASSUME NEW x \in Node, NEW y \in Node
        PROVE  /\ Rest(a, c, x, y) \in Seq(Message)
               /\ \/ chan'[x][y] = Rest(a, c, x, y)
                  \/ \E m \in Message : chan'[x][y] = Append(Rest(a, c, x, y), m) /\ Routed(x, y, m)
    BY <1>1, <1>2 DEF Asks
  <2> QED BY <1>0, <1>1, <2>1, RoutesStep
<1>4. a = Target[c]
  <2>1. 1 \in DOMAIN chan[a][c]
    BY <1>1
  <2> QED BY <1>0, <2>1 DEF RoutesOK, Routed
<1>5. ASSUME NEW d \in Client, d # c PROVE ClientOK(d)'
  <2>1. d \in Node /\ Target[d] \in Node /\ Target[d] # c
    BY Nodes
  <2>2. chan'[Target[d]][d] = chan[Target[d]][d]
    BY <1>1, <1>5, <2>1 DEF Asks, Rest
  <2>3. \A x \in Agent : d \in agent'[x].clients => x = Target[d]
    BY <1>1 DEF FollowInv, ClientOK
  <2> QED BY <1>1, <1>5, <2>2, <2>3, ClientSame
<1>6. ClientOK(c)'
  <2> DEFINE coming == chan[a][c]
             log == client[c].log
             stored == agent[a].storage
  <2>1. a # c
    BY Nodes
  <2>2. chan'[a][c] = Tail(coming)
    BY <1>0, <1>1, <2>1 DEF Asks, Rest
  <2>3. log \in Seq(Val) /\ coming \in Seq(Message) /\ coming # <<>>
    BY <1>0, <1>1 DEF TypeOK
  <2>4. stored \in Seq(Stored)
    BY <1>0 DEF TypeOK, Stored
  <2>5. Follows(log, coming, stored)
    BY <1>0, <1>4 DEF ClientOK
  <2>6. client'[c].log = Append(log, Head(coming).val)
    BY <1>1
  <2>7. c \in agent[a].clients
    BY <1>0, <1>1, <1>4 DEF ClientOK
  <2> HIDE DEF coming, log, stored
  <2>8. Follows(Append(log, Head(coming).val), Tail(coming), stored)
    BY <2>3, <2>4, <2>5, FollowsTaken
  <2>9. Follows(client'[c].log, chan'[a][c], agent'[a].storage)
    BY <1>1, <2>2, <2>6, <2>8 DEF stored
  <2>10. \A x \in Agent : c \in agent'[x].clients => x = Target[c]
    BY <1>0, <1>1 DEF ClientOK
  <2> QED BY <1>1, <1>4, <2>7, <2>9, <2>10 DEF ClientOK
<1> QED BY <1>1, <1>3, <1>5, <1>6 DEF FollowInv

\* FollowInv is inductive and always holds.
THEOREM FollowSafe == Spec => []FollowInv
<1>1. Init /\ TypeOK => FollowInv
  <2> SUFFICES ASSUME Init, TypeOK PROVE FollowInv
    OBVIOUS
  <2>1. \A x, y \in Node : chan[x][y] = <<>>
    BY DEF Init
  <2>2. RoutesOK
    BY <2>1 DEF RoutesOK
  <2>3. ASSUME NEW c \in Client PROVE ClientOK(c)
    <3>1. c \in Node /\ Target[c] \in Agent /\ Target[c] \in Node
      BY Nodes
    <3>2. /\ \A a \in Agent : agent[a].clients = {} /\ agent[a].storage = <<>>
          /\ client[c].log = <<>>
      BY DEF Init
    <3>3. Follows(<<>>, <<>>, <<>>)
      BY DEF Follows
    <3> QED BY <2>1, <3>1, <3>2, <3>3 DEF ClientOK
  <2> QED BY <2>2, <2>3 DEF FollowInv
<1>2. FollowInv /\ [Next]_vars => FollowInv'
  <2> SUFFICES ASSUME FollowInv, [Next]_vars PROVE FollowInv'
    OBVIOUS
  <2>0. TypeOK
    BY DEF FollowInv
  <2>1. CASE UNCHANGED vars
    BY <2>1 DEF vars, FollowInv, TypeOK, RoutesOK, ClientOK
  <2>2. ASSUME NEW a \in Agent, NEW b \in Node, Quietly(a, b) PROVE FollowInv'
    <3>1. PICK s \in AgentState, targets \in SUBSET Agent, m \in Message : Quiet(a, b, s, targets, m)
      BY <2>2 DEF Quietly
    <3> DEFINE h == Head(chan[b][a])
    <3>2. /\ Handles(a, b, s, targets, m) /\ Answers(b, h.type, targets, m)
          /\ s.storage = agent[a].storage
          /\ s.clients = IF h.type = "Request" THEN agent[a].clients \cup {b} ELSE agent[a].clients
      BY <3>1 DEF Quiet
    <3>3. h.type = "Request" => b \in Client /\ a = Target[b]
      <4>1. chan[b][a] \in Seq(Message) /\ chan[b][a] # <<>>
        BY <2>0, <3>2, Nodes DEF TypeOK, Handles
      <4>2. 1 \in DOMAIN chan[b][a] /\ h = chan[b][a][1]
        BY <4>1
      <4> HIDE DEF h
      <4> QED BY <4>2, Nodes DEF FollowInv, RoutesOK, Routed
    <3>4. targets # {} => m.type # "Request"
      BY <3>2 DEF Answers
    <3> HIDE DEF h
    <3> QED BY <3>2, <3>3, <3>4, FollowUnstored
  <2>3. ASSUME NEW a \in Agent, NEW b \in Agent, Selecting(a, b) PROVE FollowInv'
    <3>1. PICK s \in AgentState, m \in Message : Selects(a, b, s, m)
      BY <2>3 DEF Selecting
    <3>2. /\ Handles(a, b, s, Agent, m) /\ s.storage = agent[a].storage
          /\ s.clients = agent[a].clients /\ m.type # "Request"
      BY <3>1 DEF Selects
    <3> QED BY <3>2, FollowUnstored, Nodes
  <2>4. ASSUME NEW a \in Agent, NEW b \in Agent, Storing(a, b) PROVE FollowInv'
    BY <2>4, FollowStored DEF Storing
  <2>5. ASSUME NEW a \in Agent, NEW b \in Agent, AgentNext(a, b) PROVE FollowInv'
    BY <2>0, <2>2, <2>3, <2>4, <2>5, AgentSteps, Nodes
  <2>6. ASSUME NEW c \in Client, NEW a \in Agent, Request(a, c) PROVE FollowInv'
    BY <2>0, <2>2, <2>6, RequestIs, Nodes DEF Quietly
  <2> QED BY <2>1, <2>5, <2>6, FollowSetup, FollowTold DEF Next, ClientNext
<1> QED BY <1>1, <1>2, PaxosTypes, PTL DEF Spec

\* Whatever the agents select and however ballots compete, what Client::receive
\* has collected is, with what is on its way to it, the end of the log of the
\* agent it asked: it misses nothing from its first request on.
THEOREM ClientsMissNothing == Spec => []ClientFollows
<1>1. FollowInv => ClientFollows
  <2> SUFFICES ASSUME FollowInv, NEW c \in Client
               PROVE  LET stored == [i \in DOMAIN agent[Target[c]].storage |-> agent[Target[c]].storage[i].val]
                          coming == chan[Target[c]][c]
                          known == client[c].log \o [i \in DOMAIN coming |-> coming[i].val]
                      IN  Len(known) <= Len(stored)
                          /\ known = SubSeq(stored, Len(stored) - Len(known) + 1, Len(stored))
    BY DEF ClientFollows
  <2>0. c \in Node /\ Target[c] \in Agent /\ Target[c] \in Node /\ TypeOK
    BY Nodes DEF FollowInv
  <2>1. client[c].log \in Seq(Val) /\ chan[Target[c]][c] \in Seq(Message)
    BY <2>0 DEF TypeOK
  <2>2. agent[Target[c]].storage \in Seq(Stored)
    BY <2>0 DEF TypeOK, Stored
  <2>3. Follows(client[c].log, chan[Target[c]][c], agent[Target[c]].storage)
    BY DEF FollowInv, ClientOK
  <2> QED BY <2>1, <2>2, <2>3, FollowsIs
<1> QED BY <1>1, FollowSafe, PTL

-----------------------------------------------------------------------------
(* One proposer: all clients ask the same agent.                           *)

OneAt(p) == \A c \in Client : Target[c] = p

\* What is selected and not stored yet, and what is stored.
News(q) == {[seq |-> q[i].seq, val |-> q[i].val] : i \in {j \in DOMAIN q : q[j].type = "Selected"}}
Known(stored, q) == Range(stored) \cup News(q)

\* A log and what comes from the proposer are in the order of the ballots, none
\* above top.
InLine(stored, q, top) ==
  /\ \A i, j \in DOMAIN stored : i < j => stored[i].seq < stored[j].seq
  /\ \A i, j \in DOMAIN q :
       i < j /\ q[i].type = "Selected" /\ q[j].type = "Selected" => q[i].seq < q[j].seq
  /\ \A i \in DOMAIN stored, j \in DOMAIN q :
       q[j].type = "Selected" => stored[i].seq < q[j].seq
  /\ \A i \in DOMAIN stored : stored[i].seq <= top
  /\ \A j \in DOMAIN q : q[j].type = "Selected" => q[j].seq <= top

\* Only the proposer proposes and is answered.
Directed(p, x, y, m) ==
  /\ m.type \in {"Prepare", "Accept", "Selected"} => x = p
  /\ m.type \in {"Request", "Promise", "Accepted"} => y = p
DirectedOK(p) == \A x, y \in Node : \A i \in DOMAIN chan[x][y] : Directed(p, x, y, chan[x][y][i])

\* What all agents know or will know is the same.
AgreeInv(p) ==
  /\ DirectedOK(p)
  /\ \A a \in Agent : InLine(agent[a].storage, chan[p][a], agent[p].seq_accepted)
  /\ \A a, b \in Agent :
       Known(agent[a].storage, chan[p][a]) = Known(agent[b].storage, chan[p][b])

\* What is selected has a ballot and a value.
LEMMA NewsTypes ==
  ASSUME NEW q \in Seq(Message), NEW i \in DOMAIN q, q[i].type = "Selected"
  PROVE  q[i].seq \in Nat /\ q[i].val \in Val
<1>1. q[i] \in Message
  OBVIOUS
<1> QED BY <1>1, Fields

\* Nothing new is received,
LEMMA LineTail ==
  ASSUME NEW stored \in Seq(Stored), NEW q \in Seq(Message), NEW top \in Nat,
         InLine(stored, q, top), q # <<>>, Head(q).type # "Selected"
  PROVE  InLine(stored, Tail(q), top) /\ Known(stored, Tail(q)) = Known(stored, q)
<1> DEFINE r == Tail(q)
<1>1. /\ \A i \in DOMAIN r : i + 1 \in DOMAIN q /\ r[i] = q[i + 1] /\ i \in Nat
      /\ \A j \in DOMAIN q : j \in Nat /\ (j = 1 \/ (j - 1 \in DOMAIN r /\ r[j - 1] = q[j]))
      /\ Head(q) = q[1]
  OBVIOUS
<1> HIDE DEF r
<1>2. InLine(stored, r, top)
  <2>1. ASSUME NEW i \in DOMAIN r, NEW j \in DOMAIN r, i < j, r[i].type = "Selected", r[j].type = "Selected"
        PROVE  r[i].seq < r[j].seq
    <3>1. /\ i + 1 \in DOMAIN q /\ r[i] = q[i + 1] /\ j + 1 \in DOMAIN q /\ r[j] = q[j + 1]
          /\ i + 1 < j + 1
      BY <1>1, <2>1
    <3> QED BY <2>1, <3>1 DEF InLine
  <2>2. ASSUME NEW i \in DOMAIN stored, NEW j \in DOMAIN r, r[j].type = "Selected"
        PROVE  stored[i].seq < r[j].seq
    BY <1>1, <2>2 DEF InLine
  <2>3. \A j \in DOMAIN r : r[j].type = "Selected" => r[j].seq <= top
    BY <1>1 DEF InLine
  <2>4. /\ \A i, j \in DOMAIN stored : i < j => stored[i].seq < stored[j].seq
        /\ \A i \in DOMAIN stored : stored[i].seq <= top
    BY DEF InLine
  <2> QED BY <2>1, <2>2, <2>3, <2>4 DEF InLine
<1>3. News(r) = News(q)
  <2>1. ASSUME NEW i \in DOMAIN r, r[i].type = "Selected"
        PROVE  \E j \in DOMAIN q : q[j].type = "Selected" /\ q[j] = r[i]
    BY <1>1, <2>1
  <2>2. ASSUME NEW j \in DOMAIN q, q[j].type = "Selected"
        PROVE  \E i \in DOMAIN r : r[i].type = "Selected" /\ q[j] = r[i]
    BY <1>1, <2>2
  <2>3. ASSUME NEW x \in News(q) PROVE x \in News(r)
    BY <2>2 DEF News
  <2>4. ASSUME NEW x \in News(r) PROVE x \in News(q)
    BY <2>1 DEF News
  <2> QED BY <2>3, <2>4
<1> QED BY <1>2, <1>3 DEF Known, r

\* or sent.
LEMMA LineAppend ==
  ASSUME NEW stored \in Seq(Stored), NEW q \in Seq(Message), NEW top \in Nat, NEW m \in Message,
         InLine(stored, q, top), m.type # "Selected"
  PROVE  InLine(stored, Append(q, m), top) /\ Known(stored, Append(q, m)) = Known(stored, q)
<1> DEFINE r == Append(q, m)
           k == Len(q) + 1
<1>1. /\ \A i \in DOMAIN r : i \in DOMAIN q \/ i = k
      /\ \A j \in DOMAIN q : j \in DOMAIN r /\ r[j] = q[j]
      /\ r[k] = m
  OBVIOUS
<1> HIDE DEF r, k
<1>2. InLine(stored, r, top)
  BY <1>1 DEF InLine
<1>3. News(r) = News(q)
  <2>1. \A i \in DOMAIN r : r[i].type = "Selected" => i \in DOMAIN q /\ q[i] = r[i]
    BY <1>1
  <2>2. {j \in DOMAIN r : r[j].type = "Selected"} = {j \in DOMAIN q : q[j].type = "Selected"}
    BY <1>1, <2>1
  <2> QED BY <1>1, <2>2 DEF News
<1> QED BY <1>2, <1>3 DEF Known, r

\* The next ballot is selected,
LEMMA LineSelect ==
  ASSUME NEW stored \in Seq(Stored), NEW q \in Seq(Message), NEW top \in Nat, NEW m \in Message,
         InLine(stored, q, top), m.type = "Selected", m.seq > top
  PROVE  /\ InLine(stored, Append(q, m), m.seq)
         /\ Known(stored, Append(q, m)) = Known(stored, q) \cup {[seq |-> m.seq, val |-> m.val]}
<1> DEFINE r == Append(q, m)
           k == Len(q) + 1
<1>0. m.seq \in Nat
  BY Fields
<1>1. /\ \A i \in DOMAIN r : i \in DOMAIN q \/ i = k
      /\ \A j \in DOMAIN q : j \in DOMAIN r /\ r[j] = q[j] /\ j < k
      /\ k \in DOMAIN r /\ r[k] = m /\ k \in Nat /\ \A i \in DOMAIN r : i \in Nat /\ ~(k < i)
  OBVIOUS
<1>2. /\ \A i \in DOMAIN q : q[i].type = "Selected" => q[i].seq \in Nat
      /\ \A i \in DOMAIN stored : stored[i].seq \in Nat
  <2>1. \A i \in DOMAIN stored : stored[i] \in Stored
    OBVIOUS
  <2> QED BY <2>1, NewsTypes DEF Stored
<1> HIDE DEF r, k
<1>3. InLine(stored, r, m.seq)
  <2>1. \A i \in DOMAIN q : q[i].type = "Selected" => q[i].seq < m.seq
    BY <1>0, <1>2 DEF InLine
  <2>2. \A i \in DOMAIN stored : stored[i].seq < m.seq
    BY <1>0, <1>2 DEF InLine
  <2>3. ASSUME NEW i \in DOMAIN r, NEW j \in DOMAIN r, i < j, r[i].type = "Selected", r[j].type = "Selected"
        PROVE  r[i].seq < r[j].seq
    BY <1>1, <2>1, <2>3 DEF InLine
  <2>4. ASSUME NEW i \in DOMAIN stored, NEW j \in DOMAIN r, r[j].type = "Selected"
        PROVE  stored[i].seq < r[j].seq
    BY <1>1, <2>2, <2>4 DEF InLine
  <2>5. \A i \in DOMAIN stored : stored[i].seq <= m.seq
    BY <1>0, <1>2, <2>2
  <2>6. ASSUME NEW j \in DOMAIN r, r[j].type = "Selected" PROVE r[j].seq <= m.seq
    BY <1>0, <1>1, <1>2, <2>1, <2>6
  <2>7. \A i, j \in DOMAIN stored : i < j => stored[i].seq < stored[j].seq
    BY DEF InLine
  <2> QED BY <2>3, <2>4, <2>5, <2>6, <2>7 DEF InLine
<1>4. News(r) = News(q) \cup {[seq |-> m.seq, val |-> m.val]}
  <2>1. {j \in DOMAIN r : r[j].type = "Selected"} = {j \in DOMAIN q : q[j].type = "Selected"} \cup {k}
    BY <1>1
  <2> QED BY <1>1, <2>1 DEF News
<1> QED BY <1>3, <1>4 DEF Known, r

\* and stored.
LEMMA LineStore ==
  ASSUME NEW stored \in Seq(Stored), NEW q \in Seq(Message), NEW top \in Nat,
         InLine(stored, q, top), q # <<>>, Head(q).type = "Selected"
  PROVE  LET longer == Append(stored, [seq |-> Head(q).seq, val |-> Head(q).val])
         IN  InLine(longer, Tail(q), top) /\ Known(longer, Tail(q)) = Known(stored, q)
<1> DEFINE r == Tail(q)
           e == [seq |-> Head(q).seq, val |-> Head(q).val]
           longer == Append(stored, e)
           k == Len(stored) + 1
<1>1. /\ \A i \in DOMAIN r : i + 1 \in DOMAIN q /\ r[i] = q[i + 1] /\ i \in Nat /\ i > 0
      /\ \A j \in DOMAIN q : j \in Nat /\ (j = 1 \/ (j - 1 \in DOMAIN r /\ r[j - 1] = q[j]))
      /\ Head(q) = q[1] /\ 1 \in DOMAIN q
  OBVIOUS
<1>2. /\ \A i \in DOMAIN q : q[i].type = "Selected" => q[i].seq \in Nat /\ q[i].val \in Val
      /\ \A i \in DOMAIN stored : stored[i].seq \in Nat
  <2>1. \A i \in DOMAIN stored : stored[i] \in Stored
    OBVIOUS
  <2> QED BY <2>1, NewsTypes DEF Stored
<1>3. e \in Stored /\ e.seq = q[1].seq /\ e.val = q[1].val /\ q[1].type = "Selected"
  BY <1>1, <1>2 DEF Stored
<1> HIDE DEF r, e
<1>4. /\ \A i \in DOMAIN longer : (i \in DOMAIN stored \/ i = k) /\ i \in Nat /\ ~(k < i)
      /\ \A j \in DOMAIN stored : j \in DOMAIN longer /\ longer[j] = stored[j] /\ j < k
      /\ k \in DOMAIN longer /\ longer[k] = e /\ k \in Nat
  BY <1>3
<1> HIDE DEF longer, k
<1>5. InLine(longer, r, top)
  <2>1. ASSUME NEW i \in DOMAIN longer, NEW j \in DOMAIN longer, i < j
        PROVE  longer[i].seq < longer[j].seq
    <3>1. i \in DOMAIN stored /\ (j \in DOMAIN stored \/ j = k)
      BY <1>4, <2>1
    <3>2. CASE j \in DOMAIN stored
      BY <1>4, <2>1, <3>1, <3>2 DEF InLine
    <3>3. CASE j = k
      <4>1. stored[i].seq < q[1].seq
        BY <1>1, <1>3, <3>1 DEF InLine
      <4> QED BY <1>3, <1>4, <3>1, <3>3, <4>1
    <3> QED BY <3>1, <3>2, <3>3
  <2>2. ASSUME NEW i \in DOMAIN r, NEW j \in DOMAIN r, i < j, r[i].type = "Selected", r[j].type = "Selected"
        PROVE  r[i].seq < r[j].seq
    BY <1>1, <2>2 DEF InLine
  <2>3. ASSUME NEW i \in DOMAIN longer, NEW j \in DOMAIN r, r[j].type = "Selected"
        PROVE  longer[i].seq < r[j].seq
    <3>1. j + 1 \in DOMAIN q /\ r[j] = q[j + 1] /\ q[j + 1].type = "Selected" /\ 1 < j + 1
      BY <1>1, <2>3
    <3>2. CASE i \in DOMAIN stored
      BY <1>4, <3>1, <3>2 DEF InLine
    <3>3. CASE i = k
      <4>1. q[1].seq < q[j + 1].seq
        BY <1>1, <1>3, <3>1 DEF InLine
      <4> QED BY <1>3, <1>4, <3>1, <3>3, <4>1
    <3> QED BY <1>4, <3>2, <3>3
  <2>4. \A i \in DOMAIN longer : longer[i].seq <= top
    BY <1>1, <1>3, <1>4 DEF InLine
  <2>5. \A j \in DOMAIN r : r[j].type = "Selected" => r[j].seq <= top
    BY <1>1 DEF InLine
  <2> QED BY <2>1, <2>2, <2>3, <2>4, <2>5 DEF InLine
<1>6. News(q) = News(r) \cup {e}
  <2>0. e = [seq |-> q[1].seq, val |-> q[1].val]
    BY <1>1 DEF e
  <2>1. ASSUME NEW i \in DOMAIN r, r[i].type = "Selected"
        PROVE  \E j \in DOMAIN q : q[j].type = "Selected" /\ q[j] = r[i]
    BY <1>1, <2>1
  <2>2. ASSUME NEW j \in DOMAIN q, q[j].type = "Selected", j # 1
        PROVE  \E i \in DOMAIN r : r[i].type = "Selected" /\ q[j] = r[i]
    BY <1>1, <2>2
  <2>3. ASSUME NEW x \in News(q) PROVE x \in News(r) \cup {e}
    <3>1. PICK j \in DOMAIN q : q[j].type = "Selected" /\ x = [seq |-> q[j].seq, val |-> q[j].val]
      BY DEF News
    <3>2. CASE j = 1
      BY <2>0, <3>1, <3>2
    <3>3. CASE j # 1
      BY <2>2, <3>1, <3>3 DEF News
    <3> QED BY <3>2, <3>3
  <2>4. ASSUME NEW x \in News(r) PROVE x \in News(q)
    BY <2>1 DEF News
  <2>5. e \in News(q)
    BY <1>1, <1>3, <2>0 DEF News
  <2> QED BY <2>3, <2>4, <2>5
<1>7. Range(longer) = Range(stored) \cup {e}
  BY <1>4 DEF Range
<1> QED BY <1>5, <1>6, <1>7 DEF Known, longer, r, e

\* A log that is the same as another so far has the other's next entry next, or
\* one of a later ballot: what it still waits for is of a later ballot too.
LEMMA LineNext ==
  ASSUME NEW s \in Seq(Stored), NEW t \in Seq(Stored), NEW q \in Seq(Message), NEW r \in Seq(Message),
         NEW top, InLine(s, q, top), InLine(t, r, top), Known(s, q) = Known(t, r),
         NEW i \in DOMAIN s, i \in DOMAIN t, \A j \in 1..(i - 1) : s[j] = t[j]
  PROVE  s[i] = t[i] \/ t[i].seq < s[i].seq
<1>0. /\ DOMAIN s = 1..Len(s) /\ DOMAIN t = 1..Len(t) /\ Len(s) \in Nat /\ Len(t) \in Nat
  OBVIOUS
<1>1. s[i] \in Known(t, r)
  BY DEF Known, Range
<1>2. CASE s[i] \in Range(t)
  <2>1. PICK j \in DOMAIN t : s[i] = t[j]
    BY <1>2 DEF Range
  <2>2. CASE j < i
    <3>1. j \in DOMAIN s /\ s[j] = t[j] /\ s[j].seq < s[i].seq
      <4>1. j \in 1..(i - 1)
        BY <1>0, <2>2
      <4>2. j \in DOMAIN s
        BY <1>0, <4>1
      <4> QED BY <2>2, <4>1, <4>2 DEF InLine
    <3>2. s[i] \in Stored
      OBVIOUS
    <3>3. s[i].seq \in Nat /\ s[i].seq < s[i].seq
      BY <2>1, <3>1, <3>2 DEF Stored
    <3> QED BY <3>3
  <2>3. CASE i < j
    BY <2>1, <2>3 DEF InLine
  <2> QED BY <1>0, <2>1, <2>2, <2>3
<1>3. CASE s[i] \in News(r)
  <2>1. PICK j \in DOMAIN r : r[j].type = "Selected" /\ s[i] = [seq |-> r[j].seq, val |-> r[j].val]
    BY <1>3 DEF News
  <2>2. t[i].seq < r[j].seq
    BY <2>1 DEF InLine
  <2> QED BY <2>1, <2>2
<1> QED BY <1>1, <1>2, <1>3 DEF Known

\* Two logs in order, that know the same with what comes, are the same as far as
\* both go.
LEMMA LogsPrefix ==
  ASSUME NEW s \in Seq(Stored), NEW t \in Seq(Stored), NEW q \in Seq(Message), NEW r \in Seq(Message),
         NEW top, InLine(s, q, top), InLine(t, r, top), Known(s, q) = Known(t, r)
  PROVE  \A i \in DOMAIN s \cap DOMAIN t : s[i] = t[i]
<1>0. /\ DOMAIN s = 1..Len(s) /\ DOMAIN t = 1..Len(t) /\ Len(s) \in Nat /\ Len(t) \in Nat
  OBVIOUS
<1>1. ASSUME NEW i \in Nat, i \in DOMAIN s, i \in DOMAIN t, \A j \in 1..(i - 1) : s[j] = t[j]
      PROVE  s[i] = t[i]
  <2>1. s[i] = t[i] \/ t[i].seq < s[i].seq
    BY <1>1, LineNext
  <2>2. t[i] = s[i] \/ s[i].seq < t[i].seq
    <3>1. Known(t, r) = Known(s, q) /\ \A j \in 1..(i - 1) : t[j] = s[j]
      BY <1>1
    <3> QED BY <1>1, <3>1, LineNext
  <2>3. s[i] \in Stored /\ t[i] \in Stored
    BY <1>1
  <2>4. s[i].seq \in Nat /\ t[i].seq \in Nat
    BY <2>3 DEF Stored
  <2> QED BY <2>1, <2>2, <2>4
<1> DEFINE Bad == {i \in Nat : i \in DOMAIN s /\ i \in DOMAIN t /\ s[i] # t[i]}
<1>2. CASE Bad = {}
  BY <1>0, <1>2
<1>3. CASE Bad # {}
  <2>0. Bad \subseteq Nat
    OBVIOUS
  <2>1. PICK i \in Bad : \A j \in Bad : ~(<<j, i>> \in OpToRel(<, Nat))
    <3> HIDE DEF Bad
    <3> QED BY <1>3, <2>0, WFMin, NatLessThanWellFounded
  <2>2. ASSUME NEW j \in 1..(i - 1) PROVE s[j] = t[j]
    <3>1. j \in Nat /\ j < i /\ j \in DOMAIN s /\ j \in DOMAIN t
      BY <1>0
    <3>2. j \notin Bad
      BY <2>1, <3>1 DEF OpToRel
    <3> QED BY <3>1, <3>2
  <2> QED BY <1>1, <2>2
<1> QED BY <1>2, <1>3

\* Two logs in order that know the same are the same.
LEMMA LogsEqual ==
  ASSUME NEW s \in Seq(Stored), NEW t \in Seq(Stored), NEW top \in Nat,
         InLine(s, <<>>, top), InLine(t, <<>>, top), Known(s, <<>>) = Known(t, <<>>)
  PROVE  s = t
<1> DEFINE Less(u) == \A i, j \in DOMAIN u : i < j => u[i].seq < u[j].seq
<1>1. Less(s) /\ Less(t)
  BY DEF InLine
<1>2. Range(s) = Range(t)
  <2>1. News(<<>>) = {}
    BY DEF News
  <2> QED BY <2>1 DEF Known
<1>3. /\ DOMAIN s = 1..Len(s) /\ DOMAIN t = 1..Len(t) /\ Len(s) \in Nat /\ Len(t) \in Nat
      /\ \A i \in DOMAIN s : s[i].seq \in Nat
      /\ \A i \in DOMAIN t : t[i].seq \in Nat
  <2>1. (\A i \in DOMAIN s : s[i] \in Stored) /\ (\A i \in DOMAIN t : t[i] \in Stored)
    OBVIOUS
  <2> QED BY <2>1 DEF Stored
<1>4. /\ \A i \in DOMAIN s : \E j \in DOMAIN t : s[i] = t[j]
      /\ \A i \in DOMAIN t : \E j \in DOMAIN s : t[i] = s[j]
  BY <1>2 DEF Range
<1> HIDE DEF Less
<1>5. \A i \in DOMAIN s \cap DOMAIN t : s[i] = t[i]
  <2>1. <<>> \in Seq(Message)
    OBVIOUS
  <2> QED BY <2>1, LogsPrefix
<1>6. \A i \in Nat : i \in DOMAIN s /\ i \in DOMAIN t => s[i] = t[i]
  BY <1>5
<1>7. Len(s) = Len(t)
  <2>1. CASE Len(s) < Len(t)
    <3>1. Len(s) + 1 \in DOMAIN t
      BY <1>3, <2>1
    <3>2. PICK j \in DOMAIN s : t[Len(s) + 1] = s[j]
      BY <1>4, <3>1
    <3>3. s[j] = t[j] /\ j \in DOMAIN t /\ j < Len(s) + 1
      BY <1>3, <1>6, <2>1
    <3>4. t[j].seq < t[Len(s) + 1].seq
      BY <1>1, <3>1, <3>3 DEF Less
    <3>5. t[Len(s) + 1] = t[j] /\ t[j].seq \in Nat
      BY <1>3, <3>2, <3>3
    <3>6. t[j].seq < t[j].seq
      BY <3>4, <3>5
    <3> QED BY <3>5, <3>6
  <2>2. CASE Len(t) < Len(s)
    <3>1. Len(t) + 1 \in DOMAIN s
      BY <1>3, <2>2
    <3>2. PICK j \in DOMAIN t : s[Len(t) + 1] = t[j]
      BY <1>4, <3>1
    <3>3. s[j] = t[j] /\ j \in DOMAIN s /\ j < Len(t) + 1
      BY <1>3, <1>6, <2>2
    <3>4. s[j].seq < s[Len(t) + 1].seq
      BY <1>1, <3>1, <3>3 DEF Less
    <3>5. s[Len(t) + 1] = s[j] /\ s[j].seq \in Nat
      BY <1>3, <3>2, <3>3
    <3>6. s[j].seq < s[j].seq
      BY <3>4, <3>5
    <3> QED BY <3>5, <3>6
  <2>3. Len(s) \in Nat /\ Len(t) \in Nat
    OBVIOUS
  <2>4. ~(Len(s) < Len(t)) /\ ~(Len(t) < Len(s)) => Len(s) = Len(t)
    BY <2>3
  <2> QED BY <2>1, <2>2, <2>4
<1>8. \A i \in 1..Len(s) : s[i] = t[i]
  BY <1>3, <1>6, <1>7
<1> QED BY <1>3, <1>7, <1>8, SeqEqual

\* What is left of a channel is directed right, and what is sent should be.
LEMMA RestDirected ==
  ASSUME TypeOK, NEW p, DirectedOK(p), NEW s \in Node, NEW n \in Node, NEW x \in Node, NEW y \in Node,
         chan[s][n] # <<>>
  PROVE  \A i \in DOMAIN Rest(s, n, x, y) : Directed(p, x, y, Rest(s, n, x, y)[i])
<1> SUFFICES ASSUME NEW i \in DOMAIN Rest(s, n, x, y) PROVE Directed(p, x, y, Rest(s, n, x, y)[i])
  OBVIOUS
<1>1. \A j \in DOMAIN chan[x][y] : Directed(p, x, y, chan[x][y][j])
  BY DEF DirectedOK
<1>2. \E j \in DOMAIN chan[x][y] : Rest(s, n, x, y)[i] = chan[x][y][j]
  BY RestIs
<1> QED BY <1>1, <1>2

LEMMA DirectedAppend ==
  ASSUME NEW p, NEW x, NEW y, NEW q \in Seq(Message), NEW m \in Message, Directed(p, x, y, m),
         \A i \in DOMAIN q : Directed(p, x, y, q[i])
  PROVE  \A i \in DOMAIN Append(q, m) : Directed(p, x, y, Append(q, m)[i])
<1> SUFFICES ASSUME NEW i \in DOMAIN Append(q, m) PROVE Directed(p, x, y, Append(q, m)[i])
  OBVIOUS
<1>1. (i \in DOMAIN q /\ Append(q, m)[i] = q[i]) \/ Append(q, m)[i] = m
  BY AppendElem
<1> QED BY <1>1

LEMMA DirectedStep ==
  ASSUME TypeOK, NEW p, DirectedOK(p), NEW s \in Node, NEW n \in Node, chan[s][n] # <<>>,
         NEW m \in Message, NEW a \in Node, NEW targets,
         \A x, y \in Node :
           /\ Rest(s, n, x, y) \in Seq(Message)
           /\ \/ chan'[x][y] = Rest(s, n, x, y)
              \/ x = a /\ y \in targets /\ chan'[x][y] = Append(Rest(s, n, x, y), m),
         \A y \in targets : Directed(p, a, y, m)
  PROVE  DirectedOK(p)'
<1> SUFFICES ASSUME NEW x \in Node, NEW y \in Node
             PROVE  \A i \in DOMAIN chan'[x][y] : Directed(p, x, y, chan'[x][y][i])
  BY DEF DirectedOK, Directed
<1> DEFINE q == Rest(s, n, x, y)
<1>1. q \in Seq(Message)
  OBVIOUS
<1>2. \A i \in DOMAIN q : Directed(p, x, y, q[i])
  BY RestDirected
<1>3. chan'[x][y] = q \/ (x = a /\ y \in targets /\ chan'[x][y] = Append(q, m))
  OBVIOUS
<1>4. y \in targets => Directed(p, a, y, m)
  OBVIOUS
<1> HIDE DEF q
<1>5. CASE chan'[x][y] = q
  BY <1>2, <1>5
<1>6. CASE x = a /\ y \in targets /\ chan'[x][y] = Append(q, m)
  <2>1. \A i \in DOMAIN Append(q, m) : Directed(p, x, y, Append(q, m)[i])
    BY <1>1, <1>2, <1>4, <1>6, DirectedAppend
  <2> QED BY <1>6, <2>1
<1> QED BY <1>3, <1>5, <1>6

\* Taking a message that selects nothing changes nothing of the line.
LEMMA LineRest ==
  ASSUME TypeOK, NEW b \in Node, NEW a \in Node, NEW p \in Node, NEW x \in Node,
         chan[b][a] # <<>>, Head(chan[b][a]).type # "Selected",
         NEW stored \in Seq(Stored), NEW top \in Nat, InLine(stored, chan[p][x], top)
  PROVE  /\ Rest(b, a, p, x) \in Seq(Message) /\ InLine(stored, Rest(b, a, p, x), top)
         /\ Known(stored, Rest(b, a, p, x)) = Known(stored, chan[p][x])
<1> DEFINE q == chan[p][x]
<1>1. q \in Seq(Message)
  BY DEF TypeOK
<1>2. CASE p = b /\ x = a
  <2>1. Rest(b, a, p, x) = Tail(q) /\ q # <<>> /\ Head(q).type # "Selected"
    BY <1>2 DEF Rest
  <2>2. InLine(stored, q, top)
    OBVIOUS
  <2> HIDE DEF q
  <2>3. Tail(q) \in Seq(Message)
    BY <1>1, <2>1
  <2>4. InLine(stored, Tail(q), top) /\ Known(stored, Tail(q)) = Known(stored, q)
    BY <1>1, <2>1, <2>2, LineTail
  <2> QED BY <2>1, <2>3, <2>4 DEF q
<1>3. CASE ~(p = b /\ x = a)
  BY <1>1, <1>3 DEF Rest
<1> QED BY <1>2, <1>3

\* The types of what the invariant speaks of.
LEMMA AgreeTypes ==
  ASSUME TypeOK, NEW p \in Agent, NEW x \in Agent
  PROVE  /\ agent[x].storage \in Seq(Stored) /\ agent[x].seq_accepted \in Nat
         /\ chan[p][x] \in Seq(Message) /\ p \in Node /\ x \in Node
<1>1. p \in Node /\ x \in Node
  BY Nodes
<1>2. agent[x].storage \in Seq(Stored)
  BY DEF TypeOK, Stored
<1>3. agent[x].seq_accepted \in Nat
  BY DEF TypeOK
<1>4. chan[p][x] \in Seq(Message)
  BY <1>1 DEF TypeOK
<1> QED BY <1>1, <1>2, <1>3, <1>4

\* The invariant is kept by a step after which each agent knows what it knew,
\* or all of them one thing more.
LEMMA AgreeMoves ==
  ASSUME NEW p, AgreeInv(p), DirectedOK(p)', NEW more,
         \A x \in Agent :
           /\ InLine(agent'[x].storage, chan'[p][x], agent'[p].seq_accepted)
           /\ Known(agent'[x].storage, chan'[p][x]) = Known(agent[x].storage, chan[p][x]) \cup more
  PROVE  AgreeInv(p)'
<1>1. ASSUME NEW a \in Agent, NEW b \in Agent
      PROVE  Known(agent'[a].storage, chan'[p][a]) = Known(agent'[b].storage, chan'[p][b])
  <2>1. Known(agent[a].storage, chan[p][a]) = Known(agent[b].storage, chan[p][b])
    BY DEF AgreeInv
  <2> QED BY <2>1
<1>2. /\ \A a \in Agent : InLine(agent'[a].storage, chan'[p][a], agent'[p].seq_accepted)
      /\ \A a, b \in Agent : Known(agent'[a].storage, chan'[p][a]) = Known(agent'[b].storage, chan'[p][b])
  BY <1>1
<1> QED BY <1>2 DEF AgreeInv

\* A step that selects nothing and stores nothing.
LEMMA AgreeQuiet ==
  ASSUME TypeOK, NEW p \in Agent, OneAt(p), AgreeInv(p), NEW a \in Agent, NEW b \in Node,
         NEW s \in AgentState, NEW targets \in SUBSET Agent, NEW m \in Message,
         Quiet(a, b, s, targets, m)
  PROVE  AgreeInv(p)'
<1> DEFINE h == Head(chan[b][a])
<1>1. /\ chan[b][a] # <<>> /\ a \in Node /\ Handles(a, b, s, targets, m)
      /\ Answers(b, h.type, targets, m)
      /\ s.storage = agent[a].storage /\ s.seq_accepted = agent[a].seq_accepted
  BY Nodes DEF Quiet, Handles
<1>2. Directed(p, b, a, h)
  <2>1. chan[b][a] \in Seq(Message)
    BY <1>1 DEF TypeOK
  <2>2. 1 \in DOMAIN chan[b][a] /\ h = chan[b][a][1]
    BY <1>1, <2>1
  <2> QED BY <1>1, <2>2 DEF AgreeInv, DirectedOK
<1>3. h.type # "Selected" /\ (targets # {} => m.type # "Selected")
  BY <1>1 DEF Answers
<1>4. \A y \in targets : Directed(p, a, y, m)
  <2> HIDE DEF h
  <2> QED BY <1>1, <1>2 DEF Answers, Directed
<1>5. /\ agent'[a] = s /\ \A x \in Agent : x # a => agent'[x] = agent[x]
      /\ \A x, y \in Node :
           /\ Rest(b, a, x, y) \in Seq(Message)
           /\ chan'[x][y] = IF x = a /\ y \in targets THEN Append(Rest(b, a, x, y), m)
                            ELSE Rest(b, a, x, y)
  BY <1>1, HandlesOK
<1>6. DirectedOK(p)'
  <2>1. \A x, y \in Node :
           /\ Rest(b, a, x, y) \in Seq(Message)
           /\ \/ chan'[x][y] = Rest(b, a, x, y)
              \/ x = a /\ y \in targets /\ chan'[x][y] = Append(Rest(b, a, x, y), m)
    BY <1>5
  <2>2. DirectedOK(p)
    BY DEF AgreeInv
  <2> QED BY <1>1, <1>4, <2>1, <2>2, DirectedStep
<1>7. ASSUME NEW x \in Agent
      PROVE  /\ InLine(agent'[x].storage, chan'[p][x], agent'[p].seq_accepted)
             /\ Known(agent'[x].storage, chan'[p][x]) = Known(agent[x].storage, chan[p][x]) \cup {}
  <2> DEFINE stored == agent[x].storage
             top == agent[p].seq_accepted
             r == Rest(b, a, p, x)
  <2>1. agent'[x].storage = stored /\ agent'[p].seq_accepted = top
    BY <1>1, <1>5
  <2>2. stored \in Seq(Stored) /\ top \in Nat /\ p \in Node /\ x \in Node
    BY AgreeTypes
  <2>3. InLine(stored, chan[p][x], top)
    BY DEF AgreeInv
  <2>4. chan'[p][x] = r \/ (chan'[p][x] = Append(r, m) /\ m.type # "Selected")
    BY <1>3, <1>5, <2>2
  <2> HIDE DEF stored, top
  <2>5. r \in Seq(Message) /\ InLine(stored, r, top) /\ Known(stored, r) = Known(stored, chan[p][x])
    BY <1>1, <1>3, <2>2, <2>3, LineRest
  <2> HIDE DEF r
  <2>6. m.type # "Selected" =>
          InLine(stored, Append(r, m), top) /\ Known(stored, Append(r, m)) = Known(stored, r)
    BY <2>2, <2>5, LineAppend
  <2>7. InLine(stored, chan'[p][x], top) /\ Known(stored, chan'[p][x]) = Known(stored, chan[p][x])
    BY <2>4, <2>5, <2>6
  <2> QED BY <2>1, <2>7 DEF stored
<1> QED BY <1>6, <1>7, AgreeMoves

\* A step that selects: the proposer takes the next ballot, and tells everybody.
LEMMA AgreeSelects ==
  ASSUME TypeOK, NEW p \in Agent, OneAt(p), AgreeInv(p), NEW a \in Agent, NEW b \in Agent,
         NEW s \in AgentState, NEW m \in Message, Selects(a, b, s, m)
  PROVE  AgreeInv(p)'
<1> DEFINE h == Head(chan[b][a])
           e == [seq |-> m.seq, val |-> m.val]
<1>1. /\ chan[b][a] # <<>> /\ a \in Node /\ b \in Node /\ Handles(a, b, s, Agent, m)
      /\ h.type = "Accepted" /\ m.type = "Selected" /\ m.seq > agent[a].seq_accepted
      /\ s.storage = agent[a].storage /\ s.seq_accepted = m.seq
  BY Nodes DEF Selects, Handles
<1>2. a = p
  <2>1. chan[b][a] \in Seq(Message)
    BY <1>1 DEF TypeOK
  <2>2. 1 \in DOMAIN chan[b][a] /\ h = chan[b][a][1]
    BY <1>1, <2>1
  <2>3. Directed(p, b, a, h)
    BY <1>1, <2>2 DEF AgreeInv, DirectedOK
  <2> QED BY <1>1, <2>3 DEF Directed
<1>3. \A y \in Agent : Directed(p, a, y, m)
  BY <1>1, <1>2 DEF Directed
<1>4. /\ agent'[a] = s /\ \A x \in Agent : x # a => agent'[x] = agent[x]
      /\ \A x, y \in Node :
           /\ Rest(b, a, x, y) \in Seq(Message)
           /\ chan'[x][y] = IF x = a /\ y \in Agent THEN Append(Rest(b, a, x, y), m)
                            ELSE Rest(b, a, x, y)
  BY <1>1, HandlesOK
<1>5. DirectedOK(p)'
  <2>1. \A x, y \in Node :
           /\ Rest(b, a, x, y) \in Seq(Message)
           /\ \/ chan'[x][y] = Rest(b, a, x, y)
              \/ x = a /\ y \in Agent /\ chan'[x][y] = Append(Rest(b, a, x, y), m)
    BY <1>4
  <2>2. DirectedOK(p)
    BY DEF AgreeInv
  <2> QED BY <1>1, <1>3, <2>1, <2>2, DirectedStep
<1>6. ASSUME NEW x \in Agent
      PROVE  /\ InLine(agent'[x].storage, chan'[p][x], agent'[p].seq_accepted)
             /\ Known(agent'[x].storage, chan'[p][x]) = Known(agent[x].storage, chan[p][x]) \cup {e}
  <2> DEFINE stored == agent[x].storage
             top == agent[p].seq_accepted
             r == Rest(b, a, p, x)
  <2>1. agent'[x].storage = stored /\ agent'[p].seq_accepted = m.seq /\ m.seq > top
    BY <1>1, <1>2, <1>4
  <2>2. stored \in Seq(Stored) /\ top \in Nat /\ p \in Node /\ x \in Node
    BY AgreeTypes
  <2>3. InLine(stored, chan[p][x], top)
    BY DEF AgreeInv
  <2>4. chan'[p][x] = Append(r, m)
    BY <1>2, <1>4, <2>2
  <2> HIDE DEF stored, top
  <2>5. r \in Seq(Message) /\ InLine(stored, r, top) /\ Known(stored, r) = Known(stored, chan[p][x])
    BY <1>1, <2>2, <2>3, LineRest
  <2> HIDE DEF r
  <2>6. InLine(stored, Append(r, m), m.seq) /\ Known(stored, Append(r, m)) = Known(stored, r) \cup {e}
    BY <1>1, <2>1, <2>2, <2>5, LineSelect
  <2> QED BY <2>1, <2>4, <2>5, <2>6 DEF stored
<1> QED BY <1>5, <1>6, AgreeMoves

\* A step that stores what the proposer has selected.
LEMMA AgreeStores ==
  ASSUME FollowInv, NEW p \in Agent, OneAt(p), AgreeInv(p), NEW a \in Agent, NEW b \in Agent,
         NEW s \in AgentState, NEW m \in Message, Stores(a, b, s, m)
  PROVE  AgreeInv(p)'
<1>1. /\ chan[b][a] # <<>> /\ a \in Node /\ b \in Node /\ Handles(a, b, s, agent[a].clients, m)
      /\ m = Head(chan[b][a]) /\ m.type = "Selected"
      /\ s.storage = Append(agent[a].storage, [seq |-> m.seq, val |-> m.val])
      /\ s.seq_accepted = agent[a].seq_accepted /\ TypeOK
  BY Nodes DEF FollowInv, Stores, Handles
<1>2. b = p
  <2>1. chan[b][a] \in Seq(Message)
    BY <1>1 DEF TypeOK
  <2>2. 1 \in DOMAIN chan[b][a] /\ m = chan[b][a][1]
    BY <1>1, <2>1
  <2>3. Directed(p, b, a, m)
    BY <1>1, <2>2 DEF AgreeInv, DirectedOK
  <2> QED BY <1>1, <2>3 DEF Directed
<1>3. agent[a].clients \subseteq Client
  BY <1>1 DEF TypeOK
<1>4. \A y \in agent[a].clients : Directed(p, a, y, m)
  <2>1. \A y \in agent[a].clients : a = Target[y]
    BY <1>3 DEF FollowInv, ClientOK
  <2> QED BY <1>1, <1>3, <2>1 DEF OneAt, Directed
<1>5. /\ agent'[a] = s /\ \A x \in Agent : x # a => agent'[x] = agent[x]
      /\ \A x, y \in Node :
           /\ Rest(b, a, x, y) \in Seq(Message)
           /\ chan'[x][y] = IF x = a /\ y \in agent[a].clients THEN Append(Rest(b, a, x, y), m)
                            ELSE Rest(b, a, x, y)
  <2>1. TypeOK /\ b \in Node /\ Handles(a, b, s, agent[a].clients, m)
    BY <1>1
  <2> QED BY <2>1, HandlesOK
<1>6. DirectedOK(p)'
  <2>1. \A x, y \in Node :
           /\ Rest(b, a, x, y) \in Seq(Message)
           /\ \/ chan'[x][y] = Rest(b, a, x, y)
              \/ /\ x = a /\ y \in agent[a].clients
                 /\ chan'[x][y] = Append(Rest(b, a, x, y), m)
    BY <1>5
  <2>2. DirectedOK(p)
    BY DEF AgreeInv
  <2>3. PICK targets : targets = agent[a].clients
    OBVIOUS
  <2>4. /\ TypeOK /\ a \in Node /\ b \in Node /\ chan[b][a] # <<>>
        /\ \A y \in targets : Directed(p, a, y, m)
    BY <1>1, <1>4, <2>3
  <2>5. \A x, y \in Node :
           /\ Rest(b, a, x, y) \in Seq(Message)
           /\ \/ chan'[x][y] = Rest(b, a, x, y)
              \/ x = a /\ y \in targets /\ chan'[x][y] = Append(Rest(b, a, x, y), m)
    BY <2>1, <2>3
  <2> QED BY <2>2, <2>4, <2>5, DirectedStep
<1>7. ASSUME NEW x \in Agent
      PROVE  /\ InLine(agent'[x].storage, chan'[p][x], agent'[p].seq_accepted)
             /\ Known(agent'[x].storage, chan'[p][x]) = Known(agent[x].storage, chan[p][x]) \cup {}
  <2> DEFINE stored == agent[x].storage
             top == agent[p].seq_accepted
             q == chan[p][x]
  <2>1. agent'[p].seq_accepted = top
    BY <1>1, <1>5
  <2>2. stored \in Seq(Stored) /\ top \in Nat /\ p \in Node /\ x \in Node /\ q \in Seq(Message)
    BY <1>1, AgreeTypes
  <2>3. InLine(stored, q, top)
    BY DEF AgreeInv
  <2>4. chan'[p][x] = Rest(b, a, p, x)
    <3>1. x \notin agent[a].clients
      BY <1>3, Nodes
    <3> QED BY <1>5, <2>2, <3>1
  <2>5. CASE x = a
    <3>1. chan'[p][x] = Tail(q) /\ q # <<>> /\ m = Head(q)
      BY <1>1, <1>2, <2>4, <2>5 DEF Rest
    <3>2. agent'[x].storage = Append(stored, [seq |-> m.seq, val |-> m.val])
      BY <1>1, <1>5, <2>5
    <3> HIDE DEF stored, top, q
    <3>3. /\ InLine(Append(stored, [seq |-> m.seq, val |-> m.val]), Tail(q), top)
          /\ Known(Append(stored, [seq |-> m.seq, val |-> m.val]), Tail(q)) = Known(stored, q)
      BY <1>1, <2>2, <2>3, <3>1, LineStore
    <3> QED BY <2>1, <3>1, <3>2, <3>3 DEF stored, q
  <2>6. CASE x # a
    <3>1. chan'[p][x] = q /\ agent'[x].storage = stored
      BY <1>5, <2>4, <2>6 DEF Rest
    <3> QED BY <2>1, <2>3, <3>1
  <2> QED BY <2>5, <2>6
<1> QED BY <1>6, <1>7, AgreeMoves

\* A client asks, or is told.
LEMMA AgreeClient ==
  ASSUME TypeOK, NEW p \in Agent, OneAt(p), AgreeInv(p), NEW c \in Client, agent' = agent,
         \A x \in Agent : chan'[p][x] = chan[p][x], DirectedOK(p)'
  PROVE  AgreeInv(p)'
<1>1. \A x \in Agent :
        /\ InLine(agent'[x].storage, chan'[p][x], agent'[p].seq_accepted)
        /\ Known(agent'[x].storage, chan'[p][x]) = Known(agent[x].storage, chan[p][x]) \cup {}
  BY DEF AgreeInv
<1> QED BY <1>1, AgreeMoves

LEMMA AskDirected ==
  ASSUME NEW p \in Agent, OneAt(p), NEW c \in Client
  PROVE  Ask(c) \in Message /\ \A y \in {Target[c]} : Directed(p, c, y, Ask(c))
BY DEF OneAt, Ask, Directed, Message

LEMMA AgreeSetup ==
  ASSUME TypeOK, NEW p \in Agent, OneAt(p), AgreeInv(p), NEW c \in Client, Setup(c)
  PROVE  AgreeInv(p)'
<1>1. agent' = agent /\ \A x, y \in Node : chan'[x][y] = Asks(c, x, y, chan[x][y])
  BY SetupIs
<1>2. DirectedOK(p)'
  <2> SUFFICES ASSUME NEW x \in Node, NEW y \in Node
               PROVE  \A i \in DOMAIN chan'[x][y] : Directed(p, x, y, chan'[x][y][i])
    BY DEF DirectedOK, Directed
  <2> DEFINE q == chan[x][y]
  <2>1. q \in Seq(Message) /\ \A i \in DOMAIN q : Directed(p, x, y, q[i])
    BY DEF TypeOK, AgreeInv, DirectedOK
  <2>2. chan'[x][y] = q \/ (x = c /\ y = Target[c] /\ chan'[x][y] = Append(q, Ask(c)))
    BY <1>1 DEF Asks
  <2> HIDE DEF q
  <2>3. CASE chan'[x][y] = q
    BY <2>1, <2>3
  <2>4. CASE x = c /\ y = Target[c] /\ chan'[x][y] = Append(q, Ask(c))
    <3>1. \A i \in DOMAIN Append(q, Ask(c)) : Directed(p, x, y, Append(q, Ask(c))[i])
      BY <2>1, <2>4, AskDirected, DirectedAppend
    <3> QED BY <2>4, <3>1
  <2> QED BY <2>2, <2>3, <2>4
<1>3. \A x \in Agent : chan'[p][x] = chan[p][x]
  BY <1>1, Nodes DEF Asks
<1> QED BY <1>1, <1>2, <1>3, AgreeClient

LEMMA AgreeTold ==
  ASSUME TypeOK, NEW p \in Agent, OneAt(p), AgreeInv(p), NEW c \in Client, NEW a \in Agent, Told(c, a)
  PROVE  AgreeInv(p)'
<1>1. /\ agent' = agent /\ chan[a][c] # <<>> /\ a \in Node /\ c \in Node
      /\ \A x, y \in Node : /\ Rest(a, c, x, y) \in Seq(Message)
                            /\ \/ chan'[x][y] = Rest(a, c, x, y)
                               \/ chan'[x][y] = Asks(c, x, y, Rest(a, c, x, y))
  BY ToldIs, Nodes
<1>2. DirectedOK(p)'
  <2>1. \A x, y \in Node :
          /\ Rest(a, c, x, y) \in Seq(Message)
          /\ \/ chan'[x][y] = Rest(a, c, x, y)
             \/ x = c /\ y \in {Target[c]} /\ chan'[x][y] = Append(Rest(a, c, x, y), Ask(c))
    BY <1>1 DEF Asks
  <2>2. DirectedOK(p)
    BY DEF AgreeInv
  <2>3. Ask(c) \in Message /\ \A y \in {Target[c]} : Directed(p, c, y, Ask(c))
    BY AskDirected
  <2>4. PICK targets : targets = {Target[c]}
    OBVIOUS
  <2>5. PICK m : m = Ask(c)
    OBVIOUS
  <2>6. \A x, y \in Node :
          /\ Rest(a, c, x, y) \in Seq(Message)
          /\ \/ chan'[x][y] = Rest(a, c, x, y)
             \/ x = c /\ y \in targets /\ chan'[x][y] = Append(Rest(a, c, x, y), m)
    BY <2>1, <2>4, <2>5
  <2>7. m \in Message /\ \A y \in targets : Directed(p, c, y, m)
    BY <2>3, <2>4, <2>5
  <2>8. a \in Node /\ c \in Node /\ chan[a][c] # <<>>
    BY <1>1
  <2> QED BY <2>2, <2>6, <2>7, <2>8, DirectedStep
<1>3. ASSUME NEW x \in Agent PROVE chan'[p][x] = chan[p][x]
  <2>1. p \in Node /\ x \in Node /\ p # c /\ x # c
    BY Nodes
  <2>2. chan'[p][x] = Rest(a, c, p, x) \/ chan'[p][x] = Asks(c, p, x, Rest(a, c, p, x))
    BY <1>1, <2>1
  <2> QED BY <2>1, <2>2 DEF Asks, Rest
<1> QED BY <1>1, <1>2, <1>3, AgreeClient

\* With one proposer AgreeInv always holds.
LEMMA AgreeSafe ==
  ASSUME NEW p \in Agent, OneAt(p)
  PROVE  Spec => []AgreeInv(p)
<1>1. Init => AgreeInv(p)
  <2> SUFFICES ASSUME Init PROVE AgreeInv(p)
    OBVIOUS
  <2>1. /\ \A x, y \in Node : chan[x][y] = <<>>
        /\ \A a \in Agent : agent[a].storage = <<>> /\ agent[a].seq_accepted = 0 /\ a \in Node
    BY Nodes DEF Init
  <2>2. InLine(<<>>, <<>>, 0)
    BY DEF InLine
  <2>3. DirectedOK(p)
    BY <2>1 DEF DirectedOK
  <2>4. \A a \in Agent : InLine(agent[a].storage, chan[p][a], agent[p].seq_accepted)
    BY <2>1, <2>2
  <2>5. \A a, b \in Agent : Known(agent[a].storage, chan[p][a]) = Known(agent[b].storage, chan[p][b])
    BY <2>1
  <2> QED BY <2>3, <2>4, <2>5 DEF AgreeInv
<1>2. ASSUME FollowInv, AgreeInv(p), [Next]_vars PROVE AgreeInv(p)'
  <2>0. TypeOK
    BY <1>2 DEF FollowInv
  <2>1. CASE UNCHANGED vars
    BY <1>2, <2>1 DEF vars, AgreeInv, DirectedOK
  <2>2. ASSUME NEW a \in Agent, NEW b \in Node, Quietly(a, b) PROVE AgreeInv(p)'
    BY <1>2, <2>0, <2>2, AgreeQuiet DEF Quietly
  <2>3. ASSUME NEW a \in Agent, NEW b \in Agent, Selecting(a, b) PROVE AgreeInv(p)'
    BY <1>2, <2>0, <2>3, AgreeSelects DEF Selecting
  <2>4. ASSUME NEW a \in Agent, NEW b \in Agent, Storing(a, b) PROVE AgreeInv(p)'
    BY <1>2, <2>4, AgreeStores DEF Storing
  <2>5. ASSUME NEW a \in Agent, NEW b \in Agent, AgentNext(a, b) PROVE AgreeInv(p)'
    BY <2>0, <2>2, <2>3, <2>4, <2>5, AgentSteps, Nodes
  <2>6. ASSUME NEW c \in Client, NEW a \in Agent, Request(a, c) PROVE AgreeInv(p)'
    BY <2>0, <2>2, <2>6, RequestIs, Nodes DEF Quietly
  <2>7. ASSUME NEW c \in Client, Setup(c) PROVE AgreeInv(p)'
    BY <1>2, <2>0, <2>7, AgreeSetup
  <2>8. ASSUME NEW c \in Client, NEW a \in Agent, Told(c, a) PROVE AgreeInv(p)'
    BY <1>2, <2>0, <2>8, AgreeTold
  <2> QED BY <1>2, <2>1, <2>5, <2>6, <2>7, <2>8 DEF Next, ClientNext
<1> QED BY <1>1, <1>2, FollowSafe, PTL DEF Spec

\* When all clients ask the same agent, so that there is one proposer, every log
\* is in the order of the ballots, no two differ as far as both go, and whenever
\* nothing is on its way, all are the same: Agent::handle stores what was selected
\* everywhere, once and in the same order, however many requests overlap.
THEOREM OneProposerAgrees ==
  ASSUME \E p \in Agent : \A c \in Client : Target[c] = p
  PROVE  Spec => []LogsAgree
<1>1. PICK p \in Agent : OneAt(p)
  BY DEF OneAt
<1>2. ASSUME TypeOK, AgreeInv(p) PROVE LogsAgree
  <2>1. ASSUME NEW a \in Agent, NEW i \in DOMAIN agent[a].storage, NEW j \in DOMAIN agent[a].storage,
               i < j
        PROVE  agent[a].storage[i].seq < agent[a].storage[j].seq
    <3>1. InLine(agent[a].storage, chan[p][a], agent[p].seq_accepted)
      BY <1>2 DEF AgreeInv
    <3> QED BY <2>1, <3>1 DEF InLine
  <2>2. ASSUME NEW a \in Agent, NEW b \in Agent
        PROVE  \A i \in DOMAIN agent[a].storage \cap DOMAIN agent[b].storage :
                 agent[a].storage[i] = agent[b].storage[i]
    <3>1. /\ InLine(agent[a].storage, chan[p][a], agent[p].seq_accepted)
          /\ InLine(agent[b].storage, chan[p][b], agent[p].seq_accepted)
          /\ Known(agent[a].storage, chan[p][a]) = Known(agent[b].storage, chan[p][b])
      BY <1>2 DEF AgreeInv
    <3>2. /\ agent[a].storage \in Seq(Stored) /\ agent[b].storage \in Seq(Stored)
          /\ chan[p][a] \in Seq(Message) /\ chan[p][b] \in Seq(Message)
      BY <1>2, AgreeTypes
    <3> QED BY <3>1, <3>2, LogsPrefix
  <2>3. ASSUME \A s, d \in Node : chan[s][d] = <<>>, NEW a \in Agent, NEW b \in Agent
        PROVE  agent[a].storage = agent[b].storage
    <3>1. chan[p][a] = <<>> /\ chan[p][b] = <<>>
      BY <2>3, Nodes
    <3>2. /\ InLine(agent[a].storage, <<>>, agent[p].seq_accepted)
          /\ InLine(agent[b].storage, <<>>, agent[p].seq_accepted)
          /\ Known(agent[a].storage, <<>>) = Known(agent[b].storage, <<>>)
      BY <1>2, <3>1 DEF AgreeInv
    <3>3. /\ agent[a].storage \in Seq(Stored) /\ agent[b].storage \in Seq(Stored)
          /\ agent[p].seq_accepted \in Nat
      BY <1>2, AgreeTypes
    <3> QED BY <3>2, <3>3, LogsEqual
  <2> QED BY <2>1, <2>2, <2>3 DEF LogsAgree
<1>3. Spec => []AgreeInv(p)
  BY <1>1, AgreeSafe
<1> QED BY <1>2, <1>3, PaxosTypes, PTL

-----------------------------------------------------------------------------
(* The agents are a replicated log.                                      *)

\* The log that the agents keep, and what the clients are told of it.
Storages == [a \in Agent |-> agent[a].storage]
ToldLogs == [c \in Client |-> client[c].log]
LogStep == [Log!LogNext]_<<Storages, ToldLogs>>

\* What changes no log is a stutter.
LEMMA LogStutters ==
  ASSUME \A a \in Agent : agent'[a].storage = agent[a].storage,
         \A c \in Client : client'[c].log = client[c].log
  PROVE  LogStep
<1>1. Storages' = Storages
  BY DEF Storages
<1>2. ToldLogs' = ToldLogs
  BY DEF ToldLogs
<1> QED BY <1>1, <1>2 DEF LogStep

\* Storing is Store: what the others have at the same place is the same.
LEMMA LogStores ==
  ASSUME TypeOK, LogsAgree', NEW a \in Agent, NEW b \in Agent, NEW s \in AgentState,
         NEW m \in Message, Stores(a, b, s, m)
  PROVE  LogStep
<1>1. /\ agent'[a] = s /\ \A x \in Agent : x # a => agent'[x] = agent[x]
      /\ client' = client
  BY HandlesOK, Nodes DEF Stores
<1>2. PICK e : e = [seq |-> m.seq, val |-> m.val]
  OBVIOUS
<1>3. PICK before : before = agent[a].storage
  OBVIOUS
<1>4. PICK after : after = agent'[a].storage
  OBVIOUS
<1>5. before \in Seq(Stored)
  BY <1>3 DEF TypeOK, Stored
<1>6. after = Append(before, e)
  BY <1>1, <1>2, <1>3, <1>4 DEF Stores
<1>7. Log!Longer(before, after)
  BY <1>5, <1>6 DEF Log!Longer
<1>8. \A q \in Agent : Storages[q] = agent[q].storage /\ Storages'[q] = agent'[q].storage
  BY DEF Storages
<1>9. Log!Longer(Storages[a], Storages'[a])
  BY <1>3, <1>4, <1>7, <1>8
<1>10. \A q \in Agent \ {a} : Storages'[q] = Storages[q]
  BY <1>1, <1>8
<1>11. ASSUME NEW q \in Agent, NEW i \in DOMAIN Storages[q] \cap DOMAIN Storages'[a]
       PROVE  Storages[q][i] = Storages'[a][i]
  <2>1. CASE q = a
    <3>1. before[i] = after[i]
      BY <1>3, <1>7, <1>8, <1>11, <2>1 DEF Log!Longer
    <3> QED BY <1>3, <1>4, <1>8, <2>1, <3>1
  <2>2. CASE q # a
    <3>1. Storages[q] = agent'[q].storage
      BY <1>1, <1>8, <2>2
    <3>2. Storages'[a] = agent'[a].storage
      BY <1>8
    <3>3. agent'[q].storage[i] = agent'[a].storage[i]
      BY <1>11, <3>1, <3>2 DEF LogsAgree
    <3> QED BY <3>1, <3>2, <3>3
  <2> QED BY <2>1, <2>2
<1>12. UNCHANGED ToldLogs
  BY <1>1 DEF ToldLogs
<1> HIDE DEF Storages, ToldLogs
<1>13. Log!Store(a)
  BY <1>9, <1>10, <1>11, <1>12 DEF Log!Store, Storages, ToldLogs
<1> QED BY <1>13 DEF LogStep, Log!LogNext

\* Told is Learn: the client has a piece of the log before and after.
LEMMA LogLearns ==
  ASSUME TypeOK, FollowInv', NEW c \in Client, NEW a \in Agent, Told(c, a)
  PROVE  LogStep
<1>1. /\ agent' = agent /\ chan[a][c] \in Seq(Message) /\ chan[a][c] # <<>>
      /\ client'[c].log = Append(client[c].log, Head(chan[a][c]).val)
      /\ \A d \in Client : d # c => client'[d] = client[d]
  BY ToldIs
<1>2. PICK t \in Agent : t = Target[c]
  BY PaxosAssumption
<1>3. PICK before : before = client[c].log
  OBVIOUS
<1>4. PICK after : after = client'[c].log
  OBVIOUS
<1>5. PICK stored : stored = agent[t].storage
  OBVIOUS
<1>6. PICK coming : coming = chan'[t][c]
  OBVIOUS
<1>7. TypeOK' /\ c \in Node /\ t \in Node
  BY Nodes DEF FollowInv
<1>8. before \in Seq(Val) /\ after \in Seq(Val)
  BY <1>3, <1>4, <1>7 DEF TypeOK
<1>9. coming \in Seq(Message)
  BY <1>6, <1>7 DEF TypeOK
<1>10. stored \in Seq(Stored)
  BY <1>5 DEF TypeOK, Stored
<1>11. Follows(after, coming, stored)
  <2>1. Follows(client'[c].log, chan'[Target[c]][c], agent'[Target[c]].storage)
    BY DEF FollowInv, ClientOK
  <2> QED BY <1>1, <1>2, <1>4, <1>5, <1>6, <2>1
<1>12. Log!Longer(before, after)
  <2>1. PICK v : v = Head(chan[a][c]).val
    OBVIOUS
  <2>2. after = Append(before, v)
    BY <1>1, <1>3, <1>4, <2>1
  <2> QED BY <1>8, <2>2 DEF Log!Longer
<1>13. \E skipped \in 0..Len(stored) : \A i \in DOMAIN after :
         skipped + i \in DOMAIN stored /\ after[i] = stored[skipped + i].val
  <2>1. PICK i \in Nat, j \in Nat, k \in Nat : i = Len(after) /\ j = Len(coming) /\ k = Len(stored)
    BY <1>8, <1>9, <1>10
  <2>2. /\ i + j <= k
        /\ \A n \in 1..i : after[n] = stored[k - i - j + n].val
    BY <1>11, <2>1, Zenon DEF Follows
  <2>3. PICK skipped \in Nat : skipped = k - i - j
    BY <2>2
  <2>4. DOMAIN after = 1..i /\ DOMAIN stored = 1..k
    BY <1>8, <1>10, <2>1
  <2>5. skipped \in 0..Len(stored)
    BY <2>1, <2>3
  <2>6. ASSUME NEW n \in DOMAIN after
        PROVE  skipped + n \in DOMAIN stored /\ after[n] = stored[skipped + n].val
    <3>1. n \in 1..i
      BY <2>4
    <3>2. skipped + n \in 1..k
      BY <2>2, <2>3, <3>1
    <3>3. after[n] = stored[skipped + n].val
      BY <2>2, <2>3, <3>1
    <3> QED BY <2>4, <3>2, <3>3
  <2> QED BY <2>5, <2>6
<1>14. /\ \A d \in Client : ToldLogs[d] = client[d].log /\ ToldLogs'[d] = client'[d].log
       /\ Storages[t] = agent[t].storage
  BY DEF ToldLogs, Storages
<1>15. Log!Longer(ToldLogs[c], ToldLogs'[c])
  BY <1>3, <1>4, <1>12, <1>14
<1>16. \A d \in Client \ {c} : ToldLogs'[d] = ToldLogs[d]
  BY <1>1, <1>14
<1>17. \E skipped \in 0..Len(Storages[Target[c]]) : \A i \in DOMAIN ToldLogs'[c] :
         /\ skipped + i \in DOMAIN Storages[Target[c]]
         /\ ToldLogs'[c][i] = Storages[Target[c]][skipped + i].val
  BY <1>2, <1>4, <1>5, <1>13, <1>14
<1>18. UNCHANGED Storages
  BY <1>1 DEF Storages
<1> HIDE DEF Storages, ToldLogs
<1>19. Log!Learn(c)
  BY <1>15, <1>16, <1>17, <1>18 DEF Log!Learn, Storages, ToldLogs
<1> QED BY <1>19 DEF LogStep, Log!LogNext

\* Every step stores, tells, or is not seen.
LEMMA LogSteps ==
  ASSUME FollowInv, FollowInv', LogsAgree', [Next]_vars
  PROVE  LogStep
<1>0. TypeOK
  BY DEF FollowInv
<1>1. CASE UNCHANGED vars
  <2>1. agent' = agent /\ client' = client
    BY <1>1 DEF vars
  <2> QED BY <2>1, LogStutters
<1>2. ASSUME NEW a \in Agent, NEW b \in Node, NEW s \in AgentState, NEW targets, NEW m \in Message,
             Handles(a, b, s, targets, m), s.storage = agent[a].storage
      PROVE  LogStep
  <2>1. agent'[a] = s /\ (\A x \in Agent : x # a => agent'[x] = agent[x]) /\ client' = client
    BY <1>0, <1>2, HandlesOK
  <2> QED BY <1>2, <2>1, LogStutters
<1>3. ASSUME NEW a \in Agent, NEW b \in Node, Quietly(a, b) PROVE LogStep
  BY <1>2, <1>3 DEF Quietly, Quiet
<1>4. ASSUME NEW a \in Agent, NEW b \in Agent, Selecting(a, b) PROVE LogStep
  BY <1>2, <1>4, Nodes DEF Selecting, Selects
<1>5. ASSUME NEW a \in Agent, NEW b \in Agent, Storing(a, b) PROVE LogStep
  BY <1>0, <1>5, LogStores DEF Storing
<1>6. ASSUME NEW a \in Agent, NEW b \in Agent, AgentNext(a, b) PROVE LogStep
  BY <1>0, <1>3, <1>4, <1>5, <1>6, AgentSteps, Nodes
<1>7. ASSUME NEW c \in Client, NEW a \in Agent, Request(a, c) PROVE LogStep
  BY <1>0, <1>3, <1>7, RequestIs, Nodes DEF Quietly
<1>8. ASSUME NEW c \in Client, Setup(c) PROVE LogStep
  BY <1>0, <1>8, SetupIs, LogStutters
<1>9. ASSUME NEW c \in Client, NEW a \in Agent, Told(c, a) PROVE LogStep
  BY <1>0, <1>9, LogLearns
<1> QED BY <1>1, <1>6, <1>7, <1>8, <1>9 DEF Next, ClientNext

\* With one proposer the agents are a replicated log: what Agent::handle stores at
\* a place, every other agent stores there too, nothing is ever taken back, and
\* what Client::receive collects is a piece of it without a gap.
THEOREM AgentsReplicateLog ==
  ASSUME \E p \in Agent : \A c \in Client : Target[c] = p
  PROVE  Spec => ImplementsLog
<1>1. Init => Log!LogInit
  BY DEF Init, Log!LogInit
<1>2. FollowInv /\ FollowInv' /\ LogsAgree' /\ [Next]_vars => LogStep
  BY LogSteps
<1>3. Spec => []LogsAgree
  BY OneProposerAgrees
<1> QED BY <1>1, <1>2, <1>3, FollowSafe, PTL
        DEF Spec, ImplementsLog, Log!LogSpec, Log!logVars, LogStep, Storages, ToldLogs

-----------------------------------------------------------------------------
(* Two clients of one proposer.                                            *)

\* A step of an agent a that has received h from b, with one proposer.
Acts(p, a, b, h, s, targets, m) ==
  /\ h \in Message /\ Routed(b, a, h) /\ Directed(p, b, a, h)
  /\ Ballots(a, h, s, targets, m)
  /\ targets # {} =>
       /\ m.type # "Request"
       /\ m.type = "Prepare" => h.type = "Request"
       /\ h.type = "Request" => m.type = "Prepare"
       /\ m.type = "Accept" => h.type = "Promise"
       /\ m.type = "Accepted" => h.type = "Accept"
       /\ m.type = "Selected" =>
            h.type = "Selected" \/ (h.type = "Accepted" /\ h.seq > agent[a].seq_accepted)
  /\ s.clients = IF h.type = "Request" THEN agent[a].clients \cup {b} ELSE agent[a].clients
  /\ IF h.type = "Selected"
     THEN /\ s.storage = Append(agent[a].storage, [seq |-> h.seq, val |-> h.val])
          /\ s.seq = h.seq /\ targets = agent[a].clients /\ m = h
          /\ \A i \in DOMAIN agent[a].storage : agent[a].storage[i].seq < h.seq
     ELSE s.storage = agent[a].storage /\ targets \subseteq Agent
  /\ s.seq_accepted = agent[a].seq_accepted \/ (h.type = "Accepted" /\ s.seq_accepted = h.seq)

\* The state after it.
After(p, a, b, h, s, targets, m) ==
  /\ chan[b][a] # <<>> /\ h = Head(chan[b][a])
  /\ agent'[a] = s /\ \A x \in Agent : x # a => agent'[x] = agent[x]
  /\ client' = client
  /\ \A x, y \in Node : chan'[x][y] = Rest(b, a, x, y) \/ chan'[x][y] = Append(Rest(b, a, x, y), m)
  /\ targets = {} => \A x, y \in Node : chan'[x][y] = Rest(b, a, x, y)
  /\ \A x \in Client :
       /\ chan'[x][p] = IF b = x /\ a = p THEN Tail(chan[x][p]) ELSE chan[x][p]
       /\ chan'[p][x] = IF a = p /\ h.type = "Selected" /\ x \in agent[p].clients
                        THEN Append(chan[p][x], h) ELSE chan[p][x]

\* Every step of an agent is one.
Step(a, b, s, targets, m) ==
  \/ Quiet(a, b, s, targets, m)
  \/ Selects(a, b, s, m) /\ b \in Agent /\ targets = Agent
  \/ Stores(a, b, s, m) /\ b \in Agent /\ targets = agent[a].clients

LEMMA StepActs ==
  ASSUME FollowInv, NEW p \in Agent, OneAt(p), AgreeInv(p), NEW a \in Agent, NEW b \in Node,
         NEW s \in AgentState, NEW targets \in SUBSET Node, NEW m \in Message,
         Step(a, b, s, targets, m), Quiet(a, b, s, targets, m) => targets \subseteq Agent
  PROVE  LET h == Head(chan[b][a]) IN
         TypeOK' /\ Acts(p, a, b, h, s, targets, m) /\ After(p, a, b, h, s, targets, m)
<1> DEFINE h == Head(chan[b][a])
<1>0. TypeOK /\ RoutesOK /\ a \in Node /\ p \in Node
  BY Nodes DEF FollowInv
<1>1. Handles(a, b, s, targets, m) /\ chan[b][a] # <<>>
  <2>1. Handles(a, b, s, targets, m)
    BY DEF Step, Quiet, Selects, Stores
  <2> QED BY <2>1 DEF Handles
<1>2. h \in Message /\ Routed(b, a, h) /\ Directed(p, b, a, h)
  <2>1. chan[b][a] \in Seq(Message)
    BY <1>0 DEF TypeOK
  <2>2. 1 \in DOMAIN chan[b][a] /\ h = chan[b][a][1] /\ h \in Message
    BY <1>1, <2>1
  <2> HIDE DEF h
  <2>3. Routed(b, a, h)
    BY <1>0, <2>2 DEF RoutesOK
  <2>4. Directed(p, b, a, h)
    BY <1>0, <2>2 DEF AgreeInv, DirectedOK
  <2> QED BY <2>2, <2>3, <2>4
<1>3. Ballots(a, h, s, targets, m)
  BY DEF Step, Quiet, Selects, Stores
<1>4. targets # {} =>
       /\ m.type # "Request"
       /\ m.type = "Prepare" => h.type = "Request"
       /\ h.type = "Request" => m.type = "Prepare"
       /\ m.type = "Accept" => h.type = "Promise"
       /\ m.type = "Accepted" => h.type = "Accept"
       /\ m.type = "Selected" =>
            h.type = "Selected" \/ (h.type = "Accepted" /\ h.seq > agent[a].seq_accepted)
  <2>1. CASE Quiet(a, b, s, targets, m)
    <3>1. Answers(b, h.type, targets, m)
      BY <2>1 DEF Quiet
    <3> HIDE DEF h
    <3> QED BY <3>1 DEF Answers
  <2>2. CASE Selects(a, b, s, m) /\ b \in Agent /\ targets = Agent
    <3>1. /\ h.type = "Accepted" /\ m.type = "Selected" /\ m.seq > agent[a].seq_accepted
          /\ targets # {}
      BY <2>2 DEF Selects
    <3>2. m.seq = h.seq
      BY <1>3, <3>1 DEF Ballots
    <3> HIDE DEF h
    <3> QED BY <3>1, <3>2
  <2>3. CASE Stores(a, b, s, m) /\ b \in Agent /\ targets = agent[a].clients
    <3>1. m = h /\ m.type = "Selected"
      BY <2>3 DEF Stores
    <3> HIDE DEF h
    <3> QED BY <3>1
  <2> QED BY <2>1, <2>2, <2>3 DEF Step
<1>5. s.clients = IF h.type = "Request" THEN agent[a].clients \cup {b} ELSE agent[a].clients
  BY DEF Step, Quiet, Selects, Stores
<1>6. IF h.type = "Selected"
      THEN /\ s.storage = Append(agent[a].storage, [seq |-> h.seq, val |-> h.val])
           /\ s.seq = h.seq /\ targets = agent[a].clients /\ m = h /\ b = p
      ELSE s.storage = agent[a].storage /\ targets \subseteq Agent
  <2>1. CASE Quiet(a, b, s, targets, m)
    <3>1. Answers(b, h.type, targets, m) /\ s.storage = agent[a].storage /\ targets \subseteq Agent
      BY <2>1 DEF Quiet
    <3> HIDE DEF h
    <3>2. h.type # "Selected"
      BY <3>1 DEF Answers
    <3> QED BY <3>1, <3>2
  <2>2. CASE Selects(a, b, s, m) /\ b \in Agent /\ targets = Agent
    BY <2>2 DEF Selects
  <2>3. CASE Stores(a, b, s, m) /\ b \in Agent /\ targets = agent[a].clients
    <3>1. /\ m = h /\ m.type = "Selected" /\ s.seq = m.seq
          /\ s.storage = Append(agent[a].storage, [seq |-> m.seq, val |-> m.val])
      BY <2>3 DEF Stores
    <3> HIDE DEF h
    <3> QED BY <1>2, <2>3, <3>1 DEF Directed
  <2> QED BY <2>1, <2>2, <2>3 DEF Step
<1>7. h.type = "Selected" => \A i \in DOMAIN agent[a].storage : agent[a].storage[i].seq < h.seq
  <2> SUFFICES ASSUME h.type = "Selected", NEW i \in DOMAIN agent[a].storage
               PROVE  agent[a].storage[i].seq < h.seq
    OBVIOUS
  <2>1. InLine(agent[a].storage, chan[p][a], agent[p].seq_accepted) /\ b = p
    BY <1>6 DEF AgreeInv
  <2>2. chan[p][a] \in Seq(Message)
    BY <1>0 DEF TypeOK
  <2>3. 1 \in DOMAIN chan[p][a] /\ h = chan[p][a][1]
    BY <1>1, <2>1, <2>2
  <2> HIDE DEF h
  <2> QED BY <2>1, <2>3 DEF InLine
<1>8. s.seq_accepted = agent[a].seq_accepted \/ (h.type = "Accepted" /\ s.seq_accepted = h.seq)
  <2>1. CASE Selects(a, b, s, m) /\ targets = Agent
    <3>1. h.type = "Accepted" /\ s.seq_accepted = m.seq /\ m.type = "Selected" /\ targets # {}
      BY <2>1 DEF Selects
    <3>2. m.seq = h.seq
      BY <1>3, <3>1 DEF Ballots
    <3> HIDE DEF h
    <3> QED BY <3>1, <3>2
  <2> QED BY <2>1 DEF Step, Quiet, Stores
<1>9. Acts(p, a, b, h, s, targets, m)
  <2> HIDE DEF h
  <2> QED BY <1>2, <1>3, <1>4, <1>5, <1>6, <1>7, <1>8 DEF Acts
<1>10. /\ TypeOK' /\ agent'[a] = s /\ \A x \in Agent : x # a => agent'[x] = agent[x]
       /\ client' = client
       /\ \A x, y \in Node :
            /\ Rest(b, a, x, y) \in Seq(Message)
            /\ chan'[x][y] = IF x = a /\ y \in targets THEN Append(Rest(b, a, x, y), m)
                             ELSE Rest(b, a, x, y)
  BY <1>0, <1>1, HandlesOK
<1>11. ASSUME NEW x \in Client
       PROVE  /\ chan'[x][p] = IF b = x /\ a = p THEN Tail(chan[x][p]) ELSE chan[x][p]
              /\ chan'[p][x] = IF a = p /\ h.type = "Selected" /\ x \in agent[p].clients
                               THEN Append(chan[p][x], h) ELSE chan[p][x]
  <2>1. x \in Node /\ x # a /\ x \notin Agent
    BY Nodes
  <2>2. chan'[x][p] = Rest(b, a, x, p)
    BY <1>0, <1>10, <2>1
  <2>3. Rest(b, a, p, x) = chan[p][x]
    BY <2>1 DEF Rest
  <2>4. chan'[p][x] = IF p = a /\ x \in targets THEN Append(chan[p][x], m) ELSE chan[p][x]
    BY <1>0, <1>10, <2>1, <2>3
  <2> HIDE DEF h
  <2>5. CASE h.type = "Selected"
    BY <1>6, <2>2, <2>4, <2>5 DEF Rest
  <2>6. CASE h.type # "Selected"
    BY <1>6, <2>1, <2>2, <2>4, <2>6 DEF Rest
  <2> QED BY <2>5, <2>6
<1>12. After(p, a, b, h, s, targets, m)
  <2>1. /\ \A x, y \in Node : chan'[x][y] = Rest(b, a, x, y) \/ chan'[x][y] = Append(Rest(b, a, x, y), m)
        /\ targets = {} => \A x, y \in Node : chan'[x][y] = Rest(b, a, x, y)
    BY <1>10
  <2>2. h = Head(chan[b][a])
    OBVIOUS
  <2> HIDE DEF h
  <2> QED BY <1>1, <1>10, <1>11, <2>1, <2>2 DEF After
<1> QED BY <1>9, <1>10, <1>12

Valued == {"Accept", "Accepted", "Selected"}

\* What is on its way before the client c is known: one ballot, for the other
\* one's value.
EarlyMessage(d, clients, promised) ==
  {m \in Message : m.type # "Request" =>
     d \in clients /\ m.seq = 1 /\ (m.type \in Valued => m.val = d /\ promised = 1)}

\* What is on its way when c came after that ballot: a second one, for c's value.
LateMessage(c) ==
  {m \in Message : /\ m.type # "Request" /\ m.seq <= 2
                   /\ m.type \in Valued /\ m.seq = 2 => m.val = c}

Carries(S) == \A x, y \in Node : chan[x][y] \in Seq(S)
Tells(v) == {m \in Message : m.val = v}

\* The client x has asked at most once, and is answered.
Once(p, x) == Len(chan[x][p]) <= 1 /\ (~client[x].asked => chan[x][p] = <<>>)
Served(p, x) == client[x].done \/ (chan[p][x] # <<>> /\ Head(chan[p][x]).val = x)

\* c is not known yet: whatever happens is d's first request.
Early(p, c, d) ==
  /\ c \notin agent[p].clients /\ Once(p, c) /\ Once(p, d)
  /\ IF d \in agent[p].clients
     THEN client[d].asked /\ chan[d][p] = <<>> /\ agent[p].val = d
     ELSE agent[p].seq = 0 /\ agent[p].storage = <<>>
  /\ Carries(EarlyMessage(d, agent[p].clients, agent[p].seq_promised))
  /\ chan[p][d] \in Seq(Tells(d))
  /\ agent[p].seq <= 1 /\ agent[p].seq_promised <= 1 /\ agent[p].seq_accepted <= 1
  /\ \A i \in DOMAIN agent[p].storage : agent[p].storage[i].seq = 1
  /\ agent[p].storage # <<>> =>
       agent[p].seq = 1 /\ agent[p].seq_promised = 1 /\ Served(p, d)

\* c knows, or will know, all that is stored.
Level(p, c) ==
  /\ c \in agent[p].clients
  /\ Len(client[c].log) + Len(chan[p][c]) = Len(agent[p].storage)

\* c has missed the first entry, and its own is the last.
Late(p, c, d) ==
  /\ c \in agent[p].clients /\ client[c].asked /\ client[d].asked
  /\ Carries(LateMessage(c)) /\ chan[p][c] \in Seq(Tells(c)) /\ Served(p, d)
  /\ agent[p].val = c /\ agent[p].seq_promised >= 1 /\ agent[p].seq_accepted <= 2
  /\ agent[p].storage # <<>> /\ agent[p].storage[1].seq = 1
  /\ Len(client[c].log) + Len(chan[p][c]) < Len(agent[p].storage)

Phase(p, c, d) == Early(p, c, d) \/ Level(p, c) \/ Late(p, c, d)

\* Channels carry what they carried and what is sent.
LEMMA SeqWider ==
  ASSUME NEW S, NEW T, S \subseteq T, NEW q \in Seq(S)
  PROVE  q \in Seq(T)
OBVIOUS

LEMMA CarriesStep ==
  ASSUME NEW S, NEW T, S \subseteq T, Carries(S), NEW b \in Node, NEW a \in Node,
         chan[b][a] # <<>>, NEW m,
         \A x, y \in Node :
           \/ chan'[x][y] = Rest(b, a, x, y)
           \/ m \in T /\ chan'[x][y] = Append(Rest(b, a, x, y), m)
  PROVE  \A x, y \in Node : chan'[x][y] \in Seq(T)
<1> SUFFICES ASSUME NEW x \in Node, NEW y \in Node PROVE chan'[x][y] \in Seq(T)
  OBVIOUS
<1> DEFINE q == Rest(b, a, x, y)
<1>1. q \in Seq(T)
  <2>1. chan[x][y] \in Seq(S)
    BY DEF Carries
  <2>2. chan[x][y] \in Seq(T)
    BY <2>1, SeqWider
  <2>3. x = b /\ y = a => chan[x][y] # <<>>
    OBVIOUS
  <2> QED BY <2>2, <2>3 DEF Rest
<1>2. chan'[x][y] = q \/ (m \in T /\ chan'[x][y] = Append(q, m))
  OBVIOUS
<1> HIDE DEF q
<1>3. m \in T => Append(q, m) \in Seq(T)
  BY <1>1, AppendProperties
<1> QED BY <1>1, <1>2, <1>3

\* What is received is what was carried.
LEMMA HeadCarried ==
  ASSUME NEW S, NEW q \in Seq(S), q # <<>>
  PROVE  Head(q) \in S /\ Tail(q) \in Seq(S) /\ Len(Tail(q)) = Len(q) - 1
OBVIOUS


\* More is carried when more is known and promised.
LEMMA EarlyWider ==
  ASSUME NEW d, NEW clients, NEW promised \in Nat, NEW known, NEW top \in Nat,
         clients \subseteq known, promised <= top, top <= 1
  PROVE  EarlyMessage(d, clients, promised) \subseteq EarlyMessage(d, known, top)
BY DEF EarlyMessage

\* A client that has asked once has asked once when it is answered.
LEMMA OnceKept ==
  ASSUME NEW p, NEW x, Once(p, x), chan[x][p] \in Seq(Message), client'[x].asked = client[x].asked,
         chan'[x][p] = chan[x][p] \/ (chan'[x][p] = Tail(chan[x][p]) /\ chan[x][p] # <<>>)
  PROVE  Once(p, x)'
<1>1. Len(chan[x][p]) <= 1 /\ (~client[x].asked => chan[x][p] = <<>>)
  BY DEF Once
<1>2. Len(chan'[x][p]) <= 1 /\ (chan[x][p] = <<>> => chan'[x][p] = <<>>)
  <2>1. Len(chan[x][p]) <= 1
    BY <1>1
  <2>2. CASE chan'[x][p] = chan[x][p]
    BY <2>1, <2>2
  <2>3. CASE chan'[x][p] = Tail(chan[x][p]) /\ chan[x][p] # <<>>
    <3>1. Len(Tail(chan[x][p])) = Len(chan[x][p]) - 1 /\ Len(chan[x][p]) \in Nat
      BY <2>3
    <3> QED BY <2>1, <2>3, <3>1
  <2> QED BY <2>2, <2>3
<1>3. ~client'[x].asked => chan'[x][p] = <<>>
  BY <1>1, <1>2, Zenon
<1> QED BY <1>2, <1>3 DEF Once

\* d asks: this is the first request there is.
LEMMA EarlyFirst ==
  ASSUME TypeOK, NEW p \in Agent, NEW c \in Client, NEW d \in Client, c # d, Early(p, c, d),
         NEW s \in AgentState, NEW targets, NEW m \in Message, NEW h,
         h.type = "Request", Acts(p, p, d, h, s, targets, m), After(p, p, d, h, s, targets, m)
  PROVE  Early(p, c, d)'
<1>0. /\ p \in Node /\ d \in Node /\ c \in Node /\ agent[p] \in AgentState /\ agent'[p] = s
      /\ client' = client
  BY Nodes, SameAgent DEF After
<1>1. /\ chan[d][p] # <<>> /\ chan[d][p] \in Seq(Message) /\ Len(chan[d][p]) <= 1
      /\ client[d].asked
  BY <1>0 DEF After, Early, Once, TypeOK
<1>2. d \notin agent[p].clients /\ agent[p].seq = 0 /\ agent[p].storage = <<>>
  BY <1>1 DEF Early
<1>3. h.val = d /\ h.type # "Selected"
  BY DEF Acts, Routed
<1>4. /\ s.clients = agent[p].clients \cup {d} /\ s.storage = <<>> /\ s.val = d /\ s.seq = 0
      /\ s.seq_promised = agent[p].seq_promised /\ s.seq_accepted = agent[p].seq_accepted
  BY <1>2, <1>3 DEF Acts, Ballots
<1>5. targets # {} => m.type = "Prepare" /\ m.seq = 1
  BY <1>2 DEF Acts, Ballots
<1>6. PICK S, T : /\ S = EarlyMessage(d, agent[p].clients, agent[p].seq_promised)
                  /\ T = EarlyMessage(d, s.clients, s.seq_promised)
  OBVIOUS
<1>7. S \subseteq T
  <2>1. agent[p].seq_promised \in Nat /\ agent[p].seq_promised <= 1
    BY <1>0 DEF AgentState, Early
  <2> QED BY <1>4, <1>6, <2>1, EarlyWider
<1>8. targets # {} => m \in T
  BY <1>4, <1>5, <1>6 DEF EarlyMessage, Valued
<1>9. \A x, y \in Node : chan'[x][y] \in Seq(T)
  <2>1. \A x, y \in Node :
           \/ chan'[x][y] = Rest(d, p, x, y)
           \/ m \in T /\ chan'[x][y] = Append(Rest(d, p, x, y), m)
    BY <1>8 DEF After
  <2>2. Carries(S)
    BY <1>6 DEF Early
  <2> QED BY <1>0, <1>1, <1>7, <2>1, <2>2, CarriesStep
<1>10. /\ chan'[d][p] = Tail(chan[d][p]) /\ chan'[c][p] = chan[c][p] /\ chan'[p][d] = chan[p][d]
  BY <1>3 DEF After
<1>11. chan'[d][p] = <<>>
  BY <1>1, <1>10
<1>12. c \notin s.clients /\ d \in s.clients
  BY <1>4 DEF Early
<1>13. Once(p, c)' /\ Once(p, d)'
  BY <1>0, <1>10, <1>11 DEF Early, Once
<1>14. /\ chan[p][d] \in Seq(Tells(d)) /\ agent[p].seq_promised <= 1 /\ agent[p].seq_accepted <= 1
  BY DEF Early
<1>15. Carries(EarlyMessage(d, agent[p].clients, agent[p].seq_promised))'
  BY <1>0, <1>6, <1>9 DEF Carries
<1>16. client'[d].asked /\ agent'[p].val = d /\ d \in agent'[p].clients /\ c \notin agent'[p].clients
  BY <1>0, <1>1, <1>4, <1>12
<1>17. agent'[p].seq = 0 /\ agent'[p].storage = <<>> /\ agent'[p].seq_promised <= 1 /\ agent'[p].seq_accepted <= 1
  BY <1>0, <1>4, <1>14
<1>18. \A i \in DOMAIN agent'[p].storage : agent'[p].storage[i].seq = 1
  BY <1>17
<1>19. chan'[p][d] \in Seq(Tells(d)) /\ agent'[p].seq <= 1
  BY <1>10, <1>14, <1>17
<1>20. /\ IF d \in agent'[p].clients
          THEN client'[d].asked /\ chan'[d][p] = <<>> /\ agent'[p].val = d
          ELSE agent'[p].seq = 0 /\ agent'[p].storage = <<>>
       /\ agent'[p].storage # <<>> =>
            agent'[p].seq = 1 /\ agent'[p].seq_promised = 1 /\ Served(p, d)'
  BY <1>11, <1>16, <1>17, Zenon
<1> QED BY <1>13, <1>15, <1>16, <1>17, <1>18, <1>19, <1>20 DEF Early

\* Nobody asks: the first request's ballot goes on.
LEMMA EarlyOther ==
  ASSUME TypeOK, NEW p \in Agent, NEW c \in Client, NEW d \in Client, c # d, Early(p, c, d),
         NEW a \in Agent, NEW b \in Node, NEW s \in AgentState, NEW targets, NEW m \in Message, NEW h,
         h.type # "Request", Acts(p, a, b, h, s, targets, m), After(p, a, b, h, s, targets, m)
  PROVE  Early(p, c, d)'
<1> DEFINE B == IF a = p THEN s ELSE agent[p]
<1>0. /\ p \in Node /\ a \in Node /\ d \in Node /\ c \in Node /\ agent[p] \in AgentState
      /\ agent'[p] = B /\ client' = client /\ chan[b][a] # <<>> /\ h = Head(chan[b][a])
      /\ B \in AgentState
  BY Nodes, SameAgent DEF After
<1>1. PICK S, T : /\ S = EarlyMessage(d, agent[p].clients, agent[p].seq_promised)
                  /\ T = EarlyMessage(d, B.clients, B.seq_promised)
  OBVIOUS
<1>2. /\ d \in agent[p].clients /\ h.seq = 1
      /\ h.type \in Valued => h.val = d /\ agent[p].seq_promised = 1
  <2>1. Carries(S)
    BY <1>1 DEF Early
  <2>2. chan[b][a] \in Seq(S)
    BY <1>0, <2>1 DEF Carries
  <2>3. h \in S
    BY <1>0, <2>2, HeadCarried
  <2> QED BY <1>1, <2>3 DEF EarlyMessage
<1>3. B.clients = agent[p].clients /\ B.val = agent[p].val
  BY DEF Acts, Ballots
<1>4. /\ B.seq_promised \in {agent[p].seq_promised, 1} /\ B.seq_accepted \in {agent[p].seq_accepted, 1}
      /\ B.seq \in {agent[p].seq, 1}
  BY <1>2 DEF Acts, Ballots
<1>5. targets # {} => m \in T
  <2> SUFFICES ASSUME targets # {} PROVE m \in T
    OBVIOUS
  <2>1. m.type # "Prepare" /\ m.seq = 1 /\ m.type # "Request"
    BY <1>2 DEF Acts, Ballots
  <2>2. m.type = "Accept" => m.val = d /\ B.seq_promised = 1
    <3> SUFFICES ASSUME m.type = "Accept" PROVE m.val = d /\ B.seq_promised = 1
      OBVIOUS
    <3>1. a = p
      BY DEF Acts, Directed
    <3>2. m.val = agent[a].val /\ s.seq_promised = h.seq
      BY DEF Acts, Ballots
    <3>3. agent[p].val = d
      BY <1>2 DEF Early
    <3> QED BY <1>2, <3>1, <3>2, <3>3
  <2>3. m.type \in {"Accepted", "Selected"} => m.val = d /\ B.seq_promised = 1
    <3> SUFFICES ASSUME m.type \in {"Accepted", "Selected"} PROVE m.val = d /\ B.seq_promised = 1
      OBVIOUS
    <3>1. h.type \in Valued /\ m.val = h.val
      BY DEF Acts, Ballots, Valued
    <3> QED BY <1>2, <1>4, <3>1
  <2> HIDE DEF B
  <2> QED BY <1>1, <1>2, <1>3, <2>1, <2>2, <2>3 DEF EarlyMessage, Valued
<1>6. \A x, y \in Node : chan'[x][y] \in Seq(T)
  <2>1. \A x, y \in Node :
           \/ chan'[x][y] = Rest(b, a, x, y)
           \/ m \in T /\ chan'[x][y] = Append(Rest(b, a, x, y), m)
    BY <1>5 DEF After
  <2>2. Carries(S)
    BY <1>1 DEF Early
  <2>3. S \subseteq T
    <3>1. agent[p].seq_promised \in Nat /\ agent[p].seq_promised <= 1 /\ B.seq_promised \in Nat
      BY <1>0 DEF AgentState, Early
    <3> HIDE DEF B
    <3> QED BY <1>1, <1>3, <1>4, <3>1, EarlyWider
  <2> HIDE DEF B
  <2> QED BY <1>0, <2>1, <2>2, <2>3, CarriesStep
<1>7. Once(p, c)' /\ Once(p, d)'
  <2>1. ASSUME NEW x \in {c, d} PROVE Once(p, x)'
    <3>1. Once(p, x) /\ x \in Client /\ chan[x][p] \in Seq(Message)
      BY <1>0 DEF Early, TypeOK
    <3>2. chan'[x][p] = chan[x][p] \/ (chan'[x][p] = Tail(chan[x][p]) /\ chan[x][p] # <<>>)
      BY <3>1 DEF After
    <3>3. client'[x].asked = client[x].asked
      BY <1>0
    <3> QED BY <3>1, <3>2, <3>3, OnceKept
  <2> QED BY <2>1
<1>8. chan'[d][p] = <<>> /\ client'[d].asked
  <2>1. chan[d][p] = <<>> /\ client[d].asked
    BY <1>2 DEF Early
  <2> QED BY <1>0, <2>1 DEF After
<1>9. \/ B.storage = agent[p].storage /\ chan'[p][d] = chan[p][d]
      \/ /\ B.storage = Append(agent[p].storage, [seq |-> 1, val |-> d]) /\ B.seq = 1
         /\ chan'[p][d] = Append(chan[p][d], h) /\ h.val = d /\ agent[p].seq_promised = 1
  <2>1. chan'[p][d] = IF a = p /\ h.type = "Selected" THEN Append(chan[p][d], h) ELSE chan[p][d]
    BY <1>2 DEF After
  <2>2. CASE a = p /\ h.type = "Selected"
    BY <1>2, <2>1, <2>2 DEF Acts, Valued
  <2>3. CASE ~(a = p /\ h.type = "Selected")
    BY <2>1, <2>3 DEF Acts
  <2> QED BY <2>2, <2>3
<1>10. \A i \in DOMAIN B.storage : B.storage[i].seq = 1
  <2>1. agent[p].storage \in Seq(Stored) /\ \A i \in DOMAIN agent[p].storage : agent[p].storage[i].seq = 1
    BY <1>0 DEF AgentState, Stored, Early
  <2> DEFINE st == agent[p].storage
             e == [seq |-> 1, val |-> d]
  <2>2. e \in Stored /\ e.seq = 1
    BY DEF Stored, Val
  <2>3. B.storage = st \/ B.storage = Append(st, e)
    BY <1>9
  <2> HIDE DEF e, st, B
  <2>4. st \in Seq(Stored) /\ \A i \in DOMAIN st : st[i].seq = 1
    BY <2>1 DEF st
  <2>5. \A i \in DOMAIN Append(st, e) : Append(st, e)[i].seq = 1
    BY <2>2, <2>4, AppendElem
  <2> QED BY <2>3, <2>4, <2>5
<1>11. chan'[p][d] \in Seq(Tells(d))
  <2>1. chan[p][d] \in Seq(Tells(d)) /\ h \in Message
    BY DEF Early, Acts
  <2>2. h.val = d => h \in Tells(d)
    BY <2>1 DEF Tells
  <2> HIDE DEF B
  <2> QED BY <1>9, <2>1, <2>2, AppendProperties
<1>12. B.storage # <<>> => B.seq = 1 /\ B.seq_promised = 1 /\ Served(p, d)'
  <2> SUFFICES ASSUME B.storage # <<>> PROVE B.seq = 1 /\ B.seq_promised = 1 /\ Served(p, d)'
    OBVIOUS
  <2>0. chan[p][d] \in Seq(Tells(d))
    BY DEF Early
  <2>1. CASE B.storage = agent[p].storage /\ chan'[p][d] = chan[p][d]
    <3>1. agent[p].seq = 1 /\ agent[p].seq_promised = 1 /\ Served(p, d)
      BY <2>1 DEF Early
    <3> HIDE DEF B
    <3> QED BY <1>0, <1>4, <2>1, <3>1 DEF Served
  <2>2. CASE /\ B.storage = Append(agent[p].storage, [seq |-> 1, val |-> d]) /\ B.seq = 1
             /\ chan'[p][d] = Append(chan[p][d], h) /\ h.val = d /\ agent[p].seq_promised = 1
    <3> HIDE DEF B
    <3>1. chan'[p][d] \in Seq(Tells(d)) /\ chan'[p][d] # <<>>
      <4>1. h \in Tells(d)
        BY <2>2 DEF Acts, Tells
      <4>2. Append(chan[p][d], h) # <<>>
        BY <2>0, <4>1, AppendProperties
      <4> QED BY <1>11, <2>2, <4>2, Zenon
    <3>2. Head(chan'[p][d]) \in Tells(d)
      BY <3>1, HeadCarried
    <3> QED BY <1>4, <2>2, <3>1, <3>2 DEF Served, Tells
  <2> HIDE DEF B
  <2> QED BY <1>9, <2>1, <2>2
<1>13. c \notin agent[p].clients /\ agent[p].val = d
       /\ agent[p].seq <= 1 /\ agent[p].seq_promised <= 1 /\ agent[p].seq_accepted <= 1
  BY <1>2 DEF Early
<1> HIDE DEF B
<1>14. Carries(EarlyMessage(d, agent[p].clients, agent[p].seq_promised))'
  BY <1>0, <1>1, <1>6 DEF Carries
<1>15. agent'[p].seq <= 1 /\ agent'[p].seq_promised <= 1 /\ agent'[p].seq_accepted <= 1
  BY <1>0, <1>4, <1>13
<1> QED BY <1>0, <1>2, <1>3, <1>7, <1>8, <1>10, <1>11, <1>12, <1>13, <1>14, <1>15 DEF Early

\* A sequence of these elements.
LEMMA SeqElements ==
  ASSUME NEW S, NEW T, NEW q \in Seq(S), \A i \in DOMAIN q : q[i] \in T
  PROVE  q \in Seq(T)
OBVIOUS

\* c asks: it knows all that is stored, nothing, or is late.
LEMMA EarlyEnds ==
  ASSUME FollowInv, NEW p \in Agent, OneAt(p), NEW c \in Client, NEW d \in Client, c # d,
         Client = {c, d}, Early(p, c, d), FollowInv',
         NEW s \in AgentState, NEW targets, NEW m \in Message, NEW h,
         h.type = "Request", Acts(p, p, c, h, s, targets, m), After(p, p, c, h, s, targets, m)
  PROVE  Level(p, c)' \/ Late(p, c, d)'
<1>0. /\ p \in Node /\ c \in Node /\ d \in Node /\ agent'[p] = s /\ client' = client /\ TypeOK
      /\ agent[p] \in AgentState /\ Target[c] = p /\ h.type # "Selected"
  BY Nodes, SameAgent DEF After, FollowInv, OneAt
<1>1. chan[c][p] # <<>> /\ chan[c][p] \in Seq(Message) /\ Len(chan[c][p]) <= 1 /\ client[c].asked
  BY <1>0 DEF After, Early, Once, TypeOK
<1>2. client[c].log = <<>> /\ chan[p][c] = <<>>
  <2>1. ClientOK(c) /\ c \notin agent[p].clients
    BY DEF FollowInv, Early
  <2> QED BY <1>0, <2>1 DEF ClientOK
<1>3. h.val = c /\ s.clients = agent[p].clients \cup {c} /\ s.storage = agent[p].storage
      /\ s.val = c /\ s.seq_promised = agent[p].seq_promised /\ s.seq_accepted = agent[p].seq_accepted
  BY <1>0 DEF Acts, Routed, Ballots
<1>4. chan'[p][c] = <<>> /\ chan'[p][d] = chan[p][d] /\ chan'[c][p] = <<>> /\ chan'[d][p] = chan[d][p]
  <2>1. chan'[p][c] = chan[p][c] /\ chan'[p][d] = chan[p][d] /\ chan'[c][p] = Tail(chan[c][p])
        /\ chan'[d][p] = chan[d][p]
    BY <1>0 DEF After
  <2> QED BY <1>1, <1>2, <2>1
<1>5. CASE agent[p].storage = <<>>
  <2>1. /\ c \in agent'[p].clients /\ client'[c].log = <<>> /\ chan'[p][c] = <<>>
        /\ agent'[p].storage = <<>>
    BY <1>0, <1>2, <1>3, <1>4, <1>5
  <2>2. Len(<<>>) + Len(<<>>) = Len(<<>>)
    OBVIOUS
  <2> QED BY <2>1, <2>2 DEF Level
<1>6. CASE agent[p].storage # <<>>
  <2>1. /\ d \in agent[p].clients /\ client[d].asked /\ chan[d][p] = <<>>
        /\ agent[p].seq = 1 /\ agent[p].seq_promised = 1 /\ agent[p].seq_accepted <= 1 /\ Served(p, d)
    BY <1>6 DEF Early
  <2>2. targets # {} => m.type = "Prepare" /\ m.seq = 2
    BY <2>1 DEF Acts, Ballots
  <2>3. Carries(LateMessage(c))'
    <3>1. PICK S, T : /\ S = EarlyMessage(d, agent[p].clients, agent[p].seq_promised)
                      /\ T = S \cup {e \in Message : e.type = "Prepare" /\ e.seq = 2}
      OBVIOUS
    <3>2. \A x, y \in Node : chan'[x][y] \in Seq(T)
      <4>1. \A x, y \in Node :
               \/ chan'[x][y] = Rest(c, p, x, y)
               \/ m \in T /\ chan'[x][y] = Append(Rest(c, p, x, y), m)
        BY <2>2, <3>1 DEF After
      <4>2. Carries(S) /\ S \subseteq T
        BY <3>1 DEF Early
      <4>3. c \in Node /\ p \in Node /\ chan[c][p] # <<>>
        BY <1>0, <1>1
      <4> QED BY <4>1, <4>2, <4>3, CarriesStep
    <3>3. ASSUME NEW x \in Node, NEW y \in Node PROVE chan'[x][y] \in Seq(LateMessage(c))
      <4>1. chan'[x][y] \in Seq(T)
        BY <3>2
      <4>2. ASSUME NEW i \in DOMAIN chan'[x][y] PROVE chan'[x][y][i] \in LateMessage(c)
        <5> DEFINE e == chan'[x][y][i]
        <5>1. e \in T /\ Routed(x, y, e)
          BY <4>1 DEF FollowInv, RoutesOK
        <5>2. e.type # "Request"
          <6>1. e.type = "Request" => x \in {c, d} /\ y = p
            BY <5>1 DEF Routed, OneAt
          <6>2. chan'[c][p] = <<>> /\ chan'[d][p] = <<>>
            BY <1>4, <2>1
          <6> QED BY <6>1, <6>2
        <5> HIDE DEF e
        <5>3. e \in LateMessage(c)
          BY <3>1, <5>1, <5>2 DEF EarlyMessage, LateMessage, Valued
        <5> QED BY <5>3 DEF e
      <4> QED BY <4>1, <4>2, SeqElements
    <3> QED BY <3>3 DEF Carries
  <2>4. Served(p, d)'
    BY <1>0, <1>4, <2>1 DEF Served
  <2>5. chan'[p][c] \in Seq(Tells(c))
    BY <1>4
  <2>6. /\ c \in agent'[p].clients /\ client'[c].asked /\ client'[d].asked
        /\ agent'[p].val = c /\ agent'[p].seq_promised >= 1 /\ agent'[p].seq_accepted <= 2
    <3>1. agent[p].seq_accepted \in Nat
      BY <1>0 DEF AgentState
    <3>2. agent'[p].seq_promised = 1 /\ agent'[p].seq_accepted <= 2
      BY <1>0, <1>3, <2>1, <3>1
    <3>3. client'[c].asked /\ client'[d].asked
      BY <1>0, <1>1, <2>1, Zenon
    <3>4. c \in agent'[p].clients /\ agent'[p].val = c
      BY <1>0, <1>3
    <3> QED BY <3>2, <3>3, <3>4
  <2>7. /\ agent'[p].storage # <<>> /\ agent'[p].storage[1].seq = 1
        /\ Len(client'[c].log) + Len(chan'[p][c]) < Len(agent'[p].storage)
    <3>1. agent'[p].storage = agent[p].storage /\ client'[c].log = <<>>
      BY <1>0, <1>2, <1>3
    <3>2. agent[p].storage \in Seq(Stored) /\ \A i \in DOMAIN agent[p].storage : agent[p].storage[i].seq = 1
      BY <1>0 DEF AgentState, Stored, Early
    <3>3. 1 \in DOMAIN agent[p].storage /\ Len(agent[p].storage) > 0
      BY <1>6, <3>2
    <3> QED BY <1>4, <1>6, <3>1, <3>2, <3>3
  <2> QED BY <2>3, <2>4, <2>5, <2>6, <2>7 DEF Late
<1> QED BY <1>5, <1>6

\* What is known and what is stored grow together.
LEMMA BothLonger ==
  ASSUME NEW i \in Nat, NEW j \in Nat, NEW k \in Nat
  PROVE  /\ i + j = k => i + (j + 1) = k + 1
         /\ i + j < k => i + (j + 1) < k + 1
OBVIOUS

\* c knows all that is stored; then it always does.
LEMMA LevelStep ==
  ASSUME TypeOK, NEW p \in Agent, NEW c \in Client, Level(p, c),
         NEW a \in Agent, NEW b \in Node, NEW s \in AgentState, NEW targets, NEW m \in Message, NEW h,
         Acts(p, a, b, h, s, targets, m), After(p, a, b, h, s, targets, m)
  PROVE  Level(p, c)'
<1>1. c \in agent[p].clients /\ Len(client[c].log) + Len(chan[p][c]) = Len(agent[p].storage)
  BY DEF Level
<1>2. /\ p \in Node /\ c \in Node /\ client'[c].log = client[c].log
      /\ agent'[p] = IF a = p THEN s ELSE agent[p]
      /\ chan'[p][c] = IF a = p /\ h.type = "Selected" THEN Append(chan[p][c], h) ELSE chan[p][c]
  BY <1>1, Nodes DEF After
<1>3. c \in agent'[p].clients
  BY <1>1, <1>2 DEF Acts
<1>4. /\ client[c].log \in Seq(Val) /\ chan[p][c] \in Seq(Message) /\ agent[p].storage \in Seq(Stored)
  BY <1>2 DEF TypeOK, Stored
<1>5. CASE a = p /\ h.type = "Selected"
  <2>1. agent'[p].storage = Append(agent[p].storage, [seq |-> h.seq, val |-> h.val]) /\ h \in Message
    BY <1>2, <1>5 DEF Acts
  <2>2. h.seq \in Nat /\ h.val \in Val
    BY <1>5, <2>1, Fields
  <2>3. [seq |-> h.seq, val |-> h.val] \in Stored
    BY <2>2 DEF Stored
  <2>4. chan'[p][c] = Append(chan[p][c], h)
    BY <1>2, <1>5
  <2>5. /\ Len(agent'[p].storage) = Len(agent[p].storage) + 1
        /\ Len(chan'[p][c]) = Len(chan[p][c]) + 1
    BY <1>4, <2>1, <2>3, <2>4, AppendProperties
  <2>6. Len(client[c].log) \in Nat /\ Len(chan[p][c]) \in Nat /\ Len(agent[p].storage) \in Nat
    BY <1>4
  <2>7. Len(client[c].log) + (Len(chan[p][c]) + 1) = Len(agent[p].storage) + 1
    <3>1. PICK i \in Nat, j \in Nat, k \in Nat :
            i = Len(client[c].log) /\ j = Len(chan[p][c]) /\ k = Len(agent[p].storage)
      BY <2>6
    <3>2. i + j = k
      BY <1>1, <3>1, Zenon
    <3>3. i + (j + 1) = k + 1
      BY <3>2
    <3> QED BY <3>1, <3>3, Zenon
  <2>8. Len(client'[c].log) = Len(client[c].log)
    BY <1>2
  <2>9. Len(client'[c].log) + Len(chan'[p][c]) = Len(agent'[p].storage)
    BY <2>5, <2>7, <2>8, Zenon
  <2> QED BY <1>3, <2>9 DEF Level
<1>6. CASE ~(a = p /\ h.type = "Selected")
  <2>1. agent'[p].storage = agent[p].storage /\ chan'[p][c] = chan[p][c]
    BY <1>2, <1>6 DEF Acts
  <2> QED BY <1>1, <1>2, <1>3, <2>1 DEF Level
<1> QED BY <1>5, <1>6

\* c has come late; then what goes on is its own ballot.
LEMMA LateStep ==
  ASSUME TypeOK, NEW p \in Agent, NEW c \in Client, NEW d \in Client, c # d, Late(p, c, d),
         NEW a \in Agent, NEW b \in Node, NEW s \in AgentState, NEW targets, NEW m \in Message, NEW h,
         Acts(p, a, b, h, s, targets, m), After(p, a, b, h, s, targets, m)
  PROVE  Late(p, c, d)'
<1> DEFINE B == IF a = p THEN s ELSE agent[p]
           L == LateMessage(c)
<1>0. /\ p \in Node /\ a \in Node /\ d \in Node /\ c \in Node /\ agent[p] \in AgentState
      /\ agent'[p] = B /\ client' = client /\ chan[b][a] # <<>> /\ h = Head(chan[b][a])
      /\ B \in AgentState
  BY Nodes, SameAgent DEF After
<1>1. Carries(L) /\ chan[p][c] \in Seq(Tells(c)) /\ Served(p, d)
  BY DEF Late
<1>2. /\ h \in Message /\ h.type # "Request" /\ h.seq <= 2
      /\ h.type \in Valued /\ h.seq = 2 => h.val = c
  <2> HIDE DEF B
  <2>1. chan[b][a] \in Seq(L)
    BY <1>0, <1>1 DEF Carries
  <2> HIDE DEF L
  <2>2. h \in L
    BY <1>0, <2>1, HeadCarried
  <2> QED BY <2>2 DEF LateMessage, L
<1>3. /\ c \in agent[p].clients /\ agent[p].val = c /\ agent[p].seq_promised >= 1
      /\ agent[p].seq_accepted <= 2 /\ agent[p].storage # <<>> /\ agent[p].storage[1].seq = 1
      /\ Len(client[c].log) + Len(chan[p][c]) < Len(agent[p].storage)
      /\ client[c].asked /\ client[d].asked
  BY DEF Late
<1>4. B.clients = agent[p].clients /\ B.val = c
  BY <1>2, <1>3 DEF Acts, Ballots
<1>5. agent[p].seq_promised \in Nat /\ agent[p].seq_accepted \in Nat /\ agent[p].storage \in Seq(Stored)
      /\ chan[p][c] \in Seq(Message) /\ chan[p][d] \in Seq(Message) /\ client[c].log \in Seq(Val)
  BY <1>0 DEF AgentState, Stored, TypeOK
<1>6. h.type \in {"Promise", "Accepted", "Selected"} => h.seq \in Nat
  BY <1>2, Fields
<1>7. B.seq_promised >= 1 /\ B.seq_accepted <= 2
  BY <1>2, <1>3, <1>5, <1>6 DEF Acts, Ballots
<1>8. targets # {} => m \in L
  <2> SUFFICES ASSUME targets # {} PROVE m \in L
    OBVIOUS
  <2>1. m.type # "Prepare" /\ m.seq = h.seq /\ m.type # "Request"
    BY <1>2 DEF Acts, Ballots
  <2>2. m.type = "Accept" => m.val = c
    BY <1>3 DEF Acts, Ballots, Directed
  <2>3. m.type \in {"Accepted", "Selected"} /\ m.seq = 2 => m.val = c
    <3> SUFFICES ASSUME m.type \in {"Accepted", "Selected"}, m.seq = 2 PROVE m.val = c
      OBVIOUS
    <3>1. h.type \in Valued /\ m.val = h.val
      BY DEF Acts, Ballots, Valued
    <3> QED BY <1>2, <2>1, <3>1
  <2> QED BY <1>2, <2>1, <2>2, <2>3 DEF LateMessage, Valued
<1>9. Carries(L)'
  <2>1. \A x, y \in Node :
           \/ chan'[x][y] = Rest(b, a, x, y)
           \/ m \in L /\ chan'[x][y] = Append(Rest(b, a, x, y), m)
    BY <1>8 DEF After
  <2>2. L \subseteq L
    OBVIOUS
  <2>3. b \in Node /\ a \in Node /\ chan[b][a] # <<>>
    BY <1>0
  <2>4. Carries(L)
    BY <1>1
  <2> HIDE DEF B, L
  <2>5. \A x, y \in Node : chan'[x][y] \in Seq(L)
    BY <2>1, <2>2, <2>3, <2>4, CarriesStep
  <2> QED BY <2>5 DEF Carries, L
<1>10. \/ /\ B.storage = agent[p].storage /\ chan'[p][c] = chan[p][c] /\ chan'[p][d] = chan[p][d]
       \/ /\ B.storage = Append(agent[p].storage, [seq |-> h.seq, val |-> h.val])
          /\ chan'[p][c] = Append(chan[p][c], h) /\ h.val = c /\ h.seq \in Nat
          /\ chan'[p][d] = chan[p][d] \/ chan'[p][d] = Append(chan[p][d], h)
  <2>1. CASE a = p /\ h.type = "Selected"
    <3>1. 1 \in DOMAIN agent[p].storage
      BY <1>3, <1>5
    <3>2. h.seq > 1
      BY <1>3, <2>1, <3>1 DEF Acts
    <3>3. h.val = c /\ h.seq \in Nat
      BY <1>2, <1>6, <2>1, <3>2 DEF Valued
    <3> QED BY <1>3, <2>1, <3>3 DEF Acts, After
  <2>2. CASE ~(a = p /\ h.type = "Selected")
    BY <2>2 DEF Acts, After
  <2> QED BY <2>1, <2>2
<1> HIDE DEF B, L
<1>11. chan'[p][c] \in Seq(Tells(c))
  <2>1. h.val = c => h \in Tells(c)
    BY <1>2 DEF Tells
  <2> QED BY <1>1, <1>10, <2>1, AppendProperties
<1>12. Served(p, d)'
  <2>1. CASE client[d].done
    BY <1>0, <2>1, Zenon DEF Served
  <2>2. CASE chan[p][d] # <<>> /\ Head(chan[p][d]).val = d
    <3>1. chan'[p][d] = chan[p][d] \/ chan'[p][d] = Append(chan[p][d], h)
      BY <1>10
    <3>2. chan'[p][d] # <<>> /\ Head(chan'[p][d]) = Head(chan[p][d])
      BY <1>2, <1>5, <2>2, <3>1
    <3> QED BY <2>2, <3>2 DEF Served
  <2> QED BY <1>1, <2>1, <2>2 DEF Served
<1>13. /\ B.storage # <<>> /\ B.storage[1].seq = 1
       /\ Len(client'[c].log) + Len(chan'[p][c]) < Len(B.storage)
  <2> DEFINE e == [seq |-> h.seq, val |-> h.val]
             st == agent[p].storage
             q == chan[p][c]
  <2>1. CASE B.storage = st /\ chan'[p][c] = q
    BY <1>0, <1>3, <2>1
  <2>2. CASE B.storage = Append(st, e) /\ chan'[p][c] = Append(q, h) /\ h.val = c /\ h.seq \in Nat
    <3>1. e \in Stored
      BY <2>2 DEF Stored, Val
    <3>2. h \in Message /\ q \in Seq(Message) /\ st \in Seq(Stored) /\ Len(client[c].log) \in Nat
      BY <1>2, <1>5
    <3>3. st # <<>> /\ st[1].seq = 1 /\ Len(client[c].log) + Len(q) < Len(st)
      BY <1>3
    <3> HIDE DEF e, st, q
    <3>4. /\ Len(Append(q, h)) = Len(q) + 1 /\ Len(Append(st, e)) = Len(st) + 1
          /\ Len(q) \in Nat /\ Len(st) \in Nat
      BY <3>1, <3>2, AppendProperties
    <3>5. Append(st, e) # <<>> /\ Append(st, e)[1] = st[1]
      BY <3>1, <3>2, <3>3
    <3>6. Len(client'[c].log) = Len(client[c].log)
      BY <1>0
    <3>7. Len(client[c].log) + (Len(q) + 1) < Len(st) + 1
      BY <3>2, <3>3, <3>4, BothLonger
    <3>8. Len(client'[c].log) + Len(chan'[p][c]) < Len(B.storage)
      BY <2>2, <3>4, <3>6, <3>7, Zenon
    <3> QED BY <2>2, <3>3, <3>5, <3>8
  <2> QED BY <1>10, <2>1, <2>2
<1>14. client'[c].asked /\ client'[d].asked
  BY <1>0, <1>3, Zenon
<1>15. Carries(LateMessage(c))'
  BY <1>9 DEF L
<1>16. /\ c \in agent'[p].clients /\ agent'[p].val = c /\ agent'[p].seq_promised >= 1
       /\ agent'[p].seq_accepted <= 2 /\ agent'[p].storage # <<>> /\ agent'[p].storage[1].seq = 1
       /\ Len(client'[c].log) + Len(chan'[p][c]) < Len(agent'[p].storage)
  BY <1>0, <1>3, <1>4, <1>7, <1>13
<1> QED BY <1>11, <1>12, <1>14, <1>15, <1>16 DEF Late

\* Setup: only a client that has not asked can do so.
LEMMA PhaseSetup ==
  ASSUME FollowInv, NEW p \in Agent, OneAt(p), NEW c \in Client, NEW d \in Client, c # d,
         Client = {c, d}, Phase(p, c, d), NEW e \in Client, Setup(e)
  PROVE  Phase(p, c, d)'
<1>0. /\ TypeOK /\ p \in Node /\ c \in Node /\ d \in Node /\ e \in Node /\ p \notin Client
      /\ Target[e] = p /\ Ask(e) \in Message /\ agent[p] \in AgentState
  BY Nodes, SameAgent DEF FollowInv, OneAt, Ask, Message
<1>1. /\ agent' = agent /\ ~client[e].asked /\ client'[e].asked
      /\ \A x \in Client : client'[x].log = client[x].log /\ client'[x].done = client[x].done
      /\ \A x \in Client : x # e => client'[x] = client[x]
      /\ \A x, y \in Node : chan'[x][y] = Asks(e, x, y, chan[x][y])
  BY <1>0, SetupIs
<1>2. \A x \in Client : chan'[p][x] = chan[p][x]
  BY <1>0, <1>1, Nodes DEF Asks
<1>3. CASE Level(p, c)
  <2>1. Level(p, c)'
    BY <1>1, <1>2, <1>3 DEF Level
  <2> QED BY <2>1 DEF Phase
<1>4. CASE Late(p, c, d)
  <2>1. client[c].asked /\ client[d].asked
    BY <1>4 DEF Late
  <2> QED BY <1>1, <2>1, Zenon
<1>5. CASE Early(p, c, d)
  <2>1. PICK S : S = EarlyMessage(d, agent[p].clients, agent[p].seq_promised)
    OBVIOUS
  <2>2. Ask(e) \in S
    BY <1>0, <2>1 DEF EarlyMessage, Ask
  <2>3. \A x, y \in Node : chan'[x][y] \in Seq(S)
    <3>1. ASSUME NEW x \in Node, NEW y \in Node PROVE chan'[x][y] \in Seq(S)
      <4>1. chan[x][y] \in Seq(S)
        BY <1>5, <2>1 DEF Early, Carries
      <4>2. Append(chan[x][y], Ask(e)) \in Seq(S)
        BY <2>2, <4>1, AppendProperties
      <4> QED BY <1>1, <4>1, <4>2 DEF Asks
    <3> QED BY <3>1
  <2>4. Carries(EarlyMessage(d, agent[p].clients, agent[p].seq_promised))'
    BY <1>1, <2>1, <2>3 DEF Carries
  <2>5. Once(p, e)'
    <3>1. chan[e][p] = <<>>
      <4>1. Once(p, c) /\ Once(p, d)
        BY <1>5 DEF Early
      <4>2. Once(p, e)
        BY <4>1
      <4>3. ~client[e].asked => chan[e][p] = <<>>
        BY <4>2 DEF Once
      <4>4. ~client[e].asked
        BY <1>1
      <4> QED BY <4>3, <4>4
    <3>2. chan'[e][p] = Append(chan[e][p], Ask(e))
      BY <1>0, <1>1 DEF Asks
    <3>3. Len(chan'[e][p]) <= 1
      BY <3>1, <3>2
    <3> QED BY <1>1, <3>3, Zenon DEF Once
  <2>6. ASSUME NEW x \in Client, x # e PROVE Once(p, x)' /\ chan'[x][p] = chan[x][p]
    <3>1. chan'[x][p] = chan[x][p] /\ client'[x] = client[x]
      BY <1>0, <1>1, <2>6, Nodes DEF Asks
    <3>2. Once(p, x)
      BY <1>5, <2>6 DEF Early
    <3> QED BY <3>1, <3>2 DEF Once
  <2>7. Once(p, c)' /\ Once(p, d)'
    BY <2>5, <2>6
  <2>8. d \in agent[p].clients => client'[d].asked /\ chan'[d][p] = <<>>
    <3> SUFFICES ASSUME d \in agent[p].clients PROVE client'[d].asked /\ chan'[d][p] = <<>>
      OBVIOUS
    <3>1. client[d].asked /\ chan[d][p] = <<>>
      BY <1>5 DEF Early
    <3>2. e # d
      BY <1>1, <3>1, Zenon
    <3>3. chan'[d][p] = <<>> /\ client'[d] = client[d]
      BY <1>1, <2>6, <3>1, <3>2
    <3> QED BY <3>1, <3>3, Zenon
  <2>9. Served(p, d) => Served(p, d)'
    <3>1. client'[d].done = client[d].done /\ chan'[p][d] = chan[p][d]
      BY <1>1, <1>2
    <3> QED BY <3>1, Zenon DEF Served
  <2>10. /\ c \notin agent[p].clients /\ chan[p][d] \in Seq(Tells(d))
         /\ agent[p].seq <= 1 /\ agent[p].seq_promised <= 1 /\ agent[p].seq_accepted <= 1
         /\ \A i \in DOMAIN agent[p].storage : agent[p].storage[i].seq = 1
         /\ d \in agent[p].clients => agent[p].val = d
         /\ d \notin agent[p].clients => agent[p].seq = 0 /\ agent[p].storage = <<>>
         /\ agent[p].storage # <<>> =>
              agent[p].seq = 1 /\ agent[p].seq_promised = 1 /\ Served(p, d)
    BY <1>5 DEF Early
  <2>11. chan'[p][d] = chan[p][d]
    BY <1>2
  <2>12. Early(p, c, d)'
    BY <1>1, <2>4, <2>7, <2>8, <2>9, <2>10, <2>11 DEF Early
  <2> QED BY <2>12 DEF Phase
<1> QED BY <1>3, <1>4, <1>5 DEF Phase

\* What the client x has asked for has been selected, it never asks again.
LEMMA ServedTold ==
  ASSUME FollowInv, NEW p \in Agent, OneAt(p), NEW x \in Client, NEW a \in Agent, Told(x, a),
         client[x].done \/ Head(chan[p][x]).val = x
  PROVE  /\ a = p /\ client'[x].done /\ chan[p][x] # <<>>
         /\ chan'[p][x] = Tail(chan[p][x])
         /\ \A y, z \in Node : chan'[y][z] = Rest(p, x, y, z)
<1>0. TypeOK /\ p \in Node /\ RoutesOK /\ a \in Node /\ x \in Node
  BY Nodes DEF FollowInv
<1>1. /\ chan[a][x] \in Seq(Message) /\ chan[a][x] # <<>>
      /\ client[x].done \/ Head(chan[a][x]).val = x =>
           client'[x].done /\ \A y, z \in Node : chan'[y][z] = Rest(a, x, y, z)
  BY <1>0, ToldIs
<1>2. a = p
  <2>1. 1 \in DOMAIN chan[a][x]
    BY <1>1
  <2> QED BY <1>0, <2>1 DEF RoutesOK, Routed, OneAt
<1>3. /\ client'[x].done /\ chan[p][x] # <<>>
      /\ \A y, z \in Node : chan'[y][z] = Rest(p, x, y, z)
  BY <1>1, <1>2, Zenon
<1>4. chan'[p][x] = Tail(chan[p][x])
  BY <1>0, <1>3 DEF Rest
<1> QED BY <1>2, <1>3, <1>4

\* What is left carries what was carried.
LEMMA CarriesRest ==
  ASSUME NEW S, Carries(S), NEW b \in Node, NEW a \in Node, chan[b][a] # <<>>,
         \A x, y \in Node : chan'[x][y] = Rest(b, a, x, y)
  PROVE  \A x, y \in Node : chan'[x][y] \in Seq(S)
<1>1. PICK m : m = a
  OBVIOUS
<1>2. \A x, y \in Node :
         \/ chan'[x][y] = Rest(b, a, x, y)
         \/ m \in S /\ chan'[x][y] = Append(Rest(b, a, x, y), m)
  OBVIOUS
<1> QED BY <1>2, CarriesStep

\* Told: only c late or d can be told something.
LEMMA LevelTold ==
  ASSUME FollowInv, NEW p \in Agent, OneAt(p), NEW c \in Client, Level(p, c),
         NEW e \in Client, NEW a \in Agent, Told(e, a)
  PROVE  Level(p, c)'
<1>0. TypeOK /\ RoutesOK /\ a \in Node /\ e \in Node /\ c \in Node /\ p \in Node /\ p # e /\ p # c
  BY Nodes DEF FollowInv
<1>1. /\ agent' = agent /\ chan[a][e] \in Seq(Message) /\ chan[a][e] # <<>>
      /\ client'[e].log = Append(client[e].log, Head(chan[a][e]).val)
      /\ \A d \in Client : d # e => client'[d] = client[d]
      /\ \A x, y \in Node : /\ Rest(a, e, x, y) \in Seq(Message)
                            /\ \/ chan'[x][y] = Rest(a, e, x, y)
                               \/ chan'[x][y] = Asks(e, x, y, Rest(a, e, x, y))
  BY <1>0, ToldIs
<1>2. a = p
  <2>1. 1 \in DOMAIN chan[a][e]
    BY <1>1
  <2> QED BY <1>0, <2>1 DEF RoutesOK, Routed, OneAt
<1>3. chan'[p][c] = Rest(p, e, p, c)
  BY <1>0, <1>1, <1>2 DEF Asks
<1>4. CASE e # c
  <2>1. chan'[p][c] = chan[p][c] /\ client'[c] = client[c]
    BY <1>1, <1>3, <1>4 DEF Rest
  <2> QED BY <1>1, <2>1 DEF Level
<1>5. CASE e = c
  <2> DEFINE q == chan[p][c]
             log == client[c].log
  <2>1. q \in Seq(Message) /\ q # <<>> /\ log \in Seq(Val)
    BY <1>0, <1>1, <1>2, <1>5 DEF TypeOK
  <2>2. chan'[p][c] = Tail(q) /\ client'[c].log = Append(log, Head(q).val)
    BY <1>1, <1>2, <1>3, <1>5 DEF Rest
  <2>3. Len(log) + Len(q) = Len(agent[p].storage) /\ c \in agent[p].clients
    BY DEF Level
  <2> HIDE DEF q, log
  <2>4. PICK i \in Nat, j \in Nat : i = Len(log) /\ j = Len(q)
    BY <2>1
  <2>5. Len(Tail(q)) = j - 1 /\ j >= 1
    BY <2>1, <2>4
  <2>6. Len(Append(log, Head(q).val)) = i + 1
    BY <2>1, <2>4
  <2>7. (i + 1) + (j - 1) = i + j
    OBVIOUS
  <2>8. Len(client'[c].log) + Len(chan'[p][c]) = i + j
    BY <2>2, <2>5, <2>6, <2>7, Zenon
  <2>9. Len(client'[c].log) + Len(chan'[p][c]) = Len(agent'[p].storage)
    BY <1>1, <2>3, <2>4, <2>8, Zenon
  <2> QED BY <1>1, <2>3, <2>9 DEF Level
<1> QED BY <1>4, <1>5

LEMMA EarlyTold ==
  ASSUME FollowInv, NEW p \in Agent, OneAt(p), NEW c \in Client, NEW d \in Client, c # d,
         Client = {c, d}, Early(p, c, d), NEW e \in Client, NEW a \in Agent, Told(e, a)
  PROVE  Early(p, c, d)'
<1>0. TypeOK /\ p \in Node /\ c \in Node /\ d \in Node /\ e \in Node /\ a \in Node /\ p \notin Client
  BY Nodes DEF FollowInv
<1>1. /\ agent' = agent /\ chan[a][e] \in Seq(Message) /\ chan[a][e] # <<>>
      /\ \A x \in Client : x # e => client'[x] = client[x]
      /\ client'[e].asked = client[e].asked
  BY <1>0, ToldIs
<1>2. a = p
  <2>1. 1 \in DOMAIN chan[a][e]
    BY <1>1
  <2> QED BY <1>0, <2>1 DEF FollowInv, RoutesOK, Routed, OneAt
<1>3. e = d
  <2>1. chan[p][c] = <<>>
    BY DEF FollowInv, ClientOK, Early, OneAt
  <2> QED BY <1>1, <1>2, <2>1
<1>4. chan[p][d] \in Seq(Tells(d)) /\ chan[p][d] # <<>>
  BY <1>1, <1>2, <1>3 DEF Early
<1>5. Head(chan[p][d]).val = d /\ Tail(chan[p][d]) \in Seq(Tells(d))
  BY <1>4, HeadCarried DEF Tells
<1>6. /\ client'[d].done /\ chan'[p][d] = Tail(chan[p][d])
      /\ \A y, z \in Node : chan'[y][z] = Rest(p, d, y, z)
  BY <1>3, <1>5, ServedTold
<1>7. PICK S : S = EarlyMessage(d, agent[p].clients, agent[p].seq_promised)
  OBVIOUS
<1>8. Carries(EarlyMessage(d, agent[p].clients, agent[p].seq_promised))'
  <2>1. Carries(S)
    BY <1>7 DEF Early
  <2>2. \A x, y \in Node : chan'[x][y] \in Seq(S)
    BY <1>0, <1>4, <1>6, <2>1, CarriesRest
  <2> QED BY <1>1, <1>7, <2>2 DEF Carries
<1>9. chan'[c][p] = chan[c][p] /\ chan'[d][p] = chan[d][p]
  BY <1>0, <1>6 DEF Rest
<1>10. client'[c].asked = client[c].asked /\ client'[d].asked = client[d].asked
  BY <1>1, <1>3
<1>11. Once(p, c)' /\ Once(p, d)'
  <2>1. Once(p, c) /\ Once(p, d)
    BY DEF Early
  <2> QED BY <1>9, <1>10, <2>1, Zenon DEF Once
<1>12. d \in agent[p].clients => client'[d].asked /\ chan'[d][p] = <<>>
  <2>1. d \in agent[p].clients => client[d].asked /\ chan[d][p] = <<>>
    BY DEF Early
  <2> QED BY <1>9, <1>10, <2>1, Zenon
<1>13. Served(p, d)'
  BY <1>6, Zenon DEF Served
<1>14. /\ c \notin agent[p].clients
       /\ agent[p].seq <= 1 /\ agent[p].seq_promised <= 1 /\ agent[p].seq_accepted <= 1
       /\ \A i \in DOMAIN agent[p].storage : agent[p].storage[i].seq = 1
       /\ d \in agent[p].clients => agent[p].val = d
       /\ d \notin agent[p].clients => agent[p].seq = 0 /\ agent[p].storage = <<>>
       /\ agent[p].storage # <<>> => agent[p].seq = 1 /\ agent[p].seq_promised = 1
  BY DEF Early
<1>15. chan'[p][d] \in Seq(Tells(d))
  BY <1>5, <1>6
<1> QED BY <1>1, <1>8, <1>11, <1>12, <1>13, <1>14, <1>15 DEF Early

LEMMA LateTold ==
  ASSUME FollowInv, NEW p \in Agent, OneAt(p), NEW c \in Client, NEW d \in Client, c # d,
         Client = {c, d}, Late(p, c, d), NEW e \in Client, NEW a \in Agent, Told(e, a)
  PROVE  Late(p, c, d)'
<1>0. /\ TypeOK /\ RoutesOK /\ p \in Node /\ c \in Node /\ d \in Node /\ e \in Node /\ a \in Node
      /\ p \notin Client
  BY Nodes DEF FollowInv
<1>1. /\ agent' = agent /\ chan[a][e] \in Seq(Message) /\ chan[a][e] # <<>>
      /\ client'[e].log = Append(client[e].log, Head(chan[a][e]).val)
      /\ \A x \in Client : x # e => client'[x] = client[x]
      /\ client'[e].asked = client[e].asked
  BY <1>0, ToldIs
<1>2. a = p
  <2>1. 1 \in DOMAIN chan[a][e]
    BY <1>1
  <2> QED BY <1>0, <2>1 DEF RoutesOK, Routed, OneAt
<1>3. chan[p][c] \in Seq(Tells(c)) /\ Served(p, d) /\ Carries(LateMessage(c))
  BY DEF Late
<1>4. client[e].done \/ Head(chan[p][e]).val = e
  <2>1. CASE e = d
    BY <1>3, <2>1 DEF Served
  <2>2. CASE e = c
    <3>1. Head(chan[p][c]) \in Tells(c)
      BY <1>1, <1>2, <1>3, <2>2, HeadCarried
    <3> QED BY <2>2, <3>1 DEF Tells
  <2> QED BY <2>1, <2>2
<1>5. /\ client'[e].done /\ chan[p][e] # <<>> /\ chan'[p][e] = Tail(chan[p][e])
      /\ \A y, z \in Node : chan'[y][z] = Rest(p, e, y, z)
  BY <1>4, ServedTold
<1>6. Carries(LateMessage(c))'
  <2>1. PICK S : S = LateMessage(c)
    OBVIOUS
  <2>2. \A x, y \in Node : chan'[x][y] \in Seq(S)
    BY <1>0, <1>3, <1>5, <2>1, CarriesRest
  <2> QED BY <2>1, <2>2 DEF Carries
<1>7. \A x \in Client : x # e => chan'[p][x] = chan[p][x] /\ client'[x] = client[x]
  BY <1>0, <1>1, <1>5, Nodes DEF Rest
<1>8. client'[c].asked /\ client'[d].asked
  <2>1. client[c].asked /\ client[d].asked
    BY DEF Late
  <2>2. client'[c].asked = client[c].asked /\ client'[d].asked = client[d].asked
    BY <1>1
  <2> QED BY <2>1, <2>2, Zenon
<1>9. Served(p, d)'
  <2>1. CASE e = d
    BY <1>5, <2>1, Zenon DEF Served
  <2>2. CASE e # d
    <3>1. chan'[p][d] = chan[p][d] /\ client'[d] = client[d]
      BY <1>7, <2>2
    <3> QED BY <1>3, <3>1, Zenon DEF Served
  <2> QED BY <2>1, <2>2
<1>10. /\ chan'[p][c] \in Seq(Tells(c))
       /\ Len(client'[c].log) + Len(chan'[p][c]) = Len(client[c].log) + Len(chan[p][c])
  <2>1. CASE e # c
    BY <1>3, <1>7, <2>1
  <2>2. CASE e = c
    <3> DEFINE q == chan[p][c]
               log == client[c].log
    <3>1. q \in Seq(Tells(c)) /\ q # <<>> /\ log \in Seq(Val)
      BY <1>0, <1>3, <1>5, <2>2 DEF TypeOK
    <3>2. chan'[p][c] = Tail(q) /\ client'[c].log = Append(log, Head(q).val)
      BY <1>1, <1>2, <1>5, <2>2
    <3> HIDE DEF q, log
    <3>3. Tail(q) \in Seq(Tells(c)) /\ Len(Tail(q)) = Len(q) - 1 /\ Len(q) \in Nat
      BY <3>1, HeadCarried
    <3>4. PICK i \in Nat, j \in Nat : i = Len(log) /\ j = Len(q)
      BY <3>1
    <3>5. Len(Append(log, Head(q).val)) = i + 1
      BY <3>1, <3>4
    <3>6. (i + 1) + (j - 1) = i + j
      OBVIOUS
    <3>7. Len(client'[c].log) + Len(chan'[p][c]) = i + j
      BY <3>2, <3>3, <3>4, <3>5, <3>6, Zenon
    <3>8. Len(client'[c].log) + Len(chan'[p][c]) = Len(log) + Len(q)
      BY <3>4, <3>7, Zenon
    <3> QED BY <3>2, <3>3, <3>8 DEF log, q
  <2> QED BY <2>1, <2>2
<1>11. /\ c \in agent[p].clients /\ agent[p].val = c /\ agent[p].seq_promised >= 1
       /\ agent[p].seq_accepted <= 2 /\ agent[p].storage # <<>> /\ agent[p].storage[1].seq = 1
       /\ Len(client[c].log) + Len(chan[p][c]) < Len(agent[p].storage)
  BY DEF Late
<1>12. Len(client'[c].log) + Len(chan'[p][c]) < Len(agent[p].storage)
  BY <1>10, <1>11, Zenon
<1> QED BY <1>1, <1>6, <1>8, <1>9, <1>10, <1>11, <1>12 DEF Late

\* Every step keeps what there is to say of c and d.
LEMMA PhaseStep ==
  ASSUME FollowInv, FollowInv', NEW p \in Agent, OneAt(p), AgreeInv(p),
         NEW c \in Client, NEW d \in Client, c # d, Client = {c, d}, Phase(p, c, d), [Next]_vars
  PROVE  Phase(p, c, d)'
<1>0. TypeOK /\ TypeOK'
  BY DEF FollowInv
<1>1. CASE UNCHANGED vars
  <2>1. agent' = agent /\ client' = client /\ chan' = chan
    BY <1>1 DEF vars
  <2> QED BY <2>1 DEF Phase, Early, Level, Late, Once, Served, Carries
<1>2. ASSUME NEW a \in Agent, NEW b \in Node, NEW s \in AgentState, NEW targets \in SUBSET Node,
             NEW m \in Message, Step(a, b, s, targets, m),
             Quiet(a, b, s, targets, m) => targets \subseteq Agent
      PROVE  Phase(p, c, d)'
  <2>1. PICK h : h = Head(chan[b][a])
    OBVIOUS
  <2>2. Acts(p, a, b, h, s, targets, m) /\ After(p, a, b, h, s, targets, m)
    BY <1>2, <2>1, StepActs
  <2>3. CASE Level(p, c)
    BY <1>0, <2>2, <2>3, LevelStep DEF Phase
  <2>4. CASE Late(p, c, d)
    BY <1>0, <2>2, <2>4, LateStep DEF Phase
  <2>5. CASE Early(p, c, d) /\ h.type # "Request"
    BY <1>0, <2>2, <2>5, EarlyOther DEF Phase
  <2>6. CASE Early(p, c, d) /\ h.type = "Request"
    <3>1. a = p /\ b \in {c, d}
      BY <2>2, <2>6 DEF Acts, Routed, Directed
    <3>2. CASE b = c
      <4>1. Level(p, c)' \/ Late(p, c, d)'
        BY <2>2, <2>6, <3>1, <3>2, EarlyEnds
      <4> QED BY <4>1 DEF Phase
    <3>3. CASE b = d
      BY <1>0, <2>2, <2>6, <3>1, <3>3, EarlyFirst DEF Phase
    <3> QED BY <3>1, <3>2, <3>3
  <2> QED BY <2>3, <2>4, <2>5, <2>6 DEF Phase
<1>3. ASSUME NEW a \in Agent, NEW b \in Node, Quietly(a, b) PROVE Phase(p, c, d)'
  <2>1. PICK s \in AgentState, targets \in SUBSET Agent, m \in Message : Quiet(a, b, s, targets, m)
    BY <1>3 DEF Quietly
  <2>2. targets \in SUBSET Node /\ Step(a, b, s, targets, m)
    BY <2>1 DEF Step, Node
  <2> QED BY <1>2, <2>1, <2>2
<1>4. ASSUME NEW a \in Agent, NEW b \in Agent, Selecting(a, b) PROVE Phase(p, c, d)'
  <2>1. PICK s \in AgentState, m \in Message : Selects(a, b, s, m)
    BY <1>4 DEF Selecting
  <2>2. Agent \in SUBSET Node /\ Step(a, b, s, Agent, m) /\ b \in Node
    BY <2>1 DEF Step, Node
  <2> QED BY <1>2, <2>1, <2>2
<1>5. ASSUME NEW a \in Agent, NEW b \in Agent, Storing(a, b) PROVE Phase(p, c, d)'
  <2>1. PICK s \in AgentState, m \in Message : Stores(a, b, s, m)
    BY <1>5 DEF Storing
  <2>2. PICK targets : targets = agent[a].clients
    OBVIOUS
  <2>3. targets \in SUBSET Node /\ Step(a, b, s, targets, m) /\ b \in Node
    BY <1>0, <2>1, <2>2 DEF Step, Node, TypeOK
  <2>4. ~Quiet(a, b, s, targets, m)
    <3>1. Head(chan[b][a]).type = "Selected"
      BY <2>1 DEF Stores
    <3> QED BY <3>1 DEF Quiet, Answers
  <2> QED BY <1>2, <2>3, <2>4
<1>6. ASSUME NEW a \in Agent, NEW b \in Agent, AgentNext(a, b) PROVE Phase(p, c, d)'
  BY <1>0, <1>3, <1>4, <1>5, <1>6, AgentSteps, Nodes
<1>7. ASSUME NEW e \in Client, NEW a \in Agent, Request(a, e) PROVE Phase(p, c, d)'
  BY <1>0, <1>3, <1>7, RequestIs, Nodes DEF Quietly
<1>8. ASSUME NEW e \in Client, NEW a \in Agent, Told(e, a) PROVE Phase(p, c, d)'
  BY <1>8, LevelTold, EarlyTold, LateTold DEF Phase
<1> QED BY <1>1, <1>6, <1>7, <1>8, PhaseSetup DEF Next, ClientNext

\* At first nobody is known.
LEMMA PhaseInit ==
  ASSUME Init, TypeOK, NEW p \in Agent, NEW c \in Client, NEW d \in Client
  PROVE  Phase(p, c, d)
<1>1. p \in Node /\ c \in Node /\ d \in Node
  BY Nodes
<1>2. /\ \A x, y \in Node : chan[x][y] = <<>>
      /\ agent[p].clients = {} /\ agent[p].storage = <<>> /\ agent[p].seq = 0
      /\ agent[p].seq_promised = 0 /\ agent[p].seq_accepted = 0
  BY DEF Init
<1>3. Once(p, c) /\ Once(p, d)
  BY <1>1, <1>2 DEF Once
<1>4. \A S : <<>> \in Seq(S)
  OBVIOUS
<1>5. Carries(EarlyMessage(d, agent[p].clients, agent[p].seq_promised)) /\ chan[p][d] \in Seq(Tells(d))
  BY <1>1, <1>2, <1>4, Zenon DEF Carries
<1>6. /\ agent[p].seq <= 1 /\ agent[p].seq_promised <= 1 /\ agent[p].seq_accepted <= 1
      /\ \A i \in DOMAIN agent[p].storage : agent[p].storage[i].seq = 1
  BY <1>2
<1>7. Early(p, c, d)
  BY <1>2, <1>3, <1>5, <1>6, Zenon DEF Early
<1> QED BY <1>7 DEF Phase

\* A client that reports has seen all that is stored.
LEMMA ReportsLevel ==
  ASSUME FollowInv, NEW p \in Agent, OneAt(p), AgreeInv(p), NEW c \in Client, NEW d \in Client,
         Phase(p, c, d), Cardinality(Client) = 2, Reports(c)
  PROVE  Level(p, c)
<1>a. TypeOK /\ p \in Node /\ c \in Node /\ Target[c] = p
  BY Nodes DEF FollowInv, OneAt
<1>b. client[c].log \in Seq(Val) /\ chan[p][c] \in Seq(Message)
  BY <1>a DEF TypeOK
<1>c. Len(client[c].log) >= 2
  BY DEF Reports
<1>0. TypeOK /\ p \in Node /\ c \in Node /\ Target[c] = p /\ client[c].log \in Seq(Val)
      /\ chan[p][c] \in Seq(Message) /\ Len(client[c].log) >= 2
  BY <1>a, <1>b, <1>c
<1>1. ASSUME Early(p, c, d) PROVE FALSE
  <2>1. client[c].log = <<>>
    BY <1>0, <1>1 DEF FollowInv, ClientOK, Early
  <2> QED BY <1>0, <2>1
<1>2. ASSUME Late(p, c, d) PROVE FALSE
  <2> DEFINE st == agent[p].storage
             top == agent[p].seq_accepted
  <2>1. st \in Seq(Stored) /\ top \in Nat /\ InLine(st, chan[p][p], top)
    BY <1>0, AgreeTypes DEF AgreeInv
  <2>2. top <= 2 /\ st[1].seq = 1 /\ Len(client[c].log) + Len(chan[p][c]) < Len(st)
    BY <1>2 DEF Late
  <2> HIDE DEF st, top
  <2>3. PICK i \in Nat, j \in Nat, k \in Nat : i = Len(client[c].log) /\ j = Len(chan[p][c]) /\ k = Len(st)
    BY <1>0, <2>1
  <2>4. i + j < k /\ i >= 2
    BY <1>0, <2>2, <2>3, Zenon
  <2>5. k >= 3
    BY <2>4
  <2>6. 1 \in DOMAIN st /\ 2 \in DOMAIN st /\ 3 \in DOMAIN st
    BY <2>1, <2>3, <2>5
  <2>7. st[1].seq < st[2].seq /\ st[2].seq < st[3].seq /\ st[3].seq <= top
    BY <2>1, <2>6 DEF InLine
  <2>8. st[2].seq \in Nat /\ st[3].seq \in Nat
    <3>1. st[2] \in Stored /\ st[3] \in Stored
      BY <2>1, <2>6
    <3> QED BY <3>1 DEF Stored
  <2>9. top \in Nat /\ top <= 2 /\ 1 < st[2].seq
    BY <2>1, <2>2, <2>7
  <2> QED BY <2>7, <2>8, <2>9
<1> QED BY <1>1, <1>2 DEF Phase

\* Two clients of one agent report the same log, as main's "seen.len() == 1"
\* demands, however their requests and the ballots for them overlap: a client that
\* has missed an entry is never told enough of them to report.
THEOREM TwoClientsReportTheSame ==
  ASSUME \E p \in Agent : \A c \in Client : Target[c] = p, Cardinality(Client) <= 2
  PROVE  Spec => []SameLogs
<1>1. PICK p \in Agent : OneAt(p)
  BY DEF OneAt
<1>2. CASE \A c, d \in Client : c = d
  <2>1. SameLogs
    BY <1>2 DEF SameLogs
  <2> QED BY <2>1, PTL
<1>3. CASE \E c, d \in Client : c # d
  <2>1. PICK c \in Client, d \in Client : c # d
    BY <1>3
  <2>2. Client = {c, d} /\ Cardinality(Client) = 2
    <3>1. IsFiniteSet(Client) /\ Cardinality(Client) \in Nat
      BY PaxosAssumption, FS_CardinalityType
    <3>2. IsFiniteSet({c, d}) /\ Cardinality({c, d}) = 2
      <4>1. PICK S : S = {c}
        OBVIOUS
      <4>2. Cardinality(S) = 1 /\ IsFiniteSet(S)
        BY <4>1, FS_Singleton
      <4>3. {c, d} = S \cup {d} /\ d \notin S
        BY <2>1, <4>1
      <4>4. IsFiniteSet(S \cup {d}) /\ Cardinality(S \cup {d}) = Cardinality(S) + 1
        BY <4>2, <4>3, FS_AddElement
      <4> QED BY <4>2, <4>3, <4>4
    <3>3. {c, d} \subseteq Client
      BY <2>1
    <3> QED BY <3>1, <3>2, <3>3, FS_Subset
  <2>3. Init /\ TypeOK => Phase(p, c, d) /\ Phase(p, d, c)
    BY PhaseInit
  <2>4. ASSUME FollowInv, AgreeInv(p), Phase(p, c, d), Phase(p, d, c) PROVE SameLogs
    <3> SUFFICES ASSUME NEW x \in Client, NEW y \in Client, Reports(x), Reports(y)
                 PROVE  Reported(x) = Reported(y)
      BY DEF SameLogs
    <3>1. ASSUME NEW z \in Client, Reports(z)
          PROVE  /\ client[z].log \in Seq(Val) /\ Len(client[z].log) >= 2
                 /\ client[z].log[1] = agent[p].storage[1].val
                 /\ client[z].log[2] = agent[p].storage[2].val
      <4>1. Level(p, z)
        <5>1. \E w \in Client : Phase(p, z, w)
          BY <2>2, <2>4
        <5> QED BY <1>1, <2>2, <2>4, <3>1, <5>1, ReportsLevel
      <4>a. TypeOK /\ p \in Node /\ z \in Node /\ Target[z] = p
        BY <1>1, <2>4, Nodes DEF FollowInv, OneAt
      <4>b. client[z].log \in Seq(Val) /\ chan[p][z] \in Seq(Message)
        BY <4>a DEF TypeOK
      <4>c. agent[p].storage \in Seq(Stored)
        BY <4>a, AgreeTypes
      <4>d. Len(client[z].log) >= 2
        BY <2>2, <3>1 DEF Reports
      <4>2. /\ client[z].log \in Seq(Val) /\ chan[p][z] \in Seq(Message)
            /\ agent[p].storage \in Seq(Stored) /\ Len(client[z].log) >= 2 /\ Target[z] = p
        BY <4>a, <4>b, <4>c, <4>d
      <4>3. Follows(client[z].log, chan[p][z], agent[p].storage)
        BY <2>4, <4>2 DEF FollowInv, ClientOK
      <4>4. PICK i \in Nat, j \in Nat, k \in Nat :
              i = Len(client[z].log) /\ j = Len(chan[p][z]) /\ k = Len(agent[p].storage)
        BY <4>2
      <4>5. i + j = k /\ i >= 2
        BY <4>1, <4>2, <4>4, Zenon DEF Level
      <4>6. \A n \in 1..i : client[z].log[n] = agent[p].storage[k - i - j + n].val
        BY <4>3, <4>4, Zenon DEF Follows
      <4>7. k - i - j + 1 = 1 /\ k - i - j + 2 = 2 /\ 1 \in 1..i /\ 2 \in 1..i
        BY <4>5
      <4>8. /\ client[z].log[1] = agent[p].storage[1].val
            /\ client[z].log[2] = agent[p].storage[2].val
        BY <4>6, <4>7, Zenon
      <4> QED BY <4>2, <4>8
    <3>2. /\ client[x].log \in Seq(Val) /\ Len(client[x].log) >= 2
          /\ client[y].log \in Seq(Val) /\ Len(client[y].log) >= 2
          /\ client[x].log[1] = client[y].log[1] /\ client[x].log[2] = client[y].log[2]
      BY <3>1
    <3>3. SubSeq(client[x].log, 1, 2) = SubSeq(client[y].log, 1, 2)
      BY <3>2
    <3> QED BY <2>2, <3>3 DEF Reported
  <2>5. ASSUME FollowInv, FollowInv', AgreeInv(p), Phase(p, c, d), Phase(p, d, c), [Next]_vars
        PROVE  Phase(p, c, d)' /\ Phase(p, d, c)'
    <3>1. c # d /\ d # c /\ Client = {c, d} /\ Client = {d, c}
      BY <2>1, <2>2
    <3>2. Phase(p, c, d)'
      BY <1>1, <2>5, <3>1, PhaseStep
    <3>3. Phase(p, d, c)'
      BY <1>1, <2>5, <3>1, PhaseStep
    <3> QED BY <3>2, <3>3
  <2>6. Spec => []AgreeInv(p)
    BY <1>1, AgreeSafe
  <2> QED BY <2>3, <2>4, <2>5, <2>6, FollowSafe, PaxosTypes, PTL DEF Spec
<1> QED BY <1>2, <1>3

=============================================================================
