------------------------------- MODULE Paxos -------------------------------
(***************************************************************************)
(* The log replication of src/examples/paxos.rs: agents that are proposer, *)
(* acceptor and learner at once, and clients that ask one agent each to    *)
(* have a value selected and collect what that agent tells them.           *)
(*                                                                         *)
(* Messages are not lost and those from one node to another stay in order: *)
(* each is delayed by the same SEND_DELAY_MILLIS and crosses one TCP       *)
(* connection (Remote says when that is so).                               *)
(***************************************************************************)
EXTENDS Naturals, Sequences, FiniteSets, Functions

CONSTANTS
  Agent,   \* the nodes, `peers` of every agent
  Client,  \* the clients
  Target,  \* the agent each client asks: nodes[id % nodes.len()]
  MaxSeq   \* bound of the model: ballots proposed

ASSUME PaxosAssumption ==
  /\ IsFiniteSet(Agent) /\ IsFiniteSet(Client) /\ Agent \cap Client = {}
  /\ Target \in [Client -> Agent] /\ MaxSeq \in Nat

Node == Agent \cup Client

VARIABLES
  agent,   \* the fields of each Agent
  client,  \* the fields of each Client
  chan     \* chan[s][d]: the messages on their way from s to d

vars == <<agent, client, chan>>

None == "none"
\* A client's value is its name.
Val == Client \cup {None}
Message ==
       [type : {"Request"}, val : Client]
  \cup [type : {"Prepare", "Promise", "Ignored", "Rejected"}, seq : Nat]
  \cup [type : {"Accept", "Accepted", "Selected"}, seq : Nat, val : Val]

TypeOK ==
  /\ agent \in [Agent ->
       [val : Val, seq : Nat, seq_promised : Nat, seq_accepted : Nat,
        promised : SUBSET Agent, accepted : SUBSET Agent,
        clients : SUBSET Client, storage : Seq([seq : Nat, val : Val])]]
  /\ client \in [Client -> [asked : BOOLEAN, done : BOOLEAN, log : Seq(Val)]]
  /\ chan \in [Node -> [Node -> Seq(Message)]]

Init ==
  /\ agent = [a \in Agent |->
       [val |-> None, seq |-> 0, seq_promised |-> 0, seq_accepted |-> 0,
        promised |-> {}, accepted |-> {}, clients |-> {}, storage |-> <<>>]]
  /\ client = [c \in Client |-> [asked |-> FALSE, done |-> FALSE, log |-> <<>>]]
  /\ chan = [s \in Node |-> [d \in Node |-> <<>>]]

-----------------------------------------------------------------------------
(* Messages.                                                               *)

\* One message to each of targets.
To(targets, m) == [d \in Node |-> IF d \in targets THEN <<m>> ELSE <<>>]
Nothing == [d \in Node |-> <<>>]

Incoming(s, d) == IF chan[s][d] = <<>> THEN [type |-> None] ELSE Head(chan[s][d])
Received(s, d, type) == Incoming(s, d).type = type

\* n has received the next message from s, and answers.
Respond(s, n, out) ==
  chan' = [x \in Node |-> [y \in Node |->
             (IF x = s /\ y = n THEN Tail(chan[x][y]) ELSE chan[x][y])
             \o (IF x = n THEN out[y] ELSE <<>>)]]

-----------------------------------------------------------------------------
(* Agent::handle, one action per message.                                  *)

\* Mutant: an agent leaves itself out.
OtherAgents(a) == Agent \ {a}
peers(a) == Agent

\* Mutant: the agent is its own client.
RegisteredSelf(a, c) == agent[a].clients \cup {a}
Registered(a, c) == agent[a].clients \cup {c}

Request(a, c) ==
  /\ Received(c, a, "Request") /\ agent[a].seq < MaxSeq
  /\ agent' = [agent EXCEPT ![a].val = Head(chan[c][a]).val, ![a].clients = Registered(a, c)]
  /\ Respond(c, a, To(peers(a), [type |-> "Prepare", seq |-> agent[a].seq + 1]))
  /\ UNCHANGED client

Prepare(a, b) ==
  LET seq == Head(chan[b][a]).seq IN
  /\ Received(b, a, "Prepare")
  /\ \/ /\ seq > agent[a].seq
        /\ agent' = [agent EXCEPT ![a].seq = seq]
        /\ Respond(b, a, To({b}, [type |-> "Promise", seq |-> seq]))
     \/ /\ seq <= agent[a].seq
        /\ Respond(b, a, To({b}, [type |-> "Ignored", seq |-> seq]))
        /\ UNCHANGED agent
  /\ UNCHANGED client

quorum(n) == n > Cardinality(Agent) \div 2

Promise(a, b) ==
  LET seq == Head(chan[b][a]).seq
      promised == agent[a].promised \cup {b}
  IN
  /\ Received(b, a, "Promise") /\ seq > agent[a].seq_promised
  /\ \/ /\ quorum(Cardinality(promised))
        /\ agent' = [agent EXCEPT ![a].promised = {}, ![a].seq_promised = seq]
        /\ Respond(b, a, To(peers(a), [type |-> "Accept", seq |-> seq, val |-> agent[a].val]))
     \/ /\ ~quorum(Cardinality(promised))
        /\ agent' = [agent EXCEPT ![a].promised = promised]
        /\ Respond(b, a, Nothing)
  /\ UNCHANGED client

Accept(a, b) ==
  LET m == Head(chan[b][a])
      reply == IF m.seq >= agent[a].seq THEN [m EXCEPT !.type = "Accepted"]
               ELSE [type |-> "Rejected", seq |-> m.seq]
  IN
  /\ Received(b, a, "Accept")
  /\ Respond(b, a, To({b}, reply))
  /\ UNCHANGED <<agent, client>>

\* Mutant: what has been selected may be selected again.
AnyAccepted(a, seq) == TRUE
FreshAccepted(a, seq) == seq > agent[a].seq_accepted

Accepted(a, b) ==
  LET m == Head(chan[b][a])
      accepted == agent[a].accepted \cup {b}
  IN
  /\ Received(b, a, "Accepted") /\ FreshAccepted(a, m.seq)
  /\ \/ /\ quorum(Cardinality(accepted))
        /\ agent' = [agent EXCEPT ![a].accepted = {}, ![a].seq_accepted = m.seq]
        /\ Respond(b, a, To(peers(a), [m EXCEPT !.type = "Selected"]))
     \/ /\ ~quorum(Cardinality(accepted))
        /\ agent' = [agent EXCEPT ![a].accepted = accepted]
        /\ Respond(b, a, Nothing)
  /\ UNCHANGED client

\* Mutant: everybody is told.
EveryClient(a) == Client
Informed(a) == agent[a].clients

Selected(a, b) ==
  LET m == Head(chan[b][a]) IN
  /\ Received(b, a, "Selected")
  /\ agent' = [agent EXCEPT ![a].seq = m.seq, ![a].promised = {},
                 ![a].storage = Append(@, [seq |-> m.seq, val |-> m.val])]
  /\ Respond(b, a, To(Informed(a), m))
  /\ UNCHANGED client

\* Ignored, Rejected, and a Promise or Accepted that is late.
Discard(a, b) ==
  LET m == Incoming(b, a) IN
  /\ \/ m.type \in {"Ignored", "Rejected"}
     \/ m.type = "Promise" /\ m.seq <= agent[a].seq_promised
     \/ m.type = "Accepted" /\ ~FreshAccepted(a, m.seq)
  /\ Respond(b, a, Nothing)
  /\ UNCHANGED <<agent, client>>

-----------------------------------------------------------------------------
(* Client::receive.                                                        *)

Ask(c) == [type |-> "Request", val |-> c]

Setup(c) ==
  /\ ~client[c].asked
  /\ client' = [client EXCEPT ![c].asked = TRUE]
  /\ chan' = [chan EXCEPT ![c][Target[c]] = Append(@, Ask(c))]
  /\ UNCHANGED agent

\* Something was selected; if it is not this client's value, it asks again.
Told(c, a) ==
  LET done == client[c].done \/ Head(chan[a][c]).val = c IN
  /\ Received(a, c, "Selected")
  /\ client' = [client EXCEPT ![c].log = Append(@, Head(chan[a][c]).val), ![c].done = done]
  /\ Respond(a, c, IF done THEN Nothing ELSE To({Target[c]}, Ask(c)))
  /\ UNCHANGED agent

-----------------------------------------------------------------------------

AgentNext(a, b) ==
  Prepare(a, b) \/ Promise(a, b) \/ Accept(a, b) \/ Accepted(a, b) \/ Selected(a, b)
  \/ Discard(a, b)

ClientNext(c, a) == Request(a, c) \/ Told(c, a)

Next ==
  \/ \E a, b \in Agent : AgentNext(a, b)
  \/ \E c \in Client : Setup(c) \/ \E a \in Agent : ClientNext(c, a)

\* Clients are set up and messages arrive: no behaviour ends while there is one
\* on its way.
Fairness == WF_vars(Next)

Spec == Init /\ [][Next]_vars /\ Fairness

-----------------------------------------------------------------------------
(* Properties.                                                             *)

\* What the client reports to main: its log when it has one entry per client.
Reported(c) == SubSeq(client[c].log, 1, Cardinality(Client))
Reports(c) == Len(client[c].log) >= Cardinality(Client)

\* main: "seen.len() == 1": the clients report the same log.
SameLogs ==
  \A c, d \in Client : Reports(c) /\ Reports(d) => Reported(c) = Reported(d)

\* Every client gets its value selected (or the bound of the model is met).
ClientsServed == \A c \in Client : <>(client[c].done \/ \E a \in Agent : agent[a].seq = MaxSeq)

\* What a client knows, with what is on its way to it, is the end of the log of
\* the agent it asked.
ClientFollows ==
  \A c \in Client :
    LET stored == [i \in DOMAIN agent[Target[c]].storage |-> agent[Target[c]].storage[i].val]
        coming == chan[Target[c]][c]
        known == client[c].log \o [i \in DOMAIN coming |-> coming[i].val]
    IN  Len(known) <= Len(stored) /\ known = SubSeq(stored, Len(stored) - Len(known) + 1, Len(stored))

\* The agents' logs are in the order of the ballots, each once, however ballots
\* overlap; they never differ as far as they go, and when all is quiet they are
\* the same.
LogsAgree ==
  /\ \A a \in Agent : \A i, j \in DOMAIN agent[a].storage :
       i < j => agent[a].storage[i].seq < agent[a].storage[j].seq
  /\ \A a, b \in Agent : \A i \in DOMAIN agent[a].storage \cap DOMAIN agent[b].storage :
       agent[a].storage[i] = agent[b].storage[i]
  /\ (\A s, d \in Node : chan[s][d] = <<>>) =>
       \A a, b \in Agent : agent[a].storage = agent[b].storage

Log == INSTANCE ReplicatedLog WITH
         Replica <- Agent, Reader <- Client, Home <- Target,
         stored <- [a \in Agent |-> agent[a].storage], told <- [c \in Client |-> client[c].log]

\* With one proposer the agents keep one log between them, and a client is told a
\* piece of it, without a gap.
ImplementsLog == Log!LogSpec

=============================================================================
