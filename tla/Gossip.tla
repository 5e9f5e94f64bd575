------------------------------- MODULE Gossip -------------------------------
(***************************************************************************)
(* The membership and failure detection of src/examples/gossip.rs: agents  *)
(* that beat, gossip about each other and report a peer of which they have *)
(* not heard for a while, and the countdown that tells main when all have  *)
(* stopped.                                                                *)
(*                                                                         *)
(* An agent's clock counts from its own start and is only compared with    *)
(* itself: instead of `seen` a peer has an age.  Messages from one agent   *)
(* to another stay in order and are not lost (see Remote), except that an  *)
(* agent that has stopped receives nothing.                                *)
(***************************************************************************)
EXTENDS Naturals, Sequences, FiniteSets, TLC

CONSTANTS
  Agent,
  Pings,     \* the agents each one pings at its Init
  Horizon,   \* `horizon`, in steps of the clock
  Period,    \* beats from one gossip to the next
  MaxBeat,   \* bound of the model: beats of an agent; it then ticks on without
  MaxQueue   \* bound of the model: messages between two agents when one gossips

ASSUME GossipAssumption ==
  /\ IsFiniteSet(Agent) /\ Pings \in [Agent -> SUBSET Agent]
  /\ {Horizon, MaxBeat, MaxQueue} \subseteq Nat /\ Period \in Nat \ {0}

VARIABLES
  agent,     \* the fields of each Agent, and whether it runs
  chan,      \* chan[s][d]: the messages on their way from s to d
  downs,     \* the agents whose Down is on its way to the countdown
  n          \* Countdown.n

vars == <<agent, chan, downs, n>>

\* The tag of an agent is NoTag, "", until its first Ping or Pong.
NoTag == "none"
Tag == Agent \cup {NoTag}
Fields == [is : {"new", "up", "stopped"}, tag : Tag, beat : Nat, down : SUBSET Tag]
Entry == [tag : Tag, beat : Nat]

TypeOK ==
  /\ \A a \in Agent :
       /\ [is |-> agent[a].is, tag |-> agent[a].tag, beat |-> agent[a].beat,
           down |-> agent[a].down] \in Fields
       /\ DOMAIN agent[a].peers \subseteq Tag
       /\ \A p \in DOMAIN agent[a].peers :
            agent[a].peers[p] \in [beat : 0..MaxBeat, age : 0..(Horizon + 1)]
  /\ chan \in [Agent -> [Agent -> Seq([type : {"Ping", "Pong", "Gossip"}, about : SUBSET Entry])]]
  /\ downs \subseteq Agent /\ n \in 0..Cardinality(Agent)

Init ==
  /\ agent = [a \in Agent |-> [is |-> "new", tag |-> NoTag, beat |-> 0,
                               peers |-> <<>>, down |-> {}]]
  /\ chan = [s \in Agent |-> [d \in Agent |-> <<>>]]
  /\ downs = {} /\ n = Cardinality(Agent)

-----------------------------------------------------------------------------
(* What an agent knows.                                                    *)

\* Mutant: the comparison never succeeds.
NeverOld(peer) == FALSE
IsOld(peer) == peer.age > Horizon

\* Agent::detect: reports, once, the peers that have not been heard of.
detect(s) ==
  [s EXCEPT !.down = @ \cup {p \in DOMAIN s.peers : IsOld(s.peers[p])}]

\* Mutant: what is not newer counts as a sign of life, one beat on.
Guessed(peer, beat) == IF beat >= peer.beat THEN [beat |-> beat + 1, age |-> 0] ELSE peer
Heard(peer, beat) == IF beat > peer.beat THEN [beat |-> beat, age |-> 0] ELSE peer

\* Agent::accept: every entry but its own, known or new, then detect.
accept(s, about) ==
  LET others == {e \in about : e.tag # s.tag}
      of(p) == {e.beat : e \in {f \in others : f.tag = p}}
      Latest(p) == CHOOSE b \in of(p) : \A c \in of(p) : c <= b
  IN  detect([s EXCEPT !.peers =
        [p \in DOMAIN @ \cup {e.tag : e \in others} |->
           IF of(p) = {} THEN @[p]
           ELSE IF p \in DOMAIN @ THEN Heard(@[p], Latest(p))
           ELSE [beat |-> Latest(p), age |-> 0]]])

\* Agent::gossip: about itself, and about one of the peers it has heard of
\* when there are two or more.  (Which one depends on their order and the beat.)
gossip(s) ==
  LET me == [tag |-> s.tag, beat |-> s.beat]
      peers == {p \in DOMAIN s.peers : ~IsOld(s.peers[p])}
  IN  IF Cardinality(peers) < 2 THEN {{me}}
      ELSE {{me, [tag |-> p, beat |-> s.peers[p].beat]} : p \in peers}

-----------------------------------------------------------------------------
(* Agent::receive.                                                         *)

Message(type, about) == [type |-> type, about |-> about]
Self(a) == {[tag |-> a, beat |-> agent[a].beat]}

\* a sends m to each of targets.
SendAll(c, a, targets, m) ==
  [c EXCEPT ![a] = [d \in Agent |-> IF d \in targets THEN Append(@[d], m) ELSE @[d]]]

\* Message::Init of main.
Start(a) ==
  /\ agent[a].is = "new"
  /\ agent' = [agent EXCEPT ![a].is = "up"]
  /\ chan' = SendAll(chan, a, Pings[a], Message("Ping", Self(a)))
  /\ UNCHANGED <<downs, n>>

\* Message::Tick, every `tick`: a beat, and on every period-th the gossip.
Tick(a) ==
  LET s == [agent[a] EXCEPT !.beat = IF @ < MaxBeat THEN @ + 1 ELSE @] IN
  /\ agent[a].is = "up" /\ \A d \in Agent : Len(chan[a][d]) < MaxQueue
  /\ \/ /\ s.beat % Period = 0
        /\ agent' = [agent EXCEPT ![a] = detect(s)]
        /\ \E about \in gossip(s) :
             chan' = SendAll(chan, a, DOMAIN s.peers, Message("Gossip", about))
     \/ /\ s.beat % Period # 0
        /\ agent' = [agent EXCEPT ![a] = s]
        /\ UNCHANGED chan
  /\ UNCHANGED <<downs, n>>

\* Ping, Pong and Gossip.  A Ping or Pong tells the agent its own tag; a Ping
\* is answered.  (is_known and is_self compare a local tag with remote ones
\* and are never true.)
Receive(a, b) ==
  LET m == Head(chan[b][a])
      s == IF m.type = "Gossip" THEN agent[a] ELSE [agent[a] EXCEPT !.tag = a]
      rest == [chan EXCEPT ![b][a] = Tail(@)]
  IN
  /\ agent[a].is = "up" /\ chan[b][a] # <<>>
  /\ agent' = [agent EXCEPT ![a] = accept(s, m.about)]
  /\ chan' = IF m.type = "Ping" THEN SendAll(rest, a, {b}, Message("Pong", Self(a))) ELSE rest
  /\ UNCHANGED <<downs, n>>

\* Mutant: nobody is told.
Unannounced(a) == downs
Announced(a) == downs \cup {a}

\* Message::Stop, which main sends with a delay.
Stop(a) ==
  /\ agent[a].is = "up"
  /\ agent' = [agent EXCEPT ![a].is = "stopped"]
  /\ downs' = Announced(a)
  /\ UNCHANGED <<chan, n>>

\* Messages for an actor that is gone are dropped by its scheduler.
Lose(a, b) ==
  /\ agent[a].is = "stopped" /\ chan[b][a] # <<>>
  /\ chan' = [chan EXCEPT ![b][a] = <<>>]
  /\ UNCHANGED <<agent, downs, n>>

\* Countdown::receive.
Down(a) ==
  /\ a \in downs
  /\ downs' = downs \ {a} /\ n' = n - 1
  /\ UNCHANGED <<agent, chan>>

\* Time passes for all.
Older(peer) == [peer EXCEPT !.age = IF @ <= Horizon THEN @ + 1 ELSE @]
Elapse ==
  /\ agent' = [a \in Agent |-> [agent[a] EXCEPT !.peers = [p \in DOMAIN @ |-> Older(@[p])]]]
  /\ UNCHANGED <<chan, downs, n>>

-----------------------------------------------------------------------------

Next ==
  \/ \E a \in Agent : Start(a) \/ Tick(a) \/ Stop(a) \/ Down(a)
  \/ \E a, b \in Agent : Receive(a, b) \/ Lose(a, b)
  \/ Elapse

\* main starts the agents and stops them later, ticks are rescheduled, messages
\* arrive and time passes.
Fairness ==
  /\ WF_vars(Elapse)
  /\ \A a \in Agent : WF_vars(Start(a)) /\ WF_vars(Tick(a)) /\ WF_vars(Down(a))
  /\ \A a, b \in Agent : WF_vars(Receive(a, b)) /\ WF_vars(Lose(a, b))

Spec == Init /\ [][Next]_vars /\ Fairness

-----------------------------------------------------------------------------
(* Properties.                                                             *)

\* What is known of a peer, or said of it in any message, is not more than the
\* beats it has had, over any number of hops.
BeatsAreReal ==
  \A a \in Agent :
    /\ \A p \in DOMAIN agent[a].peers \ {NoTag} : agent[a].peers[p].beat <= agent[p].beat
    /\ \A b \in Agent : \A i \in DOMAIN chan[a][b] : \A e \in chan[a][b][i].about :
         e.tag # NoTag => e.beat <= agent[e.tag].beat

\* A peer that stops is reported by every agent that knew it and stays up.
FailureDetected ==
  \A a, p \in Agent :
    (agent[p].is = "stopped" /\ p \in DOMAIN agent[a].peers)
      ~> (p \in agent[a].down \/ agent[a].is = "stopped")

\* main is told when all agents have been stopped, and returns.
MainReturns == (\A a \in Agent : agent[a].is = "stopped") ~> (n = 0)

=============================================================================
