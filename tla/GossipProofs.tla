---------------------------- MODULE GossipProofs ----------------------------
(***************************************************************************)
(* Theorems about Gossip, for any agents, pings, horizon, period and       *)
(* bounds.                                                                 *)
(***************************************************************************)
EXTENDS Gossip, FiniteSetTheorems, WellFoundedInduction, TLAPS

\* What TypeOK says of an agent, as a set of records, with a bound for its
\* beats and those it hears of: a peer's beat is bounded because all beats are.
Beat == 0..MaxBeat
Peer == [beat : Beat, age : 0..(Horizon + 1)]
Peers == UNION {[D -> Peer] : D \in SUBSET Tag}
AgentState == [is : {"new", "up", "stopped"}, tag : Tag, beat : Beat,
               peers : Peers, down : SUBSET Tag]
Said == SUBSET [tag : Tag, beat : Beat]
Mail == [type : {"Ping", "Pong", "Gossip"}, about : Said]

StateOK ==
  /\ agent \in [Agent -> AgentState]
  /\ chan \in [Agent -> [Agent -> Seq(Mail)]]

\* An agent speaks of itself under its own tag, or none.
OwnTag == \A a \in Agent : agent[a].tag \in {NoTag, a}

\* The countdown is what is left of the agents: those that have not stopped and
\* those whose Down is on its way.
Uncounted == {a \in Agent : agent[a].is # "stopped"} \cup downs
CountOK ==
  /\ downs \subseteq {a \in Agent : agent[a].is = "stopped"}
  /\ n = Cardinality(Uncounted)

GossipInv == StateOK /\ OwnTag /\ BeatsAreReal /\ CountOK

-----------------------------------------------------------------------------
(* What an agent knows after a message.                                    *)

\* Of the beats heard of a peer one is the latest.
LEMMA LatestBeat ==
  ASSUME NEW S, S \subseteq Beat, S # {}
  PROVE  \E b \in S : \A c \in S : c <= b
<1> DEFINE left == {MaxBeat - b : b \in S}
<1>0. MaxBeat \in Nat /\ S \subseteq 0..MaxBeat
  BY GossipAssumption DEF Beat
<1>1. left \subseteq Nat /\ left # {}
  <2>1. \A b \in S : MaxBeat - b \in Nat
    BY <1>0
  <2>2. left \subseteq Nat
    BY <2>1
  <2>3. PICK b \in S : TRUE
    OBVIOUS
  <2>4. MaxBeat - b \in left
    OBVIOUS
  <2> QED BY <2>2, <2>4
<1>2. PICK x \in left : \A y \in left : ~(<<y, x>> \in OpToRel(<, Nat))
  <2> HIDE DEF left
  <2> QED BY <1>1, WFMin, NatLessThanWellFounded
<1>3. PICK b \in S : x = MaxBeat - b
  OBVIOUS
<1>4. ASSUME NEW c \in S PROVE c <= b
  <2>1. MaxBeat - c \in left
    OBVIOUS
  <2>2. ~(MaxBeat - c < x)
    BY <1>1, <1>2, <2>1 DEF OpToRel
  <2> QED BY <1>3, <2>2, GossipAssumption DEF Beat
<1> QED BY <1>4

\* detect() only adds to what is down.
LEMMA DetectOK ==
  ASSUME NEW s \in AgentState
  PROVE  /\ detect(s) \in AgentState
         /\ detect(s).is = s.is /\ detect(s).tag = s.tag /\ detect(s).beat = s.beat
         /\ detect(s).peers = s.peers
<1>1. DOMAIN s.peers \subseteq Tag
  BY DEF AgentState, Peers
<1> QED BY <1>1 DEF detect, AgentState

\* accept() makes of what it knew and what it is told no beat of a peer that
\* was in neither.
Before(s, p, beat) == p \in DOMAIN s.peers /\ beat = s.peers[p].beat
ToldOf(about, p, beat) == \E e \in about : e.tag = p /\ beat = e.beat
LEMMA AcceptOK ==
  ASSUME NEW s \in AgentState, NEW about \in Said
  PROVE  /\ accept(s, about) \in AgentState
         /\ accept(s, about).is = s.is /\ accept(s, about).tag = s.tag
         /\ accept(s, about).beat = s.beat
         /\ \A p \in DOMAIN accept(s, about).peers :
              \/ Before(s, p, accept(s, about).peers[p].beat)
              \/ ToldOf(about, p, accept(s, about).peers[p].beat)
<1> DEFINE others == {e \in about : e.tag # s.tag}
           of(p) == {e.beat : e \in {f \in others : f.tag = p}}
           Latest(p) == CHOOSE b \in of(p) : \A c \in of(p) : c <= b
           New(p) == IF of(p) = {} THEN s.peers[p]
                     ELSE IF p \in DOMAIN s.peers THEN Heard(s.peers[p], Latest(p))
                     ELSE [beat |-> Latest(p), age |-> 0]
           D == DOMAIN s.peers \cup {e.tag : e \in others}
           peers == [p \in D |-> New(p)]
<1>1. accept(s, about) = detect([s EXCEPT !.peers = peers])
  BY DEF accept
<1>2. DOMAIN s.peers \in SUBSET Tag /\ s.peers \in [DOMAIN s.peers -> Peer]
  BY DEF AgentState, Peers
<1>3. D \in SUBSET Tag
  BY <1>2 DEF Said
<1>4. ASSUME NEW p \in D
      PROVE  New(p) \in Peer /\ (Before(s, p, New(p).beat) \/ ToldOf(about, p, New(p).beat))
  <2>1. CASE of(p) = {}
    <3>1. p \in DOMAIN s.peers /\ New(p) = s.peers[p]
      BY <2>1
    <3> QED BY <1>2, <3>1 DEF Before
  <2>2. CASE of(p) # {}
    <3>1. of(p) \subseteq Beat
      BY DEF Said
    <3>2. Latest(p) \in of(p)
      <4> HIDE DEF of
      <4> QED BY <2>2, <3>1, LatestBeat
    <3>3. ToldOf(about, p, Latest(p)) /\ Latest(p) \in Beat
      <4> HIDE DEF Latest
      <4> QED BY <3>1, <3>2 DEF ToldOf
    <3> HIDE DEF Latest, of
    <3>4. 0 \in 0..(Horizon + 1)
      BY GossipAssumption
    <3>5. CASE p \in DOMAIN s.peers
      <4>1. s.peers[p] \in Peer
        BY <1>2, <3>5
      <4>2. New(p) = Heard(s.peers[p], Latest(p))
        BY <2>2, <3>5
      <4>3. New(p) = s.peers[p] \/ New(p) = [beat |-> Latest(p), age |-> 0]
        BY <4>2 DEF Heard
      <4> HIDE DEF New
      <4> QED BY <3>3, <3>4, <3>5, <4>1, <4>3 DEF Peer, Before
    <3>6. CASE p \notin DOMAIN s.peers
      <4>1. New(p) = [beat |-> Latest(p), age |-> 0]
        BY <2>2, <3>6
      <4> HIDE DEF New
      <4> QED BY <3>3, <3>4, <4>1 DEF Peer
    <3> QED BY <3>5, <3>6
  <2> QED BY <2>1, <2>2
<1> HIDE DEF New, D
<1>5. peers \in [D -> Peer] /\ DOMAIN peers = D /\ \A p \in D : peers[p] = New(p)
  BY <1>4
<1> HIDE DEF peers
<1>6. peers \in Peers
  BY <1>3, <1>5 DEF Peers
<1> DEFINE t == [s EXCEPT !.peers = peers]
<1>7. /\ t \in AgentState /\ t.peers = peers
      /\ t.is = s.is /\ t.tag = s.tag /\ t.beat = s.beat
  BY <1>6 DEF AgentState
<1> HIDE DEF t
<1>8. accept(s, about) = detect(t)
  BY <1>1 DEF t
<1>9. /\ detect(t) \in AgentState
      /\ detect(t).is = s.is /\ detect(t).tag = s.tag /\ detect(t).beat = s.beat
      /\ detect(t).peers = peers
  BY <1>7, DetectOK
<1> QED BY <1>4, <1>5, <1>8, <1>9

\* gossip() speaks of the agent itself, and of a peer what the agent knows.
LEMMA GossipOK ==
  ASSUME NEW s \in AgentState, NEW about \in gossip(s)
  PROVE  /\ about \in Said
         /\ \A e \in about : \/ e.tag = s.tag /\ e.beat = s.beat
                             \/ Before(s, e.tag, e.beat)
<1> DEFINE me == [tag |-> s.tag, beat |-> s.beat]
<1>1. me \in [tag : Tag, beat : Beat] /\ me.tag = s.tag /\ me.beat = s.beat
  BY DEF AgentState
<1>2. ASSUME NEW p \in DOMAIN s.peers
      PROVE  /\ [tag |-> p, beat |-> s.peers[p].beat] \in [tag : Tag, beat : Beat]
             /\ Before(s, p, s.peers[p].beat)
  BY DEF AgentState, Peers, Peer, Before
<1>3. \/ about = {me}
      \/ \E p \in DOMAIN s.peers : about = {me, [tag |-> p, beat |-> s.peers[p].beat]}
  BY DEF gossip
<1> HIDE DEF me
<1>4. CASE about = {me}
  BY <1>1, <1>4 DEF Said
<1>5. ASSUME NEW p \in DOMAIN s.peers, about = {me, [tag |-> p, beat |-> s.peers[p].beat]}
      PROVE  /\ about \in Said
             /\ \A e \in about : \/ e.tag = s.tag /\ e.beat = s.beat
                                 \/ Before(s, e.tag, e.beat)
  <2> DEFINE f == [tag |-> p, beat |-> s.peers[p].beat]
  <2>1. f \in [tag : Tag, beat : Beat] /\ Before(s, f.tag, f.beat)
    BY <1>2
  <2> HIDE DEF f
  <2>2. about = {me, f}
    BY <1>5 DEF f
  <2> QED BY <1>1, <2>1, <2>2 DEF Said
<1> QED BY <1>3, <1>4, <1>5

-----------------------------------------------------------------------------
(* Channels.                                                               *)

ChanState == [Agent -> [Agent -> Seq(Mail)]]

\* What is in a channel was there before, or is m.
LEMMA SendAllOK ==
  ASSUME NEW c \in ChanState, NEW a \in Agent, NEW targets, NEW m \in Mail
  PROVE  /\ SendAll(c, a, targets, m) \in ChanState
         /\ \A x, y \in Agent : \A i \in DOMAIN SendAll(c, a, targets, m)[x][y] :
              \/ /\ i \in DOMAIN c[x][y]
                 /\ SendAll(c, a, targets, m)[x][y][i] = c[x][y][i]
              \/ x = a /\ SendAll(c, a, targets, m)[x][y][i] = m
<1> DEFINE line == [d \in Agent |-> IF d \in targets THEN Append(c[a][d], m) ELSE c[a][d]]
           C == [c EXCEPT ![a] = line]
<1>1. SendAll(c, a, targets, m) = C
  BY DEF SendAll
<1>2. \A d \in Agent : c[a][d] \in Seq(Mail)
  BY DEF ChanState
<1>3. line \in [Agent -> Seq(Mail)]
  BY <1>2
<1>4. ASSUME NEW y \in Agent, NEW i \in DOMAIN line[y]
      PROVE  (i \in DOMAIN c[a][y] /\ line[y][i] = c[a][y][i]) \/ line[y][i] = m
  BY <1>2
<1> HIDE DEF line
<1>5. C \in ChanState /\ \A x \in Agent : C[x] = IF x = a THEN line ELSE c[x]
  BY <1>3 DEF ChanState
<1> HIDE DEF C
<1> QED BY <1>1, <1>4, <1>5

\* The first message is taken out of a channel.
LEMMA TakeOK ==
  ASSUME NEW c \in ChanState, NEW a \in Agent, NEW b \in Agent, c[b][a] # <<>>,
         NEW C, C = [c EXCEPT ![b][a] = Tail(@)]
  PROVE  /\ C \in ChanState
         /\ \A x, y \in Agent : \A i \in DOMAIN C[x][y] :
              \E j \in DOMAIN c[x][y] : C[x][y][i] = c[x][y][j]
<1> DEFINE rest == Tail(c[b][a])
<1>1. c[b][a] \in Seq(Mail)
  BY DEF ChanState
<1>2. /\ rest \in Seq(Mail)
      /\ \A i \in DOMAIN rest : i + 1 \in DOMAIN c[b][a] /\ rest[i] = c[b][a][i + 1]
  BY <1>1
<1>3. C = [c EXCEPT ![b][a] = rest]
  OBVIOUS
<1> HIDE DEF rest
<1>4. /\ C \in ChanState
      /\ \A x, y \in Agent : C[x][y] = IF x = b /\ y = a THEN rest ELSE c[x][y]
  <2> DEFINE line == [c[b] EXCEPT ![a] = rest]
  <2>1. C = [c EXCEPT ![b] = line]
    BY <1>3
  <2>2. line \in [Agent -> Seq(Mail)] /\ \A y \in Agent : line[y] = IF y = a THEN rest ELSE c[b][y]
    BY <1>2 DEF ChanState
  <2> HIDE DEF line
  <2>3. C \in ChanState /\ \A x \in Agent : C[x] = IF x = b THEN line ELSE c[x]
    BY <2>1, <2>2 DEF ChanState
  <2>4. ASSUME NEW x \in Agent, NEW y \in Agent
        PROVE  C[x][y] = IF x = b /\ y = a THEN rest ELSE c[x][y]
    <3>1. C[x] = IF x = b THEN line ELSE c[x]
      BY <2>3
    <3>2. line[y] = IF y = a THEN rest ELSE c[b][y]
      BY <2>2
    <3>3. CASE x = b
      BY <3>1, <3>2, <3>3
    <3>4. CASE x # b
      BY <3>1, <3>4
    <3> QED BY <3>3, <3>4
  <2> QED BY <2>3, <2>4
<1>5. ASSUME NEW x \in Agent, NEW y \in Agent, NEW i \in DOMAIN C[x][y]
      PROVE  \E j \in DOMAIN c[x][y] : C[x][y][i] = c[x][y][j]
  <2>1. CASE x = b /\ y = a
    <3>1. C[x][y] = rest
      BY <1>4, <2>1
    <3>2. i + 1 \in DOMAIN c[x][y] /\ C[x][y][i] = c[x][y][i + 1]
      BY <1>2, <2>1, <3>1
    <3> QED BY <3>2
  <2>2. CASE ~(x = b /\ y = a)
    <3>1. C[x][y] = c[x][y]
      BY <1>4, <2>2
    <3> QED BY <3>1
  <2> QED BY <2>1, <2>2
<1> QED BY <1>4, <1>5

-----------------------------------------------------------------------------
(* The parts of the invariant.                                             *)

\* A beat that is not more than the agent of that tag has had, as A says.
Real(A, tag, beat) == tag # NoTag => beat <= A[tag].beat
MailReal(A, m) == \A e \in m.about : Real(A, e.tag, e.beat)
PeersReal(A, s) == \A p \in DOMAIN s.peers : Real(A, p, s.peers[p].beat)

\* Beats do not go back, so what was real stays real.
LEMMA StaysReal ==
  ASSUME StateOK, StateOK', BeatsAreReal,
         \A a \in Agent : agent[a].beat <= agent'[a].beat,
         \A a \in Agent : agent'[a].peers = agent[a].peers \/ PeersReal(agent', agent'[a]),
         \A x, y \in Agent : \A i \in DOMAIN chan'[x][y] :
           (\E j \in DOMAIN chan[x][y] : chan'[x][y][i] = chan[x][y][j])
           \/ MailReal(agent', chan'[x][y][i])
  PROVE  BeatsAreReal'
<1>1. ASSUME NEW tag \in Tag, NEW beat \in Beat, Real(agent, tag, beat)
      PROVE  Real(agent', tag, beat)
  BY <1>1, GossipAssumption DEF Real, StateOK, AgentState, Tag, Beat
<1>2. ASSUME NEW a \in Agent, agent'[a].peers = agent[a].peers
      PROVE  PeersReal(agent', agent'[a])
  <2>1. ASSUME NEW p \in DOMAIN agent[a].peers
        PROVE  p \in Tag /\ agent[a].peers[p].beat \in Beat /\ Real(agent, p, agent[a].peers[p].beat)
    BY DEF StateOK, AgentState, Peers, Peer, BeatsAreReal, Real
  <2> QED BY <1>1, <1>2, <2>1 DEF PeersReal
<1>3. ASSUME NEW x \in Agent, NEW y \in Agent, NEW j \in DOMAIN chan[x][y]
      PROVE  MailReal(agent', chan[x][y][j])
  <2>1. chan[x][y][j] \in Mail
    BY DEF StateOK
  <2>2. ASSUME NEW e \in chan[x][y][j].about
        PROVE  e.tag \in Tag /\ e.beat \in Beat /\ Real(agent, e.tag, e.beat)
    BY <2>1 DEF Mail, Said, BeatsAreReal, Real
  <2> QED BY <1>1, <2>2 DEF MailReal
<1>4. \A a \in Agent : PeersReal(agent', agent'[a])
  BY <1>2
<1>5. \A x, y \in Agent : \A i \in DOMAIN chan'[x][y] : MailReal(agent', chan'[x][y][i])
  BY <1>3
<1> QED BY <1>4, <1>5 DEF BeatsAreReal, PeersReal, MailReal, Real

\* The countdown does not change when nobody stops or is counted.
LEMMA SameCount ==
  ASSUME CountOK, UNCHANGED <<downs, n>>,
         \A a \in Agent : agent'[a].is = "stopped" <=> agent[a].is = "stopped"
  PROVE  CountOK'
<1>1. {a \in Agent : agent'[a].is = "stopped"} = {a \in Agent : agent[a].is = "stopped"}
      /\ {a \in Agent : agent'[a].is # "stopped"} = {a \in Agent : agent[a].is # "stopped"}
  OBVIOUS
<1> QED BY <1>1 DEF CountOK, Uncounted

\* One agent steps to s.
LEMMA OneAgent ==
  ASSUME StateOK, NEW a \in Agent, NEW s \in AgentState, agent' = [agent EXCEPT ![a] = s]
  PROVE  /\ agent' \in [Agent -> AgentState] /\ agent'[a] = s
         /\ \A b \in Agent : b # a => agent'[b] = agent[b]
BY DEF StateOK

\* An agent that steps to s without stopping, its beat not going back.
LEMMA AgentStep ==
  ASSUME GossipInv, NEW a \in Agent, NEW s \in AgentState, agent' = [agent EXCEPT ![a] = s],
         s.tag \in {NoTag, a}, agent[a].beat <= s.beat,
         s.is # "stopped", agent[a].is # "stopped",
         s.peers = agent[a].peers \/ PeersReal(agent', s),
         chan' \in ChanState,
         \A x, y \in Agent : \A i \in DOMAIN chan'[x][y] :
           (\E j \in DOMAIN chan[x][y] : chan'[x][y][i] = chan[x][y][j])
           \/ MailReal(agent', chan'[x][y][i]),
         UNCHANGED <<downs, n>>
  PROVE  GossipInv'
<1> USE DEF GossipInv
<1>1. /\ agent' \in [Agent -> AgentState] /\ agent'[a] = s
      /\ \A b \in Agent : b # a => agent'[b] = agent[b]
  BY OneAgent
<1>2. StateOK'
  BY <1>1 DEF StateOK, ChanState
<1>3. OwnTag'
  BY <1>1 DEF OwnTag
<1>4. \A b \in Agent : agent[b].beat \in Beat
  BY DEF StateOK, AgentState
<1>5. \A b \in Agent : agent[b].beat <= agent'[b].beat
  BY <1>1, <1>4 DEF Beat
<1>6. \A b \in Agent : agent'[b].peers = agent[b].peers \/ PeersReal(agent', agent'[b])
  BY <1>1
<1>7. BeatsAreReal'
  BY <1>2, <1>5, <1>6, StaysReal
<1>8. CountOK'
  BY <1>1, SameCount
<1> QED BY <1>2, <1>3, <1>7, <1>8

\* What an agent tells of itself is real.
LEMMA SelfReal ==
  ASSUME StateOK, NEW a \in Agent, agent[a].beat <= agent'[a].beat,
         NEW type \in {"Ping", "Pong"}
  PROVE  Message(type, Self(a)) \in Mail /\ MailReal(agent', Message(type, Self(a)))
<1> DEFINE e == [tag |-> a, beat |-> agent[a].beat]
<1>1. e \in [tag : Tag, beat : Beat] /\ e.tag = a /\ e.beat <= agent'[a].beat
  BY DEF StateOK, AgentState, Tag
<1>2. Message(type, Self(a)) = [type |-> type, about |-> {e}]
  BY DEF Message, Self
<1> HIDE DEF e
<1> QED BY <1>1, <1>2 DEF Mail, Said, MailReal, Real

-----------------------------------------------------------------------------
(* The actions.                                                            *)

LEMMA StartOK ==
  ASSUME GossipInv, NEW a \in Agent, Start(a)
  PROVE  GossipInv'
<1> DEFINE s == [agent[a] EXCEPT !.is = "up"]
           m == Message("Ping", Self(a))
<1>0. StateOK /\ OwnTag
  BY DEF GossipInv
<1>1. /\ s \in AgentState /\ s.is = "up" /\ s.tag = agent[a].tag
      /\ s.beat = agent[a].beat /\ s.peers = agent[a].peers
  BY <1>0 DEF StateOK, AgentState
<1>2. agent' = [agent EXCEPT ![a] = s] /\ agent[a].is = "new" /\ UNCHANGED <<downs, n>>
  BY DEF Start
<1>3. chan' = SendAll(chan, a, Pings[a], m)
  BY DEF Start
<1> HIDE DEF s
<1>4. agent[a].beat <= s.beat
  BY <1>0, <1>1 DEF StateOK, AgentState, Beat
<1>5. agent[a].beat <= agent'[a].beat /\ agent' \in [Agent -> AgentState]
  BY <1>0, <1>1, <1>2, <1>4, OneAgent
<1>6. m \in Mail /\ MailReal(agent', m)
  BY <1>0, <1>5, SelfReal
<1> HIDE DEF m
<1>7. chan \in ChanState
  BY <1>0 DEF StateOK, ChanState
<1>8. /\ chan' \in ChanState
      /\ \A x, y \in Agent : \A i \in DOMAIN chan'[x][y] :
           (\E j \in DOMAIN chan[x][y] : chan'[x][y][i] = chan[x][y][j])
           \/ MailReal(agent', chan'[x][y][i])
  BY <1>3, <1>6, <1>7, SendAllOK
<1>9. s.tag \in {NoTag, a} /\ s.is # "stopped" /\ agent[a].is # "stopped"
  BY <1>0, <1>1, <1>2 DEF OwnTag
<1> QED BY <1>1, <1>2, <1>4, <1>8, <1>9, AgentStep

\* A beat, and the gossip of every period-th.
LEMMA TickOK ==
  ASSUME GossipInv, NEW a \in Agent, Tick(a)
  PROVE  GossipInv'
<1> DEFINE s == [agent[a] EXCEPT !.beat = IF @ < MaxBeat THEN @ + 1 ELSE @]
<1>0. StateOK /\ OwnTag /\ BeatsAreReal /\ agent[a] \in AgentState
  BY DEF GossipInv, StateOK
<1>1. /\ s \in AgentState /\ s.is = agent[a].is /\ s.tag = agent[a].tag
      /\ agent[a].beat <= s.beat /\ s.peers = agent[a].peers
  BY <1>0, GossipAssumption DEF AgentState, Beat
<1>2. agent[a].is = "up" /\ UNCHANGED <<downs, n>>
  BY DEF Tick
<1>3. \/ /\ agent' = [agent EXCEPT ![a] = detect(s)]
         /\ \E about \in gossip(s) :
              chan' = SendAll(chan, a, DOMAIN s.peers, Message("Gossip", about))
      \/ agent' = [agent EXCEPT ![a] = s] /\ UNCHANGED chan
  BY DEF Tick
<1> HIDE DEF s
<1>4. chan \in ChanState
  BY <1>0 DEF StateOK, ChanState
<1>5. s.tag \in {NoTag, a} /\ s.is # "stopped" /\ agent[a].is # "stopped"
  BY <1>0, <1>1, <1>2 DEF OwnTag
<1>6. CASE agent' = [agent EXCEPT ![a] = s] /\ UNCHANGED chan
  <2>1. \A x, y \in Agent : \A i \in DOMAIN chan'[x][y] :
          \E j \in DOMAIN chan[x][y] : chan'[x][y][i] = chan[x][y][j]
    BY <1>6
  <2> QED BY <1>1, <1>2, <1>4, <1>5, <1>6, <2>1, AgentStep
<1>7. ASSUME agent' = [agent EXCEPT ![a] = detect(s)], NEW about \in gossip(s),
             chan' = SendAll(chan, a, DOMAIN s.peers, Message("Gossip", about))
      PROVE  GossipInv'
  <2> DEFINE m == Message("Gossip", about)
  <2>1. /\ detect(s) \in AgentState /\ detect(s).is = s.is /\ detect(s).tag = s.tag
        /\ detect(s).beat = s.beat /\ detect(s).peers = s.peers
    BY <1>1, DetectOK
  <2>2. /\ about \in Said
        /\ \A e \in about : \/ e.tag = s.tag /\ e.beat = s.beat
                            \/ Before(s, e.tag, e.beat)
    BY <1>1, GossipOK
  <2>3. /\ agent'[a] = detect(s) /\ \A b \in Agent : b # a => agent'[b] = agent[b]
    BY <1>0, <1>7, <2>1, OneAgent
  <2>4. ASSUME NEW e \in about PROVE Real(agent', e.tag, e.beat)
    <3>1. e.tag \in Tag /\ e.beat \in Beat
      BY <2>2 DEF Said
    <3>2. CASE e.tag = s.tag /\ e.beat = s.beat
      BY <1>5, <2>1, <2>3, <3>1, <3>2, GossipAssumption DEF Real, Beat
    <3>3. CASE Before(s, e.tag, e.beat)
      <4>1. SUFFICES ASSUME e.tag # NoTag PROVE e.beat <= agent'[e.tag].beat
        BY DEF Real
      <4>2. e.tag \in Agent /\ e.beat <= agent[e.tag].beat
        BY <1>0, <1>1, <3>1, <3>3, <4>1 DEF BeatsAreReal, Before, Tag
      <4>3. agent[e.tag].beat \in Nat /\ s.beat \in Nat /\ e.beat \in Nat
        BY <1>0, <1>1, <3>1, <4>2 DEF StateOK, AgentState, Beat
      <4>4. agent[e.tag].beat <= agent'[e.tag].beat
        BY <1>1, <2>1, <2>3, <4>2, <4>3
      <4>5. agent'[e.tag].beat \in Nat
        BY <2>1, <2>3, <4>2, <4>3
      <4> QED BY <4>2, <4>3, <4>4, <4>5
    <3> QED BY <2>2, <3>2, <3>3
  <2>5. m \in Mail /\ MailReal(agent', m)
    BY <2>2, <2>4 DEF Message, Mail, MailReal
  <2>6. chan' = SendAll(chan, a, DOMAIN s.peers, m)
    BY <1>7
  <2> HIDE DEF m
  <2>7. /\ chan' \in ChanState
        /\ \A x, y \in Agent : \A i \in DOMAIN chan'[x][y] :
             (\E j \in DOMAIN chan[x][y] : chan'[x][y][i] = chan[x][y][j])
             \/ MailReal(agent', chan'[x][y][i])
    BY <1>4, <2>5, <2>6, SendAllOK
  <2> QED BY <1>1, <1>2, <1>5, <1>7, <2>1, <2>7, AgentStep
<1> QED BY <1>3, <1>6, <1>7

\* A Ping, Pong or Gossip.
LEMMA ReceiveOK ==
  ASSUME GossipInv, NEW a \in Agent, NEW b \in Agent, Receive(a, b)
  PROVE  GossipInv'
<1> DEFINE m == Head(chan[b][a])
           s == IF m.type = "Gossip" THEN agent[a] ELSE [agent[a] EXCEPT !.tag = a]
           t == accept(s, m.about)
           rest == [chan EXCEPT ![b][a] = Tail(@)]
           pong == Message("Pong", Self(a))
<1>0. StateOK /\ OwnTag /\ BeatsAreReal /\ agent[a] \in AgentState
  BY DEF GossipInv, StateOK
<1>1. /\ agent[a].is = "up" /\ chan[b][a] # <<>> /\ UNCHANGED <<downs, n>>
      /\ agent' = [agent EXCEPT ![a] = t]
      /\ chan' = IF m.type = "Ping" THEN SendAll(rest, a, {b}, pong) ELSE rest
  BY DEF Receive
<1>2. chan \in ChanState
  BY <1>0 DEF StateOK, ChanState
<1>3. m \in Mail /\ m.about \in Said /\ \A e \in m.about : Real(agent, e.tag, e.beat)
  <2>1. chan[b][a] \in Seq(Mail)
    BY <1>2 DEF ChanState
  <2>2. 1 \in DOMAIN chan[b][a] /\ m = chan[b][a][1] /\ m \in Mail
    BY <1>1, <2>1
  <2> QED BY <1>0, <2>2 DEF Mail, BeatsAreReal, Real
<1> HIDE DEF m
<1>4. /\ s \in AgentState /\ s.is = agent[a].is /\ s.tag \in {NoTag, a}
      /\ s.beat = agent[a].beat /\ s.peers = agent[a].peers
  BY <1>0 DEF AgentState, OwnTag, Tag
<1> HIDE DEF s
<1>5. /\ t \in AgentState /\ t.is = s.is /\ t.tag = s.tag /\ t.beat = s.beat
      /\ \A p \in DOMAIN t.peers : Before(s, p, t.peers[p].beat) \/ ToldOf(m.about, p, t.peers[p].beat)
  BY <1>3, <1>4, AcceptOK
<1> HIDE DEF t
<1>6. agent' \in [Agent -> AgentState] /\ \A c \in Agent : agent'[c].beat = agent[c].beat
  BY <1>0, <1>1, <1>4, <1>5, OneAgent
<1>7. agent[a].beat <= t.beat /\ agent[a].beat <= agent'[a].beat
  BY <1>0, <1>4, <1>5, <1>6, GossipAssumption DEF AgentState, Beat
<1>8. PeersReal(agent', t)
  <2> SUFFICES ASSUME NEW p \in DOMAIN t.peers, p # NoTag
               PROVE  t.peers[p].beat <= agent'[p].beat
    BY DEF PeersReal, Real
  <2>1. p \in Agent
    BY <1>5 DEF AgentState, Peers, Tag
  <2>2. CASE Before(s, p, t.peers[p].beat)
    <3>1. t.peers[p].beat <= agent[p].beat
      BY <1>0, <1>4, <2>2 DEF BeatsAreReal, Before
    <3> QED BY <1>6, <2>1, <3>1
  <2>3. CASE ToldOf(m.about, p, t.peers[p].beat)
    <3>1. t.peers[p].beat <= agent[p].beat
      BY <1>3, <2>3 DEF ToldOf, Real
    <3> QED BY <1>6, <2>1, <3>1
  <2> QED BY <1>5, <2>2, <2>3
<1>9. /\ rest \in ChanState
      /\ \A x, y \in Agent : \A i \in DOMAIN rest[x][y] :
           \E j \in DOMAIN chan[x][y] : rest[x][y][i] = chan[x][y][j]
  BY <1>1, <1>2, TakeOK
<1> HIDE DEF rest
<1>10. pong \in Mail /\ MailReal(agent', pong)
  BY <1>0, <1>7, SelfReal
<1> HIDE DEF pong
<1>11. /\ chan' \in ChanState
       /\ \A x, y \in Agent : \A i \in DOMAIN chan'[x][y] :
            (\E j \in DOMAIN chan[x][y] : chan'[x][y][i] = chan[x][y][j])
            \/ MailReal(agent', chan'[x][y][i])
  <2>1. CASE chan' = rest
    BY <1>9, <2>1
  <2>2. CASE chan' = SendAll(rest, a, {b}, pong)
    <3>1. /\ chan' \in ChanState
          /\ \A x, y \in Agent : \A i \in DOMAIN chan'[x][y] :
               (i \in DOMAIN rest[x][y] /\ chan'[x][y][i] = rest[x][y][i]) \/ chan'[x][y][i] = pong
      BY <1>9, <1>10, <2>2, SendAllOK
    <3> QED BY <1>9, <1>10, <3>1
  <2> QED BY <1>1, <2>1, <2>2
<1>12. t.is # "stopped" /\ agent[a].is # "stopped" /\ t.tag \in {NoTag, a}
  BY <1>1, <1>4, <1>5
<1> QED BY <1>1, <1>5, <1>7, <1>8, <1>11, <1>12, AgentStep

\* The channels to an agent that is gone are emptied.
LEMMA LoseOK ==
  ASSUME GossipInv, NEW a \in Agent, NEW b \in Agent, Lose(a, b)
  PROVE  GossipInv'
<1>0. StateOK /\ OwnTag /\ BeatsAreReal /\ CountOK
  BY DEF GossipInv
<1>1. chan' = [chan EXCEPT ![b][a] = <<>>] /\ UNCHANGED <<agent, downs, n>>
  BY DEF Lose
<1>2. chan \in ChanState
  BY <1>0 DEF StateOK, ChanState
<1>3. /\ chan' \in ChanState
      /\ \A x, y \in Agent : chan'[x][y] = chan[x][y] \/ chan'[x][y] = <<>>
  <2> DEFINE line == [chan[b] EXCEPT ![a] = <<>>]
  <2>1. chan' = [chan EXCEPT ![b] = line]
    BY <1>1
  <2>2. /\ line \in [Agent -> Seq(Mail)]
        /\ \A y \in Agent : line[y] = chan[b][y] \/ line[y] = <<>>
    BY <1>2 DEF ChanState
  <2> HIDE DEF line
  <2>3. chan' \in ChanState /\ \A x \in Agent : chan'[x] = IF x = b THEN line ELSE chan[x]
    BY <1>2, <2>1, <2>2 DEF ChanState
  <2> QED BY <2>2, <2>3
<1>4. \A x, y \in Agent : \A i \in DOMAIN chan'[x][y] :
        \E j \in DOMAIN chan[x][y] : chan'[x][y][i] = chan[x][y][j]
  <2> SUFFICES ASSUME NEW x \in Agent, NEW y \in Agent, NEW i \in DOMAIN chan'[x][y]
               PROVE  \E j \in DOMAIN chan[x][y] : chan'[x][y][i] = chan[x][y][j]
    OBVIOUS
  <2>1. chan'[x][y] = chan[x][y]
    BY <1>3
  <2> QED BY <2>1
<1>5. StateOK'
  BY <1>0, <1>1, <1>3 DEF StateOK, ChanState
<1>6. \A c \in Agent : agent[c].beat <= agent'[c].beat /\ agent'[c].peers = agent[c].peers
  BY <1>0, <1>1, GossipAssumption DEF StateOK, AgentState, Beat
<1>7. BeatsAreReal'
  BY <1>0, <1>4, <1>5, <1>6, StaysReal
<1>8. OwnTag' /\ CountOK'
  BY <1>0, <1>1 DEF OwnTag, CountOK, Uncounted
<1> QED BY <1>5, <1>7, <1>8 DEF GossipInv

\* An agent stops: it is no longer running, but its Down has to be counted.
LEMMA StopOK ==
  ASSUME GossipInv, NEW a \in Agent, Stop(a)
  PROVE  GossipInv'
<1> DEFINE s == [agent[a] EXCEPT !.is = "stopped"]
<1>0. StateOK /\ OwnTag /\ BeatsAreReal /\ CountOK
  BY DEF GossipInv
<1>1. /\ s \in AgentState /\ s.is = "stopped" /\ s.tag = agent[a].tag
      /\ s.beat = agent[a].beat /\ s.peers = agent[a].peers
  BY <1>0 DEF StateOK, AgentState
<1>2. /\ agent[a].is = "up" /\ agent' = [agent EXCEPT ![a] = s]
      /\ downs' = downs \cup {a} /\ UNCHANGED <<chan, n>>
  BY DEF Stop, Announced
<1> HIDE DEF s
<1>3. /\ agent' \in [Agent -> AgentState] /\ agent'[a] = s
      /\ \A b \in Agent : b # a => agent'[b] = agent[b]
  BY <1>0, <1>1, <1>2, OneAgent
<1>4. StateOK' /\ OwnTag'
  BY <1>0, <1>1, <1>2, <1>3 DEF StateOK, OwnTag
<1>5. BeatsAreReal'
  <2>1. \A c \in Agent : agent'[c].beat = agent[c].beat /\ agent'[c].peers = agent[c].peers
    BY <1>1, <1>3
  <2>2. \A c \in Agent : agent[c].beat <= agent'[c].beat
    BY <1>0, <2>1, GossipAssumption DEF StateOK, AgentState, Beat
  <2> QED BY <1>0, <1>2, <1>4, <2>1, <2>2, StaysReal
<1>6. CountOK'
  <2>1. {c \in Agent : agent'[c].is = "stopped"} = {c \in Agent : agent[c].is = "stopped"} \cup {a}
    BY <1>1, <1>3
  <2>2. Uncounted' = Uncounted
    BY <1>1, <1>2, <1>3 DEF Uncounted
  <2> QED BY <1>0, <1>2, <2>1, <2>2 DEF CountOK
<1> QED BY <1>4, <1>5, <1>6 DEF GossipInv

\* The set that the countdown counts is finite.
LEMMA UncountedFinite ==
  ASSUME downs \subseteq Agent
  PROVE  IsFiniteSet(Uncounted) /\ Cardinality(Uncounted) \in 0..Cardinality(Agent)
<1>1. IsFiniteSet(Agent) /\ Uncounted \in SUBSET Agent
  BY GossipAssumption DEF Uncounted
<1>2. IsFiniteSet(Uncounted) /\ Cardinality(Uncounted) <= Cardinality(Agent)
  BY <1>1, FS_Subset
<1>3. Cardinality(Uncounted) \in Nat /\ Cardinality(Agent) \in Nat
  BY <1>1, <1>2, FS_CardinalityType
<1> QED BY <1>2, <1>3

\* The countdown counts a Down that it had not counted.
LEMMA DownOK ==
  ASSUME GossipInv, NEW a \in Agent, Down(a)
  PROVE  GossipInv'
<1>0. StateOK /\ OwnTag /\ BeatsAreReal /\ CountOK
  BY DEF GossipInv
<1>1. a \in downs /\ downs' = downs \ {a} /\ n' = n - 1 /\ UNCHANGED <<agent, chan>>
  BY DEF Down
<1>2. StateOK' /\ OwnTag' /\ BeatsAreReal'
  BY <1>0, <1>1 DEF StateOK, OwnTag, BeatsAreReal
<1>3. agent[a].is = "stopped" /\ downs \subseteq Agent
  BY <1>0, <1>1 DEF CountOK
<1>4. Uncounted' = Uncounted \ {a} /\ a \in Uncounted
  BY <1>1, <1>3 DEF Uncounted
<1>5. IsFiniteSet(Uncounted)
  BY <1>3, UncountedFinite
<1>6. Cardinality(Uncounted \ {a}) = Cardinality(Uncounted) - 1
  BY <1>4, <1>5, FS_RemoveElement
<1> QED BY <1>0, <1>1, <1>2, <1>4, <1>6 DEF GossipInv, CountOK

\* Everybody's peers grow older, and nothing else.
LEMMA ElapseOK ==
  ASSUME GossipInv, Elapse
  PROVE  GossipInv'
<1> DEFINE Aged(peers) == [p \in DOMAIN peers |-> Older(peers[p])]
<1>0. StateOK /\ OwnTag /\ BeatsAreReal /\ CountOK
  BY DEF GossipInv
<1>1. /\ agent' = [a \in Agent |-> [agent[a] EXCEPT !.peers = Aged(agent[a].peers)]]
      /\ UNCHANGED <<chan, downs, n>>
  BY DEF Elapse
<1>2. ASSUME NEW p \in Peer PROVE Older(p) \in Peer /\ Older(p).beat = p.beat
  BY GossipAssumption DEF Older, Peer
<1>3. ASSUME NEW peers \in Peers
      PROVE  /\ Aged(peers) \in Peers /\ DOMAIN Aged(peers) = DOMAIN peers
             /\ \A p \in DOMAIN peers : Aged(peers)[p].beat = peers[p].beat
  <2>1. DOMAIN peers \in SUBSET Tag /\ peers \in [DOMAIN peers -> Peer]
    BY DEF Peers
  <2>2. Aged(peers) \in [DOMAIN peers -> Peer]
    BY <1>2, <2>1
  <2>3. \A p \in DOMAIN peers : Aged(peers)[p].beat = peers[p].beat
    BY <1>2, <2>1
  <2> HIDE DEF Aged
  <2> QED BY <2>1, <2>2, <2>3 DEF Peers
<1> HIDE DEF Aged
<1>4. ASSUME NEW a \in Agent
      PROVE  /\ agent'[a] \in AgentState
             /\ agent'[a].is = agent[a].is /\ agent'[a].tag = agent[a].tag
             /\ agent'[a].beat = agent[a].beat /\ agent'[a].peers = Aged(agent[a].peers)
  <2>1. agent[a] \in AgentState
    BY <1>0 DEF StateOK
  <2>2. agent[a].peers \in Peers
    BY <2>1 DEF AgentState
  <2>3. Aged(agent[a].peers) \in Peers
    BY <1>3, <2>2
  <2>4. agent'[a] = [agent[a] EXCEPT !.peers = Aged(agent[a].peers)]
    BY <1>1
  <2> QED BY <2>1, <2>3, <2>4 DEF AgentState
<1>5. agent' \in [Agent -> AgentState]
  <2>1. DOMAIN agent' = Agent /\ agent' = [a \in Agent |-> agent'[a]]
    BY <1>1
  <2> QED BY <1>4, <2>1
<1>6. StateOK' /\ OwnTag'
  BY <1>0, <1>1, <1>4, <1>5 DEF StateOK, OwnTag
<1>7. CountOK'
  BY <1>0, <1>1, <1>4, SameCount
<1>8. BeatsAreReal'
  <2>1. \A a \in Agent : agent[a].beat <= agent'[a].beat
    BY <1>0, <1>4, GossipAssumption DEF StateOK, AgentState, Beat
  <2>2. ASSUME NEW a \in Agent PROVE PeersReal(agent', agent'[a])
    <3> SUFFICES ASSUME NEW p \in DOMAIN agent'[a].peers, p # NoTag
                 PROVE  agent'[a].peers[p].beat <= agent'[p].beat
      BY DEF PeersReal, Real
    <3>1. agent[a].peers \in Peers
      BY <1>0 DEF StateOK, AgentState
    <3>2. p \in DOMAIN agent[a].peers /\ agent'[a].peers[p].beat = agent[a].peers[p].beat
      BY <1>3, <1>4, <3>1
    <3>3. p \in Agent
      BY <3>1, <3>2 DEF Peers, Tag
    <3>4. agent[a].peers[p].beat <= agent[p].beat
      BY <1>0, <3>2 DEF BeatsAreReal
    <3> QED BY <1>4, <3>2, <3>3, <3>4
  <2> QED BY <1>0, <1>1, <1>6, <2>1, <2>2, StaysReal
<1> QED BY <1>6, <1>7, <1>8 DEF GossipInv

-----------------------------------------------------------------------------
(* Theorems.                                                               *)

\* GossipInv is inductive and always holds.
THEOREM GossipSafe == Spec => []GossipInv
<1>1. Init => GossipInv
  <2> SUFFICES ASSUME Init PROVE GossipInv
    OBVIOUS
  <2> DEFINE s == [is |-> "new", tag |-> NoTag, beat |-> 0, peers |-> <<>>, down |-> {}]
  <2>1. <<>> \in Peers /\ DOMAIN s.peers = {}
    <3>1. <<>> \in [{} -> Peer] /\ {} \in SUBSET Tag
      OBVIOUS
    <3>2. s.peers = <<>> /\ DOMAIN <<>> = {}
      OBVIOUS
    <3> HIDE DEF s
    <3> QED BY <3>1, <3>2, Zenon DEF Peers
  <2>2. s \in AgentState /\ s.is = "new" /\ s.tag = NoTag
    BY <2>1, GossipAssumption DEF AgentState, Tag, Beat
  <2>3. agent = [a \in Agent |-> s]
    BY DEF Init
  <2> HIDE DEF s
  <2>4. chan = [x \in Agent |-> [y \in Agent |-> <<>>]] /\ downs = {} /\ n = Cardinality(Agent)
    BY DEF Init
  <2>5. StateOK /\ OwnTag
    BY <2>2, <2>3, <2>4 DEF StateOK, OwnTag
  <2>6. BeatsAreReal
    BY <2>1, <2>3, <2>4 DEF BeatsAreReal
  <2>7. Uncounted = Agent
    BY <2>2, <2>3, <2>4 DEF Uncounted
  <2> QED BY <2>4, <2>5, <2>6, <2>7 DEF GossipInv, CountOK
<1>2. GossipInv /\ [Next]_vars => GossipInv'
  <2> SUFFICES ASSUME GossipInv, [Next]_vars PROVE GossipInv'
    OBVIOUS
  <2>1. CASE UNCHANGED vars
    BY <2>1 DEF vars, GossipInv, StateOK, OwnTag, BeatsAreReal, CountOK, Uncounted
  <2> QED BY <2>1, StartOK, TickOK, StopOK, DownOK, ReceiveOK, LoseOK, ElapseOK DEF Next
<1> QED BY <1>1, <1>2, PTL DEF Spec

\* Agents, messages and the countdown are what they should be; n, a usize that
\* Countdown::receive decrements, does not go below 0.
THEOREM GossipTypes == Spec => []TypeOK
<1>1. GossipInv => TypeOK
  <2> SUFFICES ASSUME GossipInv PROVE TypeOK
    OBVIOUS
  <2>0. StateOK /\ CountOK
    BY DEF GossipInv
  <2>1. ASSUME NEW a \in Agent
        PROVE  /\ [is |-> agent[a].is, tag |-> agent[a].tag, beat |-> agent[a].beat,
                    down |-> agent[a].down] \in Fields
               /\ DOMAIN agent[a].peers \subseteq Tag
               /\ \A p \in DOMAIN agent[a].peers :
                    agent[a].peers[p] \in [beat : 0..MaxBeat, age : 0..(Horizon + 1)]
    <3>1. agent[a] \in AgentState
      BY <2>0 DEF StateOK
    <3>2. agent[a].peers \in Peers
      BY <3>1 DEF AgentState
    <3>3. agent[a].beat \in Nat
      BY <3>1 DEF AgentState, Beat
    <3> QED BY <3>1, <3>2, <3>3 DEF AgentState, Fields, Peers, Peer, Beat
  <2>2. chan \in [Agent -> [Agent -> Seq([type : {"Ping", "Pong", "Gossip"}, about : SUBSET Entry])]]
    <3>1. Mail \subseteq [type : {"Ping", "Pong", "Gossip"}, about : SUBSET Entry]
      BY DEF Mail, Said, Beat, Entry
    <3> DEFINE T == [type : {"Ping", "Pong", "Gossip"}, about : SUBSET Entry]
    <3>0. Mail \subseteq T
      BY <3>1
    <3> HIDE DEF T
    <3>2. ASSUME NEW q \in Seq(Mail) PROVE q \in Seq(T)
      <4>1. \A i \in 1..Len(q) : q[i] \in T
        BY <3>0
      <4> QED BY <4>1
    <3>3. chan \in [Agent -> [Agent -> Seq(T)]]
      BY <2>0, <3>2 DEF StateOK
    <3> QED BY <3>3 DEF T
  <2>3. downs \subseteq Agent /\ n \in 0..Cardinality(Agent)
    BY <2>0, UncountedFinite DEF CountOK
  <2> QED BY <2>1, <2>2, <2>3 DEF TypeOK
<1> QED BY <1>1, GossipSafe, PTL

\* Agent::accept and Agent::gossip make up no beat: over any number of hops an
\* agent is never said to have had more beats than it has had.
THEOREM NoInventedBeats == Spec => []BeatsAreReal
<1>1. GossipInv => BeatsAreReal
  BY DEF GossipInv
<1> QED BY <1>1, GossipSafe, PTL

\* Countdown::receive tells main that all is over only when all agents have
\* stopped and every Down has been counted.
THEOREM CountdownIsLast ==
  Spec => [](n = 0 => downs = {} /\ \A a \in Agent : agent[a].is = "stopped")
<1>1. GossipInv => (n = 0 => downs = {} /\ \A a \in Agent : agent[a].is = "stopped")
  <2> SUFFICES ASSUME GossipInv, n = 0
               PROVE  downs = {} /\ \A a \in Agent : agent[a].is = "stopped"
    OBVIOUS
  <2>1. downs \subseteq Agent /\ Cardinality(Uncounted) = 0
    BY DEF GossipInv, CountOK
  <2>2. Uncounted = {}
    BY <2>1, UncountedFinite, FS_EmptySet
  <2> QED BY <2>2 DEF Uncounted
<1> QED BY <1>1, GossipSafe, PTL

=============================================================================
