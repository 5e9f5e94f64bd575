---------------------------- MODULE RemoteProofs ----------------------------
(***************************************************************************)
(* Theorems about Remote, for any hosts, packets, limits and buffers; the  *)
(* last ones for any in which packets fit one write and one read.          *)
(***************************************************************************)
EXTENDS Remote, SequenceTheorems, TLAPS

\* A connection of the client has a target and a buffer.
IsConn(c) == \E h \in Hosts : c = [target |-> h, send_buf |-> c.send_buf]

\* Connections are numbered by the counter, so that a new one has a new id.
\* Without that the maps could not be kept in step.
ClientInv ==
  /\ counter \in Nat /\ DOMAIN conns \subseteq 1..counter
  /\ \A id \in DOMAIN conns : IsConn(conns[id])
  /\ sent \in Seq([host : Hosts, shape : Shapes])
  /\ DestinationsLive /\ ClientSurvives

\* The buffer of a connection is not its target.
LEMMA PutConn ==
  ASSUME NEW c, IsConn(c), NEW buf
  PROVE  IsConn([c EXCEPT !.send_buf = buf]) /\ [c EXCEPT !.send_buf = buf].target = c.target
BY DEF IsConn

\* A HashMap with one entry less.
LEMMA RemoveEntry ==
  ASSUME NEW map, NEW key
  PROVE  /\ DOMAIN Restrict(map, DOMAIN map \ {key}) = DOMAIN map \ {key}
         /\ \A k \in DOMAIN map \ {key} : Restrict(map, DOMAIN map \ {key})[k] = map[k]
BY DEF Restrict

\* put() appends to the buffer of one connection.
LEMMA PutKeeps ==
  ASSUME NEW id, NEW shape, NEW conns1, id \in DOMAIN conns1,
         \A k \in DOMAIN conns1 : IsConn(conns1[k]), put(id, shape, conns1)
  PROVE  /\ DOMAIN conns' = DOMAIN conns1
         /\ \A k \in DOMAIN conns1 : IsConn(conns'[k]) /\ conns'[k].target = conns1[k].target
<1> DEFINE buf == conns1[id].send_buf \o to_bytes(Len(sent) + 1, shape)
<1>1. conns' = [conns1 EXCEPT ![id] = [conns1[id] EXCEPT !.send_buf = buf]]
  BY DEF put
<1>2. IsConn([conns1[id] EXCEPT !.send_buf = buf])
      /\ [conns1[id] EXCEPT !.send_buf = buf].target = conns1[id].target
  BY PutConn
<1> HIDE DEF buf
<1> QED BY <1>1, <1>2

-----------------------------------------------------------------------------
(* The steps of the Client; nobody else touches its maps.                  *)

\* A panic empties them, and is explained by the message that made it.
LEMMA FailKeeps ==
  ASSUME ClientInv, Fail, NEW host \in Hosts, NEW shape \in Shapes, Canonical[host] # host,
         counter' = counter + 1, sent' = Append(sent, [host |-> host, shape |-> shape])
  PROVE  ClientInv'
<1> USE DEF ClientInv
<1>1. DOMAIN conns' = {} /\ DOMAIN dest' = {}
  <2>1. conns' = <<>> /\ dest' = <<>>
    BY DEF Fail
  <2>2. DOMAIN <<>> = {}
    OBVIOUS
  <2> QED BY <2>1, <2>2, Zenon
<1>2. sent' \in Seq([host : Hosts, shape : Shapes])
  OBVIOUS
<1>3. Len(sent) + 1 \in DOMAIN sent' /\ sent'[Len(sent) + 1] = [host |-> host, shape |-> shape]
  OBVIOUS
<1>4. \E n \in DOMAIN sent' : Canonical[sent'[n].host] # sent'[n].host
  BY <1>3
<1> QED BY <1>1, <1>2, <1>4 DEF DestinationsLive, ClientSurvives

\* One message more does not take back what explains a failure.
LEMMA SurvivesSend ==
  ASSUME ClientInv, client' = client, NEW m \in [host : Hosts, shape : Shapes],
         sent' = Append(sent, m)
  PROVE  ClientSurvives' /\ sent' \in Seq([host : Hosts, shape : Shapes])
<1> USE DEF ClientInv
<1>1. \A n \in DOMAIN sent : n \in DOMAIN sent' /\ sent'[n] = sent[n]
  OBVIOUS
<1> QED BY <1>1 DEF ClientSurvives

\* A message for a host with a connection, or for a new one.
LEMMA SendKeeps ==
  ASSUME ClientInv, NEW host \in Hosts, NEW shape \in Shapes, Send(host, shape)
  PROVE  ClientInv'
<1> USE DEF ClientInv
<1> DEFINE m == [host |-> host, shape |-> shape]
<1>1. sent' = Append(sent, m) /\ m \in [host : Hosts, shape : Shapes]
  BY DEF Send
<1>2. CASE SendConnected(host, shape)
  <2>1. host \in DOMAIN dest /\ dest[host] \in DOMAIN conns
    BY <1>2 DEF SendConnected, DestinationsLive
  <2>2. put(dest[host], shape, conns) /\ UNCHANGED <<client, dest, counter>>
    BY <1>2, <2>1 DEF SendConnected
  <2>3. /\ DOMAIN conns' = DOMAIN conns
        /\ \A k \in DOMAIN conns : IsConn(conns'[k]) /\ conns'[k].target = conns[k].target
    BY <2>1, <2>2, PutKeeps
  <2>4. DestinationsLive'
    BY <2>2, <2>3 DEF DestinationsLive
  <2> QED BY <1>1, <2>2, <2>3, <2>4, SurvivesSend
<1>3. CASE connect(host, shape) /\ host \in Unparsable
  <2>1. UNCHANGED <<client, conns, dest>> /\ counter' = counter + 1
    <3>1. UNCHANGED <<client, conns, dest, tcp>> /\ counter' = counter + 1
      BY <1>3 DEF connect
    <3> QED BY <3>1
  <2>2. DOMAIN conns \subseteq 1..(counter + 1)
    OBVIOUS
  <2> QED BY <1>1, <2>1, <2>2, SurvivesSend DEF DestinationsLive
<1>4. CASE connect(host, shape) /\ host \notin Unparsable /\ Canonical[host] = host
  <2> DEFINE id == counter + 1
             new == [target |-> host, send_buf |-> <<>>]
             conns1 == Insert(conns, id, new)
  <2>1. /\ host \notin DOMAIN dest /\ counter' = id /\ client' = client
        /\ dest' = Insert(dest, host, id) /\ put(id, shape, conns1)
    BY <1>4 DEF connect, NextId
  <2>2. id \notin DOMAIN conns /\ DOMAIN conns \cup {id} \subseteq 1..id
    OBVIOUS
  <2>3. new.target = host /\ IsConn(new)
    BY DEF IsConn
  <2> HIDE DEF new
  <2>4. /\ DOMAIN conns1 = DOMAIN conns \cup {id} /\ conns1[id] = new
        /\ \A k \in DOMAIN conns : conns1[k] = conns[k]
    BY <2>2 DEF Insert
  <2> HIDE DEF id, conns1
  <2>5. /\ DOMAIN conns' = DOMAIN conns \cup {id}
        /\ \A k \in DOMAIN conns' : IsConn(conns'[k]) /\ conns'[k].target = conns1[k].target
    BY <2>1, <2>3, <2>4, PutKeeps
  <2>6. /\ DOMAIN dest' = DOMAIN dest \cup {host} /\ dest'[host] = id
        /\ \A h \in DOMAIN dest : dest'[h] = dest[h]
    BY <2>1 DEF Insert
  <2>7. DestinationsLive'
    BY <2>1, <2>2, <2>3, <2>4, <2>5, <2>6 DEF DestinationsLive
  <2> QED BY <1>1, <2>1, <2>2, <2>5, <2>7, SurvivesSend DEF id
<1>5. CASE connect(host, shape) /\ host \notin Unparsable /\ Canonical[host] # host
  <2>1. Fail /\ counter' = counter + 1
    BY <1>5 DEF connect
  <2> QED BY <1>1, <1>5, <2>1, FailKeeps
<1> QED BY <1>2, <1>3, <1>4, <1>5 DEF Send

\* An event of a connection, which is kept or dropped with its destination.
LEMMA PollKeeps ==
  ASSUME ClientInv, NEW id \in Ids, poll(id)
  PROVE  ClientInv'
<1> USE DEF ClientInv
<1>1. id \in DOMAIN conns /\ UNCHANGED <<client, counter, sent>>
  BY DEF poll
<1>2. ClientSurvives'
  BY <1>1 DEF ClientSurvives
<1>3. CASE ~is_write_closed(id)
  <2> DEFINE buf == LeftAfter(conns[id].send_buf, written(id))
  <2>1. conns' = [conns EXCEPT ![id] = [conns[id] EXCEPT !.send_buf = buf]] /\ dest' = dest
    BY <1>3 DEF poll
  <2>2. IsConn([conns[id] EXCEPT !.send_buf = buf])
        /\ [conns[id] EXCEPT !.send_buf = buf].target = conns[id].target
    BY <1>1, PutConn
  <2> HIDE DEF buf
  <2>3. /\ DOMAIN conns' = DOMAIN conns
        /\ \A k \in DOMAIN conns : IsConn(conns'[k]) /\ conns'[k].target = conns[k].target
    BY <2>1, <2>2
  <2>4. DestinationsLive'
    BY <2>1, <2>3 DEF DestinationsLive
  <2> QED BY <1>1, <1>2, <2>3, <2>4
<1>4. CASE is_write_closed(id)
  <2>1. /\ conns' = Restrict(conns, DOMAIN conns \ {id})
        /\ dest' = Restrict(dest, DOMAIN dest \ {conns[id].target})
    BY <1>4 DEF poll, DestWithout
  <2>2. DOMAIN conns' = DOMAIN conns \ {id} /\ \A k \in DOMAIN conns' : conns'[k] = conns[k]
    BY <2>1, RemoveEntry
  <2>3. /\ DOMAIN dest' = DOMAIN dest \ {conns[id].target}
        /\ \A h \in DOMAIN dest' : dest'[h] = dest[h]
    BY <2>1, RemoveEntry
  <2>4. DestinationsLive'
    BY <1>1, <2>2, <2>3 DEF DestinationsLive
  <2> QED BY <1>1, <1>2, <2>2, <2>4
<1> QED BY <1>3, <1>4

\* ClientInv is inductive and always holds.
THEOREM ClientSafe == Spec => []ClientInv
<1>1. Init => ClientInv
  <2> SUFFICES ASSUME Init PROVE ClientInv
    OBVIOUS
  <2>1. DOMAIN conns = {} /\ DOMAIN dest = {} /\ sent = <<>> /\ counter = 0 /\ client = "alive"
    BY DEF Init
  <2> QED BY <2>1 DEF ClientInv, DestinationsLive, ClientSurvives
<1>2. ClientInv /\ [Next]_vars => ClientInv'
  <2> SUFFICES ASSUME ClientInv, [Next]_vars PROVE ClientInv'
    OBVIOUS
  <2>1. CASE (\E id \in Ids : ServerNext(id)) \/ UNCHANGED vars
    <3>1. UNCHANGED <<client, counter, conns, dest, sent>>
      BY <2>1 DEF ServerNext, accept, Dispatch, receive, parse, Dropped, vars
    <3> QED BY <3>1 DEF ClientInv, DestinationsLive, ClientSurvives
  <2> QED BY <2>1, SendKeeps, PollKeeps DEF Next
<1> QED BY <1>1, <1>2, PTL DEF Spec

\* Client.connections and Client.destinations name each other, across any
\* number of refusals, resets and reconnects: the unwrap()s of put() and poll()
\* on these maps find what they look for.
THEOREM MapsAgree == Spec => []DestinationsLive
<1>1. ClientInv => DestinationsLive
  BY DEF ClientInv
<1> QED BY <1>1, ClientSafe, PTL

\* The client actor fails only for a host that is not written as the text of
\* its SocketAddr; for all others it survives whatever the servers do.
THEOREM ClientFailsForAliasOnly == Spec => []ClientSurvives
<1>1. ClientInv => ClientSurvives
  BY DEF ClientInv
<1> QED BY <1>1, ClientSafe, PTL

-----------------------------------------------------------------------------
(* The bytes.                                                              *)

\* Every byte on its way is one of a message that was sent, so that a header
\* tells the length of its packet and a packet which message it is.
Numbered(messages) == [msg : DOMAIN messages, at : Nat]
Bytes(messages) == Seq(Numbered(messages))
SocketOf(bytes) ==
  [state : {"none", "open", "refused", "closed", "fin", "reset"}, pipe : bytes, edge : BOOLEAN]
ServerConnOf(bytes) ==
  [pc : {"none", "idle", "parsing", "stopping", "refused", "panicked", "dropped"},
   recv_buf : bytes, pos : Nat, mail : Seq(BOOLEAN)]

SentOK == client \in {"alive", "failed"} /\ counter <= Len(sent) /\ Len(sent) <= MaxPuts
ConnsOK == \A id \in DOMAIN conns : conns[id] \in [target : Hosts, send_buf : Bytes(sent)]
TcpOK == tcp \in [Ids -> SocketOf(Bytes(sent))]
ServerOK == server \in [Ids -> ServerConnOf(Bytes(sent))]
DeliveredOK == delivered \in Seq(DOMAIN sent \cup {Garbage})

StreamInv ==
  ClientInv /\ SentOK /\ ConnsOK /\ TcpOK /\ ServerOK /\ DeliveredOK

\* The bounds of the model are numbers.
LEMMA Numbers ==
  /\ Header \in Nat /\ Header > 0 /\ Limit \in Nat /\ ReadSize \in Nat
  /\ Room \in Nat /\ MaxPuts \in Nat
BY RemoteAssumption

\* The lesser of two numbers.
LEMMA MinOfTwo ==
  ASSUME NEW x \in Int, NEW y \in Int
  PROVE  Min({x, y}) \in Int /\ Min({x, y}) <= x /\ Min({x, y}) <= y
<1>1. \E m \in {x, y} : \A k \in {x, y} : m <= k
  OBVIOUS
<1>2. Min({x, y}) \in {x, y} /\ \A k \in {x, y} : Min({x, y}) <= k
  BY <1>1, Zenon DEF Min
<1> QED BY <1>2

\* A part of a stream is one, also when it is empty.
LEMMA PartOK ==
  ASSUME NEW S, NEW q \in Seq(S), NEW i \in Nat \ {0}, NEW j \in Int, j <= Len(q)
  PROVE  SubSeq(q, i, j) \in Seq(S)
<1>1. \A k \in i..j : q[k] \in S
  OBVIOUS
<1> QED BY <1>1, SubSeqProperties

\* A stream of bytes stays one when more is sent.
LEMMA MoreBytes ==
  ASSUME NEW ms \in Seq([host : Hosts, shape : Shapes]), NEW m \in [host : Hosts, shape : Shapes],
         NEW q \in Bytes(ms)
  PROVE  q \in Bytes(Append(ms, m))
<1>1. Numbered(ms) \subseteq Numbered(Append(ms, m))
  BY DEF Numbered
<1>2. \A k \in 1..Len(q) : q[k] \in Numbered(Append(ms, m))
  BY <1>1 DEF Bytes
<1> QED BY <1>2 DEF Bytes

\* A message has a shape.
LEMMA ShapeOK ==
  ASSUME NEW ms \in Seq([host : Hosts, shape : Shapes]), NEW k \in DOMAIN ms
  PROVE  ms[k].shape \in Shapes
<1> DEFINE S == [host : Hosts, shape : Shapes]
<1>1. ms[k] \in S
  <2>1. ms \in Seq(S)
    OBVIOUS
  <2> HIDE DEF S
  <2>2. k \in 1..Len(ms)
    BY <2>1
  <2> QED BY <2>1, <2>2, ElementOfSeq
<1> QED BY <1>1

\* The length of a packet.
LEMMA TotalOK ==
  ASSUME NEW shape \in Shapes
  PROVE  Total(shape) \in Nat /\ Total(shape) >= Header
<1>1. shape \in [names : Nat, payload : Nat]
  BY RemoteAssumption
<1> QED BY <1>1, Numbers DEF Total

\* The bytes of a packet.
LEMMA PacketBytes ==
  ASSUME NEW ms \in Seq([host : Hosts, shape : Shapes]), NEW k \in DOMAIN ms, NEW shape \in Shapes
  PROVE  /\ to_bytes(k, shape) \in Bytes(ms) /\ Len(to_bytes(k, shape)) = Total(shape)
         /\ to_bytes(k, shape)[1].msg = k
<1> DEFINE q == to_bytes(k, shape)
<1>1. Total(shape) \in Nat /\ Total(shape) >= 1
  BY TotalOK, Numbers
<1>2. q = [i \in 1..Total(shape) |-> [msg |-> k, at |-> i]]
  BY DEF to_bytes
<1>3. \A i \in 1..Total(shape) : [msg |-> k, at |-> i] \in Numbered(ms)
  BY DEF Numbered
<1>4. q \in Seq(Numbered(ms)) /\ Len(q) = Total(shape)
  BY <1>1, <1>2, <1>3
<1>5. q[1] = [msg |-> k, at |-> 1]
  BY <1>1, <1>2
<1> QED BY <1>4, <1>5 DEF Bytes

\* from_bytes leaves a stream, and what it finds is a message or garbage.
ParsedOK(r) ==
  /\ r.is = "Some" => r.rest \in Bytes(sent) /\ r.msg \in DOMAIN sent \cup {Garbage}
  /\ r.is = "None" => r.pos \in Nat
LEMMA FromBytesOK ==
  ASSUME sent \in Seq([host : Hosts, shape : Shapes]), NEW buf \in Bytes(sent), NEW pos \in Nat,
         NEW r \in from_bytes(buf, pos)
  PROVE  ParsedOK(r)
<1>0. \A k \in DOMAIN sent : sent[k].shape \in Shapes
  BY ShapeOK
<1> DEFINE header == SubSeq(buf, pos + 1, pos + Header)
           Outcome(total) ==
             IF TooLong(total) THEN [is |-> "Err"]
             ELSE IF Len(buf) < total THEN None(pos + Header)
             ELSE IF Len(buf) - pos < total THEN [is |-> "panic"]
             ELSE [is |-> "Some", msg |-> Message(SubSeq(buf, pos + 1, pos + total)),
                   rest |-> SubSeq(buf, pos + total + 1, Len(buf))]
<1>1. buf \in Seq(Numbered(sent)) /\ Len(buf) \in Nat
  BY DEF Bytes
<1>2. \/ r = None(pos) \/ r = [is |-> "panic"]
      \/ ~(Len(buf) - pos < Header) /\ \E total \in Totals(header) : r = Outcome(total)
  BY DEF from_bytes
<1>3. CASE r = None(pos) \/ r = [is |-> "panic"]
  BY <1>3 DEF None, ParsedOK
<1>4. ASSUME ~(Len(buf) - pos < Header), NEW total \in Totals(header), r = Outcome(total)
      PROVE  ParsedOK(r)
  <2>1. header[1].msg \in DOMAIN sent
    <3>1. Len(buf) >= pos + Header
      BY <1>1, <1>4, Numbers
    <3>2. \A i \in (pos + 1)..(pos + Header) : buf[i] \in Numbered(sent)
      BY <1>1, <3>1, Numbers
    <3>3. header[1] = buf[pos + 1]
      <4>1. pos + 1 \in Int /\ pos + Header \in Int
        BY Numbers
      <4>2. \A i \in 1..((pos + Header) - (pos + 1) + 1) : header[i] = buf[(pos + 1) + i - 1]
        BY <3>2, <4>1, SubSeqProperties
      <4>3. 1 \in 1..((pos + Header) - (pos + 1) + 1) /\ (pos + 1) + 1 - 1 = pos + 1
        BY Numbers
      <4> HIDE DEF header
      <4> QED BY <4>2, <4>3
    <3>4. buf[pos + 1] \in Numbered(sent)
      BY <3>2, Numbers
    <3> HIDE DEF header
    <3> QED BY <3>3, <3>4 DEF Numbered
  <2> HIDE DEF header
  <2>2. total \in Nat
    <3>1. sent[header[1].msg].shape \in Shapes
      BY <1>0, <2>1, Zenon
    <3>2. Total(sent[header[1].msg].shape) \in Nat
      BY <3>1, TotalOK
    <3> QED BY <1>4, <3>2, Numbers DEF Totals
  <2> DEFINE found == SubSeq(buf, pos + 1, pos + total)
             rest == SubSeq(buf, pos + total + 1, Len(buf))
  <2>3. rest \in Bytes(sent)
    <3>1. pos + total + 1 \in Nat \ {0} /\ Len(buf) \in Int /\ Len(buf) <= Len(buf)
      BY <1>1, <2>2
    <3> QED BY <1>1, <3>1, PartOK DEF Bytes
  <2>4. Message(found) \in DOMAIN sent \cup {Garbage}
    <3> HIDE DEF found
    <3>1. ASSUME NEW k \in DOMAIN sent, found = to_bytes(k, sent[k].shape)
          PROVE  found[1].msg \in DOMAIN sent
      <4>1. sent[k].shape \in Shapes
        BY <1>0
      <4> QED BY <3>1, <4>1, PacketBytes
    <3> QED BY <3>1 DEF Message
  <2> HIDE DEF found, rest
  <2>5. \/ r = [is |-> "Err"] \/ r = None(pos + Header) \/ r = [is |-> "panic"]
        \/ r = [is |-> "Some", msg |-> Message(found), rest |-> rest]
    BY <1>4 DEF found, rest
  <2> QED BY <2>3, <2>4, <2>5, Numbers DEF ParsedOK, None
<1> QED BY <1>2, <1>3, <1>4

-----------------------------------------------------------------------------
(* The steps, for the bytes.                                               *)

\* A message more: what is on its way stays as it is.
LEMMA MoreSent ==
  ASSUME StreamInv, NEW m \in [host : Hosts, shape : Shapes], sent' = Append(sent, m)
  PROVE  /\ \A q \in Bytes(sent) : q \in Bytes(sent')
         /\ SocketOf(Bytes(sent)) \subseteq SocketOf(Bytes(sent'))
         /\ ServerConnOf(Bytes(sent)) \subseteq ServerConnOf(Bytes(sent'))
         /\ delivered \in Seq(DOMAIN sent' \cup {Garbage})
         /\ Len(sent') = Len(sent) + 1 /\ Len(sent) + 1 \in DOMAIN sent'
<1>0. sent \in Seq([host : Hosts, shape : Shapes])
  BY DEF StreamInv, ClientInv
<1>1. \A q \in Bytes(sent) : q \in Bytes(sent')
  BY <1>0, MoreBytes
<1>2. SocketOf(Bytes(sent)) \subseteq SocketOf(Bytes(sent'))
  BY <1>1 DEF SocketOf
<1>3. ServerConnOf(Bytes(sent)) \subseteq ServerConnOf(Bytes(sent'))
  BY <1>1 DEF ServerConnOf
<1>4. DOMAIN sent \subseteq DOMAIN sent' /\ Len(sent') = Len(sent) + 1 /\ Len(sent) + 1 \in DOMAIN sent'
  BY <1>0
<1>5. delivered \in Seq(DOMAIN sent' \cup {Garbage})
  <2>1. delivered \in Seq(DOMAIN sent \cup {Garbage})
    BY DEF StreamInv, DeliveredOK
  <2>2. \A i \in 1..Len(delivered) : delivered[i] \in DOMAIN sent' \cup {Garbage}
    BY <1>4, <2>1
  <2> HIDE DEF DeliveredOK
  <2> QED BY <2>1, <2>2
<1> QED BY <1>1, <1>2, <1>3, <1>4, <1>5

\* put() appends a packet to the buffer of one connection.
LEMMA PutBytes ==
  ASSUME sent' \in Seq([host : Hosts, shape : Shapes]), Len(sent) + 1 \in DOMAIN sent',
         NEW conns1, NEW id \in DOMAIN conns1, NEW shape \in Shapes,
         \A k \in DOMAIN conns1 : conns1[k] \in [target : Hosts, send_buf : Bytes(sent')],
         put(id, shape, conns1)
  PROVE  ConnsOK'
<1> DEFINE buf == conns1[id].send_buf \o to_bytes(Len(sent) + 1, shape)
           c == [conns1[id] EXCEPT !.send_buf = buf]
<1>1. conns' = [conns1 EXCEPT ![id] = c]
  BY DEF put
<1>2. to_bytes(Len(sent) + 1, shape) \in Bytes(sent') /\ conns1[id].send_buf \in Bytes(sent')
  BY PacketBytes
<1>3. buf \in Bytes(sent')
  BY <1>2 DEF Bytes
<1> HIDE DEF buf
<1>4. c \in [target : Hosts, send_buf : Bytes(sent')]
  BY <1>3
<1> HIDE DEF c
<1>5. \A k \in DOMAIN conns' : conns'[k] \in [target : Hosts, send_buf : Bytes(sent')]
  BY <1>1, <1>4
<1> QED BY <1>5 DEF ConnsOK

\* A panic closes the sockets and touches no byte.
LEMMA FailBytes ==
  ASSUME StreamInv, Fail
  PROVE  tcp' \in [Ids -> SocketOf(Bytes(sent))] /\ DOMAIN conns' = {}
<1>1. tcp \in [Ids -> SocketOf(Bytes(sent))]
  BY DEF StreamInv, TcpOK
<1>2. ASSUME NEW i \in Ids
      PROVE  [tcp[i] EXCEPT !.state = "closed", !.edge = TRUE] \in SocketOf(Bytes(sent))
  BY <1>1 DEF SocketOf
<1>3. tcp' \in [Ids -> SocketOf(Bytes(sent))]
  <2> DEFINE Closed(i) == IF tcp[i].state = "open"
                          THEN [tcp[i] EXCEPT !.state = "closed", !.edge = TRUE] ELSE tcp[i]
  <2>1. tcp' = [i \in Ids |-> Closed(i)]
    BY DEF Fail
  <2>2. \A i \in Ids : Closed(i) \in SocketOf(Bytes(sent))
    BY <1>1, <1>2
  <2> HIDE DEF Closed
  <2> QED BY <2>1, <2>2
<1>4. conns' = <<>>
  BY DEF Fail
<1>5. DOMAIN <<>> = {}
  OBVIOUS
<1> QED BY <1>3, <1>4, <1>5, Zenon

LEMMA SendBytes ==
  ASSUME StreamInv, NEW host \in Hosts, NEW shape \in Shapes, Send(host, shape)
  PROVE  StreamInv'
<1> DEFINE m == [host |-> host, shape |-> shape]
<1>0. ClientInv /\ SentOK /\ ConnsOK /\ TcpOK /\ ServerOK /\ counter \in Nat
      /\ sent \in Seq([host : Hosts, shape : Shapes])
  BY DEF StreamInv, ClientInv
<1>1. /\ sent' = Append(sent, m) /\ m \in [host : Hosts, shape : Shapes]
      /\ Len(sent) < MaxPuts /\ UNCHANGED <<server, delivered>>
  BY DEF Send
<1>2. ClientInv' /\ sent' \in Seq([host : Hosts, shape : Shapes])
  BY <1>0, SendKeeps DEF ClientInv
<1> HIDE DEF m
<1>3. /\ \A q \in Bytes(sent) : q \in Bytes(sent')
      /\ SocketOf(Bytes(sent)) \subseteq SocketOf(Bytes(sent'))
      /\ ServerConnOf(Bytes(sent)) \subseteq ServerConnOf(Bytes(sent'))
      /\ delivered \in Seq(DOMAIN sent' \cup {Garbage})
      /\ Len(sent') = Len(sent) + 1 /\ Len(sent) + 1 \in DOMAIN sent'
  BY <1>1, MoreSent
<1>4. ServerOK' /\ DeliveredOK'
  BY <1>0, <1>1, <1>3 DEF ServerOK, DeliveredOK
<1>5. \A k \in DOMAIN conns : conns[k] \in [target : Hosts, send_buf : Bytes(sent')]
  BY <1>0, <1>3 DEF ConnsOK
<1>6. tcp \in [Ids -> SocketOf(Bytes(sent'))]
  BY <1>0, <1>3 DEF TcpOK
<1>7. SentOK'
  <2>1. counter' = counter \/ counter' = counter + 1
    BY DEF Send, SendConnected, connect
  <2>2. client' = client \/ client' = "failed"
    BY DEF Send, SendConnected, connect, Fail
  <2> QED BY <1>0, <1>1, <1>3, <2>1, <2>2, Numbers DEF SentOK
<1>8. ConnsOK' /\ TcpOK'
  <2>1. CASE Fail
    <3>1. tcp' \in [Ids -> SocketOf(Bytes(sent))] /\ DOMAIN conns' = {}
      BY <2>1, FailBytes
    <3> QED BY <1>3, <3>1 DEF ConnsOK, TcpOK
  <2>2. CASE SendConnected(host, shape) /\ ~Fail
    <3>1. dest[host] \in DOMAIN conns /\ put(dest[host], shape, conns) /\ UNCHANGED tcp
      BY <2>2 DEF SendConnected
    <3>2. ConnsOK'
      BY <1>2, <1>3, <1>5, <3>1, PutBytes
    <3> QED BY <1>6, <3>1, <3>2 DEF TcpOK
  <2>3. CASE connect(host, shape) /\ host \in Unparsable
    <3>1. UNCHANGED <<client, conns, dest, tcp>>
      BY <2>3 DEF connect
    <3>2. UNCHANGED conns /\ UNCHANGED tcp
      BY <3>1
    <3> QED BY <1>5, <1>6, <3>2 DEF ConnsOK, TcpOK
  <2>4. CASE connect(host, shape) /\ host \notin Unparsable /\ ~Fail
    <3> DEFINE id == counter + 1
               new == [target |-> Canonical[host], send_buf |-> <<>>]
               conns1 == Insert(conns, id, new)
               state == IF Canonical[host] \in Servers THEN "open" ELSE "refused"
    <3>1. put(id, shape, conns1) /\ tcp' = [tcp EXCEPT ![id].state = state]
      BY <2>4 DEF connect, NextId
    <3>2. id \in Ids
      BY <1>0, <1>1, Numbers DEF SentOK, Ids
    <3>3. new \in [target : Hosts, send_buf : Bytes(sent')]
      BY RemoteAssumption DEF Bytes
    <3> HIDE DEF new, id
    <3>4. id \in DOMAIN conns1
          /\ \A k \in DOMAIN conns1 : conns1[k] \in [target : Hosts, send_buf : Bytes(sent')]
      BY <1>5, <3>3 DEF Insert
    <3> HIDE DEF conns1
    <3>5. ConnsOK'
      BY <1>2, <1>3, <3>1, <3>4, PutBytes
    <3>6. [tcp[id] EXCEPT !.state = state] \in SocketOf(Bytes(sent'))
      BY <1>6, <3>2 DEF SocketOf
    <3> HIDE DEF state
    <3>7. TcpOK'
      BY <1>6, <3>1, <3>2, <3>6 DEF TcpOK
    <3> QED BY <3>5, <3>7
  <2> QED BY <2>1, <2>2, <2>3, <2>4 DEF Send
<1> QED BY <1>2, <1>4, <1>7, <1>8 DEF StreamInv

\* What write_all() writes is a part of the buffer.
LEMMA WrittenOK ==
  ASSUME StreamInv, NEW id \in Ids, id \in DOMAIN conns
  PROVE  written(id) \in Bytes(sent)
<1> DEFINE buf == conns[id].send_buf
           free == Room - Len(tcp[id].pipe)
           j == Min({free, Len(buf)})
<1>1. buf \in Bytes(sent) /\ tcp[id].pipe \in Bytes(sent)
  BY DEF StreamInv, ConnsOK, TcpOK, SocketOf
<1>2. free \in Int /\ Len(buf) \in Int
  BY <1>1, Numbers DEF Bytes
<1>3. written(id) = <<>> \/ written(id) = SubSeq(buf, 1, j)
  BY DEF written
<1>4. j \in Int /\ j <= Len(buf)
  <2> HIDE DEF free, buf
  <2> QED BY <1>2, MinOfTwo
<1> HIDE DEF j, buf, free
<1>5. SubSeq(buf, 1, j) \in Bytes(sent)
  BY <1>1, <1>4, PartOK DEF Bytes
<1>6. <<>> \in Bytes(sent)
  BY DEF Bytes
<1> QED BY <1>3, <1>5, <1>6

LEMMA PollBytes ==
  ASSUME StreamInv, NEW id \in Ids, poll(id)
  PROVE  StreamInv'
<1> DEFINE bytes == written(id)
<1>0. ClientInv /\ SentOK /\ ConnsOK /\ TcpOK /\ ServerOK /\ DeliveredOK
  BY DEF StreamInv
<1>1. /\ id \in DOMAIN conns /\ tcp' = [tcp EXCEPT ![id] = Wrote(tcp[id], bytes)]
      /\ UNCHANGED <<client, counter, server, sent, delivered>>
  BY DEF poll
<1>2. ClientInv' /\ SentOK' /\ ServerOK' /\ DeliveredOK'
  BY <1>0, <1>1, PollKeeps DEF SentOK, ServerOK, DeliveredOK
<1>3. bytes \in Bytes(sent)
  BY <1>1, WrittenOK
<1> HIDE DEF bytes
<1>4. tcp[id] \in SocketOf(Bytes(sent))
  BY <1>0 DEF TcpOK
<1>5. Wrote(tcp[id], bytes) \in SocketOf(Bytes(sent))
  <2>1. tcp[id].pipe \o bytes \in Bytes(sent)
    BY <1>3, <1>4 DEF SocketOf, Bytes
  <2> QED BY <1>4, <2>1 DEF Wrote, SocketOf
<1>6. TcpOK'
  BY <1>0, <1>1, <1>5 DEF TcpOK
<1>7. ConnsOK'
  <2>1. CASE ~is_write_closed(id)
    <3> DEFINE left == LeftAfter(conns[id].send_buf, written(id))
    <3>1. conns' = [conns EXCEPT ![id] = [conns[id] EXCEPT !.send_buf = left]]
      BY <2>1 DEF poll
    <3>2. left \in Bytes(sent) /\ conns[id] \in [target : Hosts, send_buf : Bytes(sent)]
      BY <1>0, <1>1 DEF ConnsOK, LeftAfter, Bytes
    <3> HIDE DEF left
    <3>3. [conns[id] EXCEPT !.send_buf = left] \in [target : Hosts, send_buf : Bytes(sent)]
      BY <3>2
    <3> QED BY <1>0, <1>1, <3>1, <3>3 DEF ConnsOK
  <2>2. CASE is_write_closed(id)
    <3>1. conns' = Restrict(conns, DOMAIN conns \ {id})
      BY <2>2 DEF poll
    <3>2. DOMAIN conns' = DOMAIN conns \ {id} /\ \A k \in DOMAIN conns' : conns'[k] = conns[k]
      BY <3>1, RemoveEntry
    <3> QED BY <1>0, <1>1, <3>2 DEF ConnsOK
  <2> QED BY <2>1, <2>2
<1> QED BY <1>2, <1>6, <1>7 DEF StreamInv

\* A step of the server is one of a connection of it and its socket.
LEMMA ServerStepBytes ==
  ASSUME StreamInv, NEW id \in Ids, UNCHANGED <<client, counter, conns, dest, sent>>,
         NEW s \in SocketOf(Bytes(sent)), tcp' = [tcp EXCEPT ![id] = s],
         NEW c \in ServerConnOf(Bytes(sent)), server' = [server EXCEPT ![id] = c],
         DeliveredOK'
  PROVE  StreamInv'
<1>0. ClientInv /\ SentOK /\ ConnsOK /\ TcpOK /\ ServerOK /\ DeliveredOK
  BY DEF StreamInv
<1>1. ClientInv' /\ SentOK' /\ ConnsOK'
  BY <1>0 DEF ClientInv, DestinationsLive, ClientSurvives, SentOK, ConnsOK
<1>2. TcpOK' /\ ServerOK'
  BY <1>0 DEF TcpOK, ServerOK
<1> QED BY <1>1, <1>2 DEF StreamInv

LEMMA ServerBytes ==
  ASSUME StreamInv, NEW id \in Ids, ServerNext(id)
  PROVE  StreamInv'
<1>0. /\ tcp \in [Ids -> SocketOf(Bytes(sent))] /\ tcp[id] \in SocketOf(Bytes(sent))
      /\ server \in [Ids -> ServerConnOf(Bytes(sent))] /\ server[id] \in ServerConnOf(Bytes(sent))
      /\ DeliveredOK /\ <<>> \in Bytes(sent) /\ sent \in Seq([host : Hosts, shape : Shapes])
  BY DEF StreamInv, TcpOK, ServerOK, Bytes, ClientInv
<1>1. UNCHANGED <<client, counter, conns, dest, sent>>
  BY DEF ServerNext, accept, Dispatch, receive, parse, Dropped
<1>2. UNCHANGED delivered => DeliveredOK'
  BY <1>0, <1>1 DEF DeliveredOK
<1>3. CASE accept(id)
  <2> DEFINE s == [tcp[id] EXCEPT !.edge = TRUE]
             c == [server[id] EXCEPT !.pc = "idle"]
  <2>1. s \in SocketOf(Bytes(sent)) /\ c \in ServerConnOf(Bytes(sent))
    BY <1>0 DEF SocketOf, ServerConnOf
  <2>2. tcp' = [tcp EXCEPT ![id] = s] /\ server' = [server EXCEPT ![id] = c] /\ UNCHANGED delivered
    BY <1>3 DEF accept
  <2> HIDE DEF s, c
  <2> QED BY <1>1, <1>2, <2>1, <2>2, ServerStepBytes
<1>4. CASE Dispatch(id)
  <2> DEFINE s == [tcp[id] EXCEPT !.edge = FALSE]
             readable == tcp[id].pipe # <<>> \/ tcp[id].state = "closed"
             c == [server[id] EXCEPT !.mail = Append(server[id].mail, readable)]
  <2>1. s \in SocketOf(Bytes(sent))
    BY <1>0 DEF SocketOf
  <2>2. tcp' = [tcp EXCEPT ![id] = s] /\ server' = [server EXCEPT ![id] = c] /\ UNCHANGED delivered
    BY <1>4 DEF Dispatch
  <2>3. readable \in BOOLEAN
    OBVIOUS
  <2> HIDE DEF readable
  <2>4. Append(server[id].mail, readable) \in Seq(BOOLEAN)
    BY <1>0, <2>3 DEF ServerConnOf
  <2>5. c \in ServerConnOf(Bytes(sent))
    BY <1>0, <2>4 DEF ServerConnOf
  <2> HIDE DEF s, c
  <2> QED BY <1>1, <1>2, <2>1, <2>2, <2>5, ServerStepBytes
<1>5. CASE receive(id)
  <2> DEFINE pipe == tcp[id].pipe
             k == Min({ReadSize, Len(pipe)})
             can_read == Head(server[id].mail)
             left == IF can_read THEN SubSeq(pipe, k + 1, Len(pipe)) ELSE pipe
             buf == IF can_read THEN server[id].recv_buf \o SubSeq(pipe, 1, k) ELSE server[id].recv_buf
             pc == IF can_read /\ k = 0 THEN "stopping" ELSE "parsing"
             mail == Tail(server[id].mail)
             s == [tcp[id] EXCEPT !.pipe = left]
             c == [server[id] EXCEPT !.mail = mail, !.pc = pc, !.recv_buf = buf]
  <2>1. tcp' = [tcp EXCEPT ![id] = s] /\ server' = [server EXCEPT ![id] = c] /\ UNCHANGED delivered
    BY <1>5 DEF receive
  <2>2. pipe \in Bytes(sent) /\ Len(pipe) \in Nat /\ server[id].recv_buf \in Bytes(sent)
    BY <1>0 DEF SocketOf, ServerConnOf, Bytes
  <2>3. k \in Int /\ k <= Len(pipe) /\ k >= 0
    <3> HIDE DEF pipe
    <3>1. k \in Int /\ k <= Len(pipe)
      <4>1. ReadSize \in Int /\ Len(pipe) \in Int
        BY <2>2, Numbers
      <4> QED BY <4>1, MinOfTwo
    <3>2. k \in {ReadSize, Len(pipe)}
      <4>1. \E x \in {ReadSize, Len(pipe)} : \A y \in {ReadSize, Len(pipe)} : x <= y
        BY <2>2, Numbers
      <4> QED BY <4>1, Zenon DEF Min
    <3> QED BY <2>2, <3>1, <3>2, Numbers
  <2>4. left \in Bytes(sent) /\ buf \in Bytes(sent)
    <3> HIDE DEF pipe, k, can_read
    <3>1. SubSeq(pipe, k + 1, Len(pipe)) \in Bytes(sent)
      BY <2>2, <2>3, PartOK DEF Bytes
    <3>2. SubSeq(pipe, 1, k) \in Bytes(sent)
      BY <2>2, <2>3, PartOK DEF Bytes
    <3>3. server[id].recv_buf \o SubSeq(pipe, 1, k) \in Bytes(sent)
      BY <2>2, <3>2 DEF Bytes
    <3> QED BY <2>2, <3>1, <3>3
  <2>5. mail \in Seq(BOOLEAN)
    <3>1. server[id].mail \in Seq(BOOLEAN) /\ server[id].mail # <<>>
      BY <1>0, <1>5 DEF receive, ServerConnOf
    <3> QED BY <3>1, HeadTailProperties
  <2>6. pc \in {"stopping", "parsing"}
    OBVIOUS
  <2> HIDE DEF left, buf, pc, mail
  <2>7. s \in SocketOf(Bytes(sent)) /\ c \in ServerConnOf(Bytes(sent))
    BY <1>0, <2>4, <2>5, <2>6 DEF SocketOf, ServerConnOf
  <2> HIDE DEF s, c
  <2> QED BY <1>1, <1>2, <2>1, <2>7, ServerStepBytes
<1>6. CASE parse(id)
  <2>1. PICK r \in from_bytes(server[id].recv_buf, server[id].pos) :
         \/ /\ r.is = "Some"
            /\ server' = [server EXCEPT ![id].recv_buf = r.rest, ![id].pos = 0]
            /\ delivered' = Append(delivered, r.msg)
         \/ /\ r.is = "None"
            /\ server' = [server EXCEPT ![id].pc = "idle", ![id].pos = r.pos]
            /\ UNCHANGED delivered
         \/ /\ r.is \in {"Err", "panic"}
            /\ server' = [server EXCEPT ![id].pc = IF r.is = "Err" THEN "refused" ELSE "panicked"]
            /\ UNCHANGED delivered
    BY <1>6 DEF parse
  <2>2. server[id].recv_buf \in Bytes(sent) /\ server[id].pos \in Nat
    BY <1>0 DEF ServerConnOf
  <2>3. ParsedOK(r)
    BY <1>0, <2>2, FromBytesOK
  <2>4. tcp' = [tcp EXCEPT ![id] = tcp[id]]
    BY <1>0, <1>6 DEF parse
  <2>5. CASE r.is = "Some"
    <3> DEFINE c == [server[id] EXCEPT !.recv_buf = r.rest, !.pos = 0]
    <3>1. server' = [server EXCEPT ![id] = c] /\ delivered' = Append(delivered, r.msg)
      BY <2>1, <2>5
    <3>2. c \in ServerConnOf(Bytes(sent))
      BY <1>0, <2>3, <2>5 DEF ServerConnOf, ParsedOK
    <3>3. DeliveredOK'
      BY <1>0, <1>1, <2>3, <2>5, <3>1 DEF DeliveredOK, ParsedOK
    <3> HIDE DEF c
    <3> QED BY <1>0, <1>1, <2>4, <3>1, <3>2, <3>3, ServerStepBytes
  <2>6. CASE r.is = "None"
    <3> DEFINE c == [server[id] EXCEPT !.pc = "idle", !.pos = r.pos]
    <3>1. server' = [server EXCEPT ![id] = c] /\ UNCHANGED delivered
      BY <2>1, <2>6
    <3>2. c \in ServerConnOf(Bytes(sent))
      BY <1>0, <2>3, <2>6 DEF ServerConnOf, ParsedOK
    <3> HIDE DEF c
    <3> QED BY <1>0, <1>1, <1>2, <2>4, <3>1, <3>2, ServerStepBytes
  <2>7. CASE r.is \in {"Err", "panic"}
    <3> DEFINE c == [server[id] EXCEPT !.pc = IF r.is = "Err" THEN "refused" ELSE "panicked"]
    <3>1. server' = [server EXCEPT ![id] = c] /\ UNCHANGED delivered
      BY <2>1, <2>7
    <3>2. c \in ServerConnOf(Bytes(sent))
      BY <1>0 DEF ServerConnOf
    <3> HIDE DEF c
    <3> QED BY <1>0, <1>1, <1>2, <2>4, <3>1, <3>2, ServerStepBytes
  <2> QED BY <2>1, <2>5, <2>6, <2>7
<1>7. CASE Dropped(id)
  <2> DEFINE s == [state |-> IF tcp[id].state = "closed" THEN "closed"
                             ELSE IF tcp[id].pipe = <<>> THEN "fin" ELSE "reset",
                   pipe |-> <<>>, edge |-> FALSE]
             c == [pc |-> "dropped", recv_buf |-> <<>>, pos |-> 0, mail |-> <<>>]
  <2>1. s \in SocketOf(Bytes(sent))
    BY <1>0 DEF SocketOf
  <2>2. c \in ServerConnOf(Bytes(sent))
    BY <1>0 DEF ServerConnOf
  <2>3. tcp' = [tcp EXCEPT ![id] = s] /\ server' = [server EXCEPT ![id] = c] /\ UNCHANGED delivered
    BY <1>7 DEF Dropped
  <2> HIDE DEF s, c
  <2> QED BY <1>1, <1>2, <2>1, <2>2, <2>3, ServerStepBytes
<1> QED BY <1>3, <1>4, <1>5, <1>6, <1>7 DEF ServerNext

-----------------------------------------------------------------------------
(* Theorems about the bytes.                                               *)

\* StreamInv is inductive and always holds.
THEOREM StreamSafe == Spec => []StreamInv
<1>1. Init /\ ClientInv => StreamInv
  <2> SUFFICES ASSUME Init, ClientInv PROVE StreamInv
    OBVIOUS
  <2>1. sent = <<>> /\ delivered = <<>> /\ counter = 0 /\ client = "alive"
    BY DEF Init
  <2>2. DOMAIN conns = {}
    BY DEF Init
  <2>3. <<>> \in Bytes(sent)
    BY DEF Bytes
  <2>4. [state |-> "none", pipe |-> <<>>, edge |-> FALSE] \in SocketOf(Bytes(sent))
    BY <2>3 DEF SocketOf
  <2>5. [pc |-> "none", recv_buf |-> <<>>, pos |-> 0, mail |-> <<>>] \in ServerConnOf(Bytes(sent))
    BY <2>3 DEF ServerConnOf
  <2>6. TcpOK
    BY <2>4 DEF Init, TcpOK
  <2>7. ServerOK
    BY <2>5 DEF Init, ServerOK
  <2>8. SentOK /\ ConnsOK /\ DeliveredOK
    BY <2>1, <2>2, Numbers DEF SentOK, ConnsOK, DeliveredOK
  <2> QED BY <2>6, <2>7, <2>8 DEF StreamInv
<1>2. StreamInv /\ [Next]_vars => StreamInv'
  <2> SUFFICES ASSUME StreamInv, [Next]_vars PROVE StreamInv'
    OBVIOUS
  <2>1. CASE UNCHANGED vars
    BY <2>1 DEF vars, StreamInv, ClientInv, DestinationsLive, ClientSurvives, SentOK, ConnsOK,
       TcpOK, ServerOK, DeliveredOK
  <2> QED BY <2>1, SendBytes, PollBytes, ServerBytes DEF Next
<1> QED BY <1>1, <1>2, ClientSafe, PTL DEF Spec

\* Streams, connections and maps are what they should be, whatever from_bytes
\* makes of a stream, and no more connections are made than messages sent.
THEOREM RemoteTypes == Spec => []TypeOK
<1>1. StreamInv => TypeOK
  <2> SUFFICES ASSUME StreamInv PROVE TypeOK
    OBVIOUS
  <2>0. ClientInv /\ SentOK /\ ConnsOK /\ TcpOK /\ ServerOK /\ DeliveredOK
    BY DEF StreamInv
  <2>1. /\ counter \in Nat /\ Len(sent) \in Nat /\ DOMAIN sent = 1..Len(sent)
        /\ sent \in Seq([host : Hosts, shape : Shapes])
    BY <2>0 DEF ClientInv
  <2>2. counter \in 0..MaxPuts /\ DOMAIN sent \subseteq Ids /\ 1..counter \subseteq Ids
    BY <2>0, <2>1, Numbers DEF SentOK, Ids
  <2>3. Numbered(sent) \subseteq Cell
    BY <2>2 DEF Numbered, Cell
  <2>4. ASSUME NEW q \in Bytes(sent) PROVE q \in Seq(Cell)
    <3>1. \A i \in 1..Len(q) : q[i] \in Cell
      BY <2>3 DEF Bytes
    <3> QED BY <3>1 DEF Bytes
  <2>5. Range(conns) \subseteq ClientConn /\ DOMAIN conns \subseteq 1..counter
    BY <2>0, <2>4 DEF ConnsOK, ClientConn, ClientInv, Range
  <2>6. DOMAIN dest \subseteq Hosts /\ Range(dest) \subseteq Ids
    <3>1. ASSUME NEW h \in DOMAIN dest PROVE h \in Hosts /\ dest[h] \in Ids
      <4>1. dest[h] \in DOMAIN conns /\ conns[dest[h]].target = h
        BY <2>0 DEF ClientInv, DestinationsLive
      <4> QED BY <2>0, <2>2, <2>5, <4>1 DEF ConnsOK
    <3> QED BY <3>1 DEF Range
  <2>7. SocketOf(Bytes(sent)) \subseteq Socket /\ ServerConnOf(Bytes(sent)) \subseteq ServerConn
    BY <2>4 DEF SocketOf, Socket, ServerConnOf, ServerConn
  <2>8. tcp \in [Ids -> Socket] /\ server \in [Ids -> ServerConn]
    BY <2>0, <2>7 DEF TcpOK, ServerOK
  <2>9. delivered \in Seq(Ids \cup {Garbage})
    <3>1. \A i \in 1..Len(delivered) : delivered[i] \in Ids \cup {Garbage}
      BY <2>0, <2>2 DEF DeliveredOK
    <3> QED BY <2>0, <3>1 DEF DeliveredOK
  <2>10. client \in {"alive", "failed"}
    BY <2>0 DEF SentOK
  <2> QED BY <2>1, <2>2, <2>5, <2>6, <2>8, <2>9, <2>10 DEF TypeOK
<1> QED BY <1>1, StreamSafe, PTL

\* What a Connection of the server sends on is a message that was given to the
\* Client before, or garbage: from_bytes never finds one that nobody sent.
THEOREM OnlyWhatWasSent ==
  Spec => [](\A i \in DOMAIN delivered : delivered[i] # Garbage => delivered[i] \in DOMAIN sent)
<1>1. StreamInv => \A i \in DOMAIN delivered : delivered[i] # Garbage => delivered[i] \in DOMAIN sent
  BY DEF StreamInv, DeliveredOK
<1> QED BY <1>1, StreamSafe, PTL

-----------------------------------------------------------------------------
(* Packets in a stream.                                                    *)

\* The length of the packet of a message.
T(ms, n) == Total(ms[n].shape)

\* The i-th byte is in its packet, which is there as a whole.
InPacket(ms, q, i) ==
  LET n == q[i].msg
      start == i - q[i].at
  IN  /\ n \in DOMAIN ms /\ q[i].at \in 1..T(ms, n)
      /\ 0 <= start /\ start + T(ms, n) <= Len(q)
      /\ \A k \in 1..T(ms, n) : q[start + k] = [msg |-> n, at |-> k]

\* The bytes are those of whole packets, each once and in the order of the
\* messages.
Packed(ms, q) ==
  /\ \A i \in DOMAIN q : InPacket(ms, q, i)
  /\ \A i, j \in DOMAIN q : i < j => q[i].msg <= q[j].msg
  /\ \A i, j \in DOMAIN q : q[i].msg = q[j].msg => i - q[i].at = j - q[j].at

\* All messages in q are older than those in r.
Before(q, r) == \A i \in DOMAIN q, j \in DOMAIN r : q[i].msg < r[j].msg

\* The messages given to the Client.
Messages == Seq([host : Hosts, shape : Shapes])

\* The parts of a byte that was sent.
LEMMA ByteOK ==
  ASSUME NEW ms \in Messages, NEW q \in Bytes(ms), NEW i \in DOMAIN q
  PROVE  /\ q[i] \in Numbered(ms) /\ q[i].msg \in DOMAIN ms /\ q[i].msg \in Nat /\ q[i].at \in Nat
         /\ i \in 1..Len(q) /\ i \in Nat
<1>1. q \in Seq(Numbered(ms)) /\ Len(ms) \in Nat /\ DOMAIN ms = 1..Len(ms)
  BY DEF Bytes, Messages
<1>2. q[i] \in Numbered(ms) /\ i \in 1..Len(q)
  BY <1>1
<1> QED BY <1>1, <1>2 DEF Numbered

\* The length of the packet of a message that was sent.
LEMMA LengthOK ==
  ASSUME NEW ms \in Messages, NEW n \in DOMAIN ms
  PROVE  T(ms, n) \in Nat /\ T(ms, n) >= Header /\ T(ms, n) >= 1
<1>1. ms[n].shape \in Shapes
  BY ShapeOK DEF Messages
<1> QED BY <1>1, TotalOK, Numbers DEF T

\* The stream that nothing is in.
LEMMA PackedEmpty ==
  ASSUME NEW ms
  PROVE  Packed(ms, <<>>)
BY DEF Packed

\* One packet.
LEMMA PackedOne ==
  ASSUME NEW ms \in Messages, NEW n \in DOMAIN ms
  PROVE  LET q == to_bytes(n, ms[n].shape)
         IN  /\ q \in Bytes(ms) /\ Len(q) = T(ms, n) /\ Packed(ms, q)
             /\ \A i \in DOMAIN q : q[i].msg = n
<1> DEFINE q == to_bytes(n, ms[n].shape)
<1>1. T(ms, n) \in Nat /\ q = [k \in 1..T(ms, n) |-> [msg |-> n, at |-> k]]
  BY LengthOK DEF to_bytes, T
<1>2. q \in Bytes(ms) /\ Len(q) = T(ms, n)
  <2>1. ms[n].shape \in Shapes
    BY ShapeOK DEF Messages
  <2> QED BY <2>1, PacketBytes DEF Messages, T
<1>3. DOMAIN q = 1..T(ms, n) /\ \A i \in 1..T(ms, n) : q[i] = [msg |-> n, at |-> i]
  BY <1>1
<1> HIDE DEF q
<1>4. ASSUME NEW i \in DOMAIN q PROVE InPacket(ms, q, i)
  <2>1. q[i].msg = n /\ q[i].at = i /\ i \in 1..T(ms, n) /\ i - i = 0
    BY <1>1, <1>3, <1>4
  <2> QED BY <1>1, <1>2, <1>3, <2>1 DEF InPacket
<1>5. \A i \in DOMAIN q : q[i].msg = n /\ q[i].at = i
  BY <1>3
<1>6. n \in Nat
  BY DEF Messages
<1>7. Packed(ms, q)
  BY <1>1, <1>3, <1>4, <1>5, <1>6 DEF Packed
<1> QED BY <1>2, <1>5, <1>7 DEF q

\* A message more changes no packet.
LEMMA PackedMore ==
  ASSUME NEW ms \in Messages, NEW m \in [host : Hosts, shape : Shapes], NEW q, Packed(ms, q)
  PROVE  Packed(Append(ms, m), q)
<1> DEFINE ms1 == Append(ms, m)
<1>1. \A n \in DOMAIN ms : n \in DOMAIN ms1 /\ T(ms1, n) = T(ms, n)
  BY DEF Messages, T
<1> HIDE DEF ms1
<1>2. \A i \in DOMAIN q : InPacket(ms1, q, i)
  BY <1>1 DEF Packed, InPacket
<1> QED BY <1>2 DEF Packed, ms1

\* One stream after the other.
LEMMA Cat ==
  ASSUME NEW ms \in Messages, NEW q \in Bytes(ms), NEW r \in Bytes(ms)
  PROVE  /\ q \o r \in Bytes(ms) /\ Len(q \o r) = Len(q) + Len(r)
         /\ \A i \in DOMAIN q : i \in DOMAIN (q \o r) /\ (q \o r)[i] = q[i]
         /\ \A i \in DOMAIN r : Len(q) + i \in DOMAIN (q \o r) /\ (q \o r)[Len(q) + i] = r[i]
         /\ \A i \in DOMAIN (q \o r) : i \in DOMAIN q \/ (i > Len(q) /\ i - Len(q) \in DOMAIN r)
<1> DEFINE c == q \o r  S == Numbered(ms)
<1>1. q \in Seq(S) /\ r \in Seq(S)
  BY DEF Bytes
<1> HIDE DEF S
<1>2. /\ c \in Seq(S) /\ Len(c) = Len(q) + Len(r)
      /\ \A i \in 1..(Len(q) + Len(r)) : c[i] = IF i <= Len(q) THEN q[i] ELSE r[i - Len(q)]
  BY <1>1, ConcatProperties
<1>3. /\ DOMAIN q = 1..Len(q) /\ DOMAIN r = 1..Len(r) /\ Len(q) \in Nat /\ Len(r) \in Nat
      /\ DOMAIN c = 1..(Len(q) + Len(r))
  BY <1>1, <1>2
<1> HIDE DEF c
<1>4. ASSUME NEW i \in DOMAIN q PROVE i \in DOMAIN c /\ c[i] = q[i]
  <2>1. i \in 1..(Len(q) + Len(r)) /\ i <= Len(q)
    BY <1>3
  <2> QED BY <1>2, <1>3, <2>1
<1>5. ASSUME NEW i \in DOMAIN r PROVE Len(q) + i \in DOMAIN c /\ c[Len(q) + i] = r[i]
  <2>1. Len(q) + i \in 1..(Len(q) + Len(r)) /\ ~(Len(q) + i <= Len(q)) /\ (Len(q) + i) - Len(q) = i
    BY <1>3
  <2> QED BY <1>2, <1>3, <2>1
<1>6. ASSUME NEW i \in DOMAIN c PROVE i \in DOMAIN q \/ (i > Len(q) /\ i - Len(q) \in DOMAIN r)
  <2>1. Len(q) \in Nat /\ Len(r) \in Nat /\ i \in 1..(Len(q) + Len(r))
    BY <1>3
  <2>2. i \in 1..Len(q) \/ (i > Len(q) /\ i - Len(q) \in 1..Len(r))
    BY <2>1
  <2> QED BY <1>3, <2>2
<1> QED BY <1>2, <1>4, <1>5, <1>6 DEF c, S, Bytes

\* What is older than both is older than the two.
LEMMA BeforeCat ==
  ASSUME NEW ms \in Messages, NEW q \in Bytes(ms), NEW r \in Bytes(ms), NEW o
  PROVE  /\ Before(o, q) /\ Before(o, r) => Before(o, q \o r)
         /\ Before(q, o) /\ Before(r, o) => Before(q \o r, o)
<1> DEFINE c == q \o r
<1>1. ASSUME NEW i \in DOMAIN c
      PROVE  (\E j \in DOMAIN q : c[i] = q[j]) \/ (\E j \in DOMAIN r : c[i] = r[j])
  <2>1. i \in Nat /\ Len(q) \in Nat
    BY DEF Bytes
  <2>2. i = Len(q) + (i - Len(q))
    BY <2>1
  <2> QED BY <2>2, Cat
<1> HIDE DEF c
<1>2. (Before(o, q) /\ Before(o, r) => Before(o, c)) /\ (Before(q, o) /\ Before(r, o) => Before(c, o))
  BY <1>1 DEF Before
<1> QED BY <1>2 DEF c

\* Whole packets after whole packets that are older.
LEMMA PackedCat ==
  ASSUME NEW ms \in Messages, NEW q \in Bytes(ms), NEW r \in Bytes(ms),
         Packed(ms, q), Packed(ms, r), Before(q, r)
  PROVE  Packed(ms, q \o r)
<1> DEFINE c == q \o r  N == Len(q)
<1>0. N \in Nat /\ Len(r) \in Nat /\ DOMAIN q = 1..N /\ DOMAIN r = 1..Len(r)
  BY DEF Bytes
<1>1. /\ c \in Bytes(ms) /\ Len(c) = N + Len(r)
      /\ \A i \in DOMAIN q : i \in DOMAIN c /\ c[i] = q[i]
      /\ \A i \in DOMAIN r : N + i \in DOMAIN c /\ c[N + i] = r[i]
      /\ \A i \in DOMAIN c : i \in DOMAIN q \/ (i > N /\ i - N \in DOMAIN r)
  BY Cat
<1> HIDE DEF c, N
<1>2. ASSUME NEW i \in DOMAIN q PROVE InPacket(ms, c, i)
  <2> DEFINE n == q[i].msg  start == i - q[i].at
  <2>1. /\ n \in DOMAIN ms /\ q[i].at \in 1..T(ms, n)
        /\ 0 <= start /\ start + T(ms, n) <= N
        /\ \A k \in 1..T(ms, n) : q[start + k] = [msg |-> n, at |-> k]
    BY DEF Packed, InPacket, N
  <2>2. c[i] = q[i] /\ start \in Int /\ T(ms, n) \in Nat
    BY <1>0, <1>1, <2>1, ByteOK, LengthOK
  <2>3. \A k \in 1..T(ms, n) : start + k \in DOMAIN q
    <3> HIDE DEF n, start
    <3> QED BY <1>0, <2>1, <2>2
  <2>4. \A k \in 1..T(ms, n) : c[start + k] = [msg |-> n, at |-> k]
    BY <1>1, <2>1, <2>3
  <2>5. start + T(ms, n) <= Len(c)
    <3> HIDE DEF n, start
    <3> QED BY <1>0, <1>1, <2>1, <2>2
  <2> QED BY <2>1, <2>2, <2>4, <2>5 DEF InPacket
<1>3. ASSUME NEW i \in DOMAIN r PROVE InPacket(ms, c, N + i)
  <2> DEFINE n == r[i].msg  start == i - r[i].at
  <2>1. /\ n \in DOMAIN ms /\ r[i].at \in 1..T(ms, n)
        /\ 0 <= start /\ start + T(ms, n) <= Len(r)
        /\ \A k \in 1..T(ms, n) : r[start + k] = [msg |-> n, at |-> k]
    BY DEF Packed, InPacket
  <2>2. c[N + i] = r[i] /\ start \in Int /\ T(ms, n) \in Nat /\ r[i].at \in Nat /\ i \in Nat
    BY <1>0, <1>1, <2>1, ByteOK, LengthOK
  <2>3. (N + i) - r[i].at = N + start
    BY <1>0, <2>2
  <2>4. \A k \in 1..T(ms, n) : start + k \in DOMAIN r /\ N + (start + k) = (N + start) + k
    <3> HIDE DEF n, start
    <3> QED BY <1>0, <2>1, <2>2
  <2>5. \A k \in 1..T(ms, n) : c[(N + start) + k] = [msg |-> n, at |-> k]
    BY <1>1, <2>1, <2>4
  <2>6. 0 <= N + start /\ (N + start) + T(ms, n) <= Len(c)
    <3> HIDE DEF n, start
    <3> QED BY <1>0, <1>1, <2>1, <2>2
  <2> HIDE DEF start
  <2> QED BY <2>1, <2>2, <2>3, <2>5, <2>6 DEF InPacket
<1>4. ASSUME NEW i \in DOMAIN c
      PROVE  i \in DOMAIN q \/ (i - N \in DOMAIN r /\ i = N + (i - N) /\ i > N)
  <2>1. i \in Nat
    BY <1>1, ByteOK
  <2> QED BY <1>0, <1>1, <2>1
<1>5. \A i \in DOMAIN c : InPacket(ms, c, i)
  BY <1>2, <1>3, <1>4
<1>6. ASSUME NEW i \in DOMAIN q, NEW j \in DOMAIN r PROVE c[i].msg < c[N + j].msg
  BY <1>1 DEF Before
<1>7. ASSUME NEW i \in DOMAIN c, NEW j \in DOMAIN c PROVE i < j => c[i].msg <= c[j].msg
  <2>0. /\ c[i].msg \in Nat /\ c[j].msg \in Nat /\ i \in Nat /\ j \in Nat
    BY <1>1, ByteOK
  <2>1. CASE i \in DOMAIN q /\ j \in DOMAIN q
    BY <1>1, <2>1 DEF Packed
  <2>2. CASE i \in DOMAIN q /\ j - N \in DOMAIN r /\ j = N + (j - N)
    <3>1. c[i].msg < c[N + (j - N)].msg
      BY <1>6, <2>2
    <3> QED BY <2>0, <2>2, <3>1
  <2>3. CASE i > N /\ j \in DOMAIN q
    BY <1>0, <2>0, <2>3
  <2>4. CASE i - N \in DOMAIN r /\ i = N + (i - N) /\ j - N \in DOMAIN r /\ j = N + (j - N)
    <3>1. c[i] = r[i - N] /\ c[j] = r[j - N] /\ (i < j => i - N < j - N)
      BY <1>0, <1>1, <2>0, <2>4
    <3> QED BY <2>4, <3>1 DEF Packed
  <2> QED BY <1>4, <2>1, <2>2, <2>3, <2>4
<1>8. ASSUME NEW i \in DOMAIN c, NEW j \in DOMAIN c, c[i].msg = c[j].msg
      PROVE  i - c[i].at = j - c[j].at
  <2>0. /\ c[i].msg \in Nat /\ c[j].msg \in Nat /\ i \in Nat /\ j \in Nat
        /\ c[i].at \in Nat /\ c[j].at \in Nat
    BY <1>1, ByteOK
  <2>1. CASE i \in DOMAIN q /\ j \in DOMAIN q
    <3>1. c[i] = q[i] /\ c[j] = q[j]
      BY <1>1, <2>1
    <3>2. i - q[i].at = j - q[j].at
      BY <1>8, <2>1, <3>1 DEF Packed
    <3> QED BY <3>1, <3>2
  <2>2. CASE i \in DOMAIN q /\ j - N \in DOMAIN r /\ j = N + (j - N)
    <3>1. c[i].msg < c[N + (j - N)].msg
      BY <1>6, <2>2
    <3> QED BY <1>8, <2>0, <2>2, <3>1
  <2>3. CASE i - N \in DOMAIN r /\ i = N + (i - N) /\ j \in DOMAIN q
    <3>1. c[j].msg < c[N + (i - N)].msg
      BY <1>6, <2>3
    <3> QED BY <1>8, <2>0, <2>3, <3>1
  <2>4. CASE i - N \in DOMAIN r /\ i = N + (i - N) /\ j - N \in DOMAIN r /\ j = N + (j - N)
    <3>1. c[i] = r[i - N] /\ c[j] = r[j - N]
      BY <1>1, <2>4
    <3>2. (i - N) - r[i - N].at = (j - N) - r[j - N].at
      BY <1>8, <2>4, <3>1 DEF Packed
    <3>3. (i - N) - c[i].at = (j - N) - c[j].at
      BY <3>1, <3>2
    <3>4. /\ N \in Nat /\ i \in Nat /\ j \in Nat /\ c[i].at \in Nat /\ c[j].at \in Nat
      BY <1>0, <2>0
    <3> QED BY <3>3, <3>4
  <2> QED BY <1>4, <2>1, <2>2, <2>3, <2>4
<1>9. Packed(ms, c)
  BY <1>5, <1>7, <1>8 DEF Packed
<1> QED BY <1>9 DEF c

\* A stream begins with a whole packet; what follows is packed and newer.
LEMMA PackedFirst ==
  ASSUME NEW ms \in Messages, NEW q \in Bytes(ms), Packed(ms, q), q # <<>>
  PROVE  LET n == q[1].msg
             total == T(ms, n)
             rest == SubSeq(q, total + 1, Len(q))
         IN  /\ n \in DOMAIN ms /\ total \in Nat /\ 1 <= total /\ total <= Len(q)
             /\ \A k \in 1..total : q[k] = [msg |-> n, at |-> k]
             /\ rest \in Bytes(ms) /\ Packed(ms, rest) /\ Len(rest) <= Len(q)
             /\ \A i \in DOMAIN rest : rest[i].msg > n
             /\ \A i \in DOMAIN rest : \E j \in DOMAIN q : rest[i] = q[j]
<1> DEFINE n == q[1].msg  L == T(ms, n)  rest == SubSeq(q, L + 1, Len(q))
<1>0. Len(q) \in Nat /\ DOMAIN q = 1..Len(q) /\ Len(q) >= 1 /\ 1 \in DOMAIN q
  BY DEF Bytes
<1>1. /\ n \in DOMAIN ms /\ q[1].at \in 1..L /\ 0 <= 1 - q[1].at /\ (1 - q[1].at) + L <= Len(q)
      /\ \A k \in 1..L : q[(1 - q[1].at) + k] = [msg |-> n, at |-> k]
  BY <1>0 DEF Packed, InPacket
<1>2. L \in Nat /\ 1 <= L /\ n \in Nat
  BY <1>0, <1>1, LengthOK, ByteOK
<1> HIDE DEF L
<1>3. q[1].at = 1
  BY <1>1, <1>2
<1>4. L <= Len(q) /\ \A k \in 1..L : q[k] = [msg |-> n, at |-> k]
  BY <1>0, <1>1, <1>2, <1>3
<1> HIDE DEF n
<1>5. /\ rest \in Bytes(ms) /\ Len(rest) = Len(q) - L
      /\ DOMAIN rest = 1..(Len(q) - L)
      /\ \A i \in 1..(Len(q) - L) : L + i \in DOMAIN q /\ rest[i] = q[L + i]
  <2>1. L + 1 \in Nat \ {0} /\ Len(q) \in Int /\ Len(q) - (L + 1) + 1 = Len(q) - L
    BY <1>0, <1>2
  <2>2. rest \in Bytes(ms)
    BY <2>1, PartOK DEF Bytes
  <2>3. \A i \in 1..(Len(q) - L) : L + i \in DOMAIN q /\ (L + 1) + i - 1 = L + i
    BY <1>0, <1>2
  <2>4. Len(rest) = Len(q) - L /\ \A i \in 1..(Len(q) - L) : rest[i] = q[(L + 1) + i - 1]
    <3>1. \A i \in (L + 1)..Len(q) : q[i] \in Numbered(ms)
      BY <1>2, <2>1 DEF Bytes
    <3>2. Len(rest) = IF L + 1 <= Len(q) THEN Len(q) - (L + 1) + 1 ELSE 0
      BY <2>1, <3>1, SubSeqProperties
    <3>3. \A i \in 1..(Len(q) - (L + 1) + 1) : rest[i] = q[(L + 1) + i - 1]
      BY <2>1, <3>1, SubSeqProperties
    <3> HIDE DEF rest
    <3>4. Len(rest) = Len(q) - L
      <4>1. Len(q) \in Nat /\ L \in Nat /\ L <= Len(q)
        BY <1>0, <1>2, <1>4
      <4> QED BY <3>2, <4>1
    <3>5. 1..(Len(q) - (L + 1) + 1) = 1..(Len(q) - L)
      BY <2>1
    <3> QED BY <3>3, <3>4, <3>5
  <2>5. DOMAIN rest = 1..Len(rest)
    BY <2>2 DEF Bytes
  <2> HIDE DEF rest
  <2> QED BY <2>2, <2>3, <2>4, <2>5
<1> HIDE DEF rest
<1>6. ASSUME NEW j \in DOMAIN q, j > L
      PROVE  q[j].msg > n /\ j - q[j].at >= L
  <2> DEFINE h == q[j].msg  start == j - q[j].at
  <2>1. /\ h \in DOMAIN ms /\ q[j].at \in 1..T(ms, h) /\ 0 <= start
        /\ start + T(ms, h) <= Len(q)
        /\ \A k \in 1..T(ms, h) : q[start + k] = [msg |-> h, at |-> k]
    BY DEF Packed, InPacket
  <2>2. h \in Nat /\ j \in Nat /\ q[j].at \in Nat /\ T(ms, h) \in Nat /\ T(ms, h) >= 1
    BY <2>1, ByteOK, LengthOK
  <2>3. n <= h
    BY <1>0, <1>2, <1>6, <2>2 DEF Packed, n
  <2>4. h # n
    <3>1. h = n => j - q[j].at = 1 - q[1].at
      BY <1>0 DEF Packed, n
    <3> QED BY <1>2, <1>3, <1>6, <2>1, <2>2, <3>1 DEF L
  <2>5. start >= L
    <3>1. ASSUME start < L PROVE FALSE
      <4>1. start \in Int /\ start + 1 \in 1..L /\ 1 \in 1..T(ms, h)
        BY <1>2, <2>1, <2>2, <3>1
      <4> HIDE DEF start, h
      <4>2. q[start + 1] = [msg |-> n, at |-> start + 1]
        BY <1>4, <4>1
      <4>3. q[start + 1] = [msg |-> h, at |-> 1]
        BY <2>1, <4>1
      <4>4. [msg |-> n, at |-> start + 1].msg = n /\ [msg |-> h, at |-> 1].msg = h
        OBVIOUS
      <4> QED BY <2>4, <4>2, <4>3, <4>4, Zenon
    <3> QED BY <1>2, <2>2, <3>1
  <2> QED BY <1>2, <2>2, <2>3, <2>4, <2>5
<1>7. ASSUME NEW i \in DOMAIN rest
      PROVE  /\ i \in Nat /\ L + i \in DOMAIN q /\ L + i > L /\ rest[i] = q[L + i]
             /\ rest[i].msg > n /\ q[L + i].at \in Nat /\ (L + i) - q[L + i].at >= L
  <2>1. i \in Nat /\ L + i \in DOMAIN q /\ L + i > L /\ rest[i] = q[L + i]
    BY <1>2, <1>5
  <2> QED BY <1>6, <2>1, ByteOK
<1>8. ASSUME NEW i \in DOMAIN rest PROVE InPacket(ms, rest, i)
  <2> DEFINE h == rest[i].msg  at == rest[i].at  start == i - at  H == T(ms, h)
  <2>1. h = q[L + i].msg /\ at = q[L + i].at /\ at \in Nat /\ i \in Nat
    BY <1>7
  <2>2. InPacket(ms, q, L + i)
    BY <1>7 DEF Packed
  <2>3. /\ h \in DOMAIN ms /\ at \in 1..H /\ ((L + i) - at) + H <= Len(q)
        /\ \A k \in 1..H : q[((L + i) - at) + k] = [msg |-> h, at |-> k]
    BY <2>1, <2>2 DEF InPacket
  <2>4. (L + i) - at >= L /\ H \in Nat
    BY <1>7, <2>1, <2>3, LengthOK
  <2> HIDE DEF h, at, H
  <2>5. start \in Int /\ 0 <= start /\ (L + i) - at = L + start /\ start + H <= Len(rest)
    <3>1. /\ i \in Nat /\ at \in Nat /\ L \in Nat /\ H \in Nat /\ Len(q) \in Nat
          /\ Len(rest) = Len(q) - L
      BY <1>0, <1>2, <1>5, <2>1, <2>4
    <3>2. ((L + i) - at) + H <= Len(q) /\ (L + i) - at >= L
      BY <2>3, <2>4
    <3> QED BY <3>1, <3>2
  <2>6. ASSUME NEW k \in 1..H PROVE rest[start + k] = [msg |-> h, at |-> k]
    <3>1. start + k \in 1..(Len(q) - L) /\ L + (start + k) = ((L + i) - at) + k
      BY <1>0, <1>2, <1>5, <2>4, <2>5
    <3>2. rest[start + k] = q[L + (start + k)]
      BY <1>5, <3>1
    <3> QED BY <2>3, <3>1, <3>2
  <2> HIDE DEF start
  <2>7. start = i - rest[i].at /\ h = rest[i].msg /\ H = T(ms, rest[i].msg) /\ at = rest[i].at
    BY DEF start, at, h, H
  <2> QED BY <2>3, <2>5, <2>6, <2>7 DEF InPacket
<1>9. \A i, j \in DOMAIN rest : i < j => rest[i].msg <= rest[j].msg
  <2>1. \A i, j \in DOMAIN rest : i < j => L + i < L + j
    BY <1>2, <1>7
  <2> QED BY <1>7, <2>1 DEF Packed
<1>10. ASSUME NEW i \in DOMAIN rest, NEW j \in DOMAIN rest, rest[i].msg = rest[j].msg
       PROVE  i - rest[i].at = j - rest[j].at
  <2>1. (L + i) - q[L + i].at = (L + j) - q[L + j].at
    BY <1>7, <1>10 DEF Packed
  <2>2. rest[i].at = q[L + i].at /\ rest[j].at = q[L + j].at
        /\ q[L + i].at \in Nat /\ q[L + j].at \in Nat /\ i \in Nat /\ j \in Nat
    BY <1>7
  <2> QED BY <1>2, <2>1, <2>2
<1>11. Packed(ms, rest)
  BY <1>8, <1>9, <1>10 DEF Packed
<1>12. \A i \in DOMAIN rest : \E j \in DOMAIN q : rest[i] = q[j]
  BY <1>7
<1>13. Len(rest) <= Len(q)
  BY <1>0, <1>2, <1>5
<1> QED BY <1>1, <1>2, <1>4, <1>5, <1>7, <1>11, <1>12, <1>13 DEF n, L, rest

-----------------------------------------------------------------------------
(* Buffers of whole packets.                                               *)

\* The buffers of a connection, from what was read to what is not written yet,
\* hold whole packets, the older ones first.
Whole(ms, read, pipe, unsent) ==
  /\ Packed(ms, read) /\ Packed(ms, pipe) /\ Packed(ms, unsent)
  /\ Before(read, pipe) /\ Before(read, unsent) /\ Before(pipe, unsent)

\* The beginning of a stream is that of its first packet.
LEMMA SamePrefix ==
  ASSUME NEW ms \in Messages, NEW q \in Bytes(ms), NEW n \in DOMAIN ms, NEW h \in Nat,
         h <= T(ms, n), T(ms, n) <= Len(q),
         \A k \in 1..T(ms, n) : q[k] = [msg |-> n, at |-> k]
  PROVE  SubSeq(q, 1, h) = SubSeq(to_bytes(n, ms[n].shape), 1, h)
<1> DEFINE p == to_bytes(n, ms[n].shape)  S == Numbered(ms)
<1>1. T(ms, n) \in Nat /\ p = [k \in 1..T(ms, n) |-> [msg |-> n, at |-> k]]
  BY LengthOK DEF to_bytes, T
<1>2. \A k \in 1..T(ms, n) : p[k] = q[k]
  BY <1>1
<1> HIDE DEF p
<1>3. q \in Seq(S) /\ Len(q) \in Nat
  BY DEF Bytes
<1> HIDE DEF S
<1>4. \A k \in 1..h : k \in 1..T(ms, n) /\ q[k] \in S /\ p[k] \in S
  BY <1>1, <1>2, <1>3
<1>5. h - 1 + 1 = h /\ (IF 1 <= h THEN h - 1 + 1 ELSE 0) = h /\ h \in Int
  OBVIOUS
<1>6. /\ SubSeq(q, 1, h) \in Seq(S) /\ Len(SubSeq(q, 1, h)) = h
      /\ \A k \in 1..h : SubSeq(q, 1, h)[k] = q[1 + k - 1]
  BY <1>4, <1>5, SubSeqProperties
<1>7. /\ SubSeq(p, 1, h) \in Seq(S) /\ Len(SubSeq(p, 1, h)) = h
      /\ \A k \in 1..h : SubSeq(p, 1, h)[k] = p[1 + k - 1]
  BY <1>4, <1>5, SubSeqProperties
<1>8. ASSUME NEW k \in 1..h PROVE SubSeq(q, 1, h)[k] = SubSeq(p, 1, h)[k]
  <2>1. 1 + k - 1 = k
    OBVIOUS
  <2>2. p[k] = q[k]
    BY <1>2, <1>4
  <2> QED BY <1>6, <1>7, <2>1, <2>2
<1>9. SubSeq(q, 1, h) = SubSeq(p, 1, h)
  BY <1>6, <1>7, <1>8, SeqEqual
<1> QED BY <1>9 DEF p

\* What from_bytes makes of whole packets: the first one, when there is one and
\* it is not too long.
LEMMA FromWhole ==
  ASSUME sent \in Messages, NEW buf \in Bytes(sent), Packed(sent, buf),
         NEW r \in from_bytes(buf, 0)
  PROVE  \/ r = None(0)
         \/ r = [is |-> "Err"] /\ \E n \in DOMAIN sent : Total(sent[n].shape) > Limit
         \/ /\ buf # <<>>
            /\ r = [is |-> "Some", msg |-> buf[1].msg,
                    rest |-> SubSeq(buf, T(sent, buf[1].msg) + 1, Len(buf))]
<1> DEFINE n == buf[1].msg  L == T(sent, n)  header == SubSeq(buf, 1, Header)
<1>0. Len(buf) \in Nat /\ Len(<<>>) = 0
  BY DEF Bytes
<1>1. CASE Len(buf) <= Header
  BY <1>1 DEF from_bytes
<1>2. CASE ~(Len(buf) <= Header)
  <2>1. buf # <<>> /\ Len(buf) - 0 >= Header /\ 0 + 1 = 1 /\ 0 + Header = Header
    BY <1>0, <1>2, Numbers
  <2>2. /\ n \in DOMAIN sent /\ L \in Nat /\ 1 <= L /\ L <= Len(buf)
        /\ \A k \in 1..L : buf[k] = [msg |-> n, at |-> k]
    BY <2>1, PackedFirst
  <2>3. L >= Header /\ L = Total(sent[n].shape)
    BY <2>2, LengthOK DEF T
  <2>4. header = SubSeq(to_bytes(n, sent[n].shape), 1, Header)
    <3> HIDE DEF n
    <3>1. Header \in Nat /\ Header <= T(sent, n) /\ T(sent, n) <= Len(buf)
      BY <2>2, <2>3, Numbers
    <3> QED BY <2>2, <3>1, SamePrefix
  <2>5. header[1].msg = n
    <3>1. header[1] = buf[1]
      <4>1. \A k \in 1..Header : buf[k] \in Numbered(sent)
        BY <1>0, <1>2, Numbers DEF Bytes
      <4>2. \A k \in 1..(Header - 1 + 1) : header[k] = buf[1 + k - 1]
        BY <4>1, Numbers, SubSeqProperties
      <4>3. 1 \in 1..(Header - 1 + 1) /\ 1 + 1 - 1 = 1
        BY Numbers
      <4> HIDE DEF header
      <4> QED BY <4>2, <4>3
    <3> QED BY <3>1
  <2> HIDE DEF header
  <2>6. Totals(header) = {L}
    BY <2>3, <2>4, <2>5 DEF Totals
  <2> DEFINE found == SubSeq(buf, 1, L)  rest == SubSeq(buf, L + 1, Len(buf))
  <2>7. r = IF TooLong(L) THEN [is |-> "Err"]
            ELSE IF Len(buf) < L THEN None(Header)
            ELSE IF Len(buf) < L THEN [is |-> "panic"]
            ELSE [is |-> "Some", msg |-> Message(found), rest |-> rest]
    <3> HIDE DEF L
    <3>1. 0 + L + 1 = L + 1 /\ 0 + L = L /\ Len(buf) - 0 = Len(buf)
      BY <1>0, <2>2
    <3> QED BY <1>2, <2>1, <2>6, <3>1, Numbers DEF from_bytes, header
  <2>8. Message(found) = n
    <3>1. found = to_bytes(n, sent[n].shape)
      <4> DEFINE p == to_bytes(n, sent[n].shape)
      <4>1. p \in Bytes(sent) /\ Len(p) = L
        BY <2>2, PackedOne
      <4>2. found = SubSeq(p, 1, L)
        <5> HIDE DEF n
        <5>1. T(sent, n) <= T(sent, n)
          BY <2>2
        <5> QED BY <2>2, <5>1, SamePrefix
      <4>3. SubSeq(p, 1, L) = p
        <5> HIDE DEF p, L
        <5> QED BY <4>1, SubSeqFull DEF Bytes
      <4> QED BY <4>2, <4>3
    <3>2. found[1].msg = n
      <4>1. sent[n].shape \in Shapes
        BY <2>2, ShapeOK DEF Messages
      <4>2. to_bytes(n, sent[n].shape)[1].msg = n
        <5> HIDE DEF n
        <5> QED BY <2>2, <4>1, PacketBytes DEF Messages
      <4> QED BY <3>1, <4>2
    <3> HIDE DEF found
    <3> QED BY <2>2, <3>1, <3>2 DEF Message
  <2> HIDE DEF found, rest
  <2>9. CASE TooLong(L)
    BY <2>2, <2>3, <2>7, <2>9 DEF TooLong
  <2>10. CASE ~TooLong(L)
    <3>1. ~(Len(buf) < L)
      BY <1>0, <2>2
    <3>2. r = [is |-> "Some", msg |-> n, rest |-> rest]
      BY <2>7, <2>8, <2>10, <3>1
    <3> QED BY <2>1, <3>2 DEF rest
  <2> QED BY <2>9, <2>10
<1> QED BY <1>1, <1>2

-----------------------------------------------------------------------------
(* What becomes of the buffers of a connection.                            *)

\* A message more is put after what is not written yet, or its packet is lost.
LEMMA WholeSent ==
  ASSUME NEW ms \in Messages, NEW m \in [host : Hosts, shape : Shapes],
         NEW b \in Bytes(ms), NEW p \in Bytes(ms), NEW u \in Bytes(ms), Whole(ms, b, p, u)
  PROVE  LET q == to_bytes(Len(ms) + 1, m.shape)
         IN  /\ Whole(Append(ms, m), b, p, u) /\ Whole(Append(ms, m), b, p, u \o q)
             /\ Len(u \o q) = Len(u) + Total(m.shape)
             /\ \A i \in DOMAIN q : q[i].msg = Len(ms) + 1
<1> DEFINE ms1 == Append(ms, m)  n == Len(ms) + 1  q == to_bytes(n, m.shape)
<1>1. ms1 \in Messages /\ n \in DOMAIN ms1 /\ ms1[n] = m
  BY DEF Messages
<1> HIDE DEF ms1
<1>2. /\ q \in Bytes(ms1) /\ Len(q) = Total(m.shape) /\ Packed(ms1, q)
      /\ \A i \in DOMAIN q : q[i].msg = n
  BY <1>1, PackedOne DEF T
<1>3. \A o \in Bytes(ms) : o \in Bytes(ms1)
  BY MoreBytes DEF ms1, Messages
<1>4. Packed(ms1, b) /\ Packed(ms1, p) /\ Packed(ms1, u)
  BY PackedMore DEF Whole, ms1
<1>5. ASSUME NEW o \in Bytes(ms) PROVE Before(o, q)
  <2>1. \A i \in DOMAIN o : o[i].msg < n
    <3>1. \A i \in DOMAIN o : o[i].msg \in DOMAIN ms
      BY ByteOK
    <3>2. DOMAIN ms = 1..Len(ms) /\ Len(ms) \in Nat
      BY DEF Messages
    <3> QED BY <3>1, <3>2
  <2> QED BY <1>2, <2>1 DEF Before
<1> HIDE DEF q, n
<1>6. Packed(ms1, u \o q)
  BY <1>1, <1>2, <1>3, <1>4, <1>5, PackedCat
<1>7. Before(b, u \o q) /\ Before(p, u \o q)
  <2>1. Before(b, u) /\ Before(p, u)
    BY DEF Whole
  <2> QED BY <1>1, <1>2, <1>3, <1>5, <2>1, BeforeCat
<1>8. Len(u \o q) = Len(u) + Len(q)
  BY <1>1, <1>2, <1>3, Cat
<1> QED BY <1>2, <1>4, <1>6, <1>7, <1>8 DEF Whole, ms1, q, n

\* A buffer is emptied.
LEMMA WholeLost ==
  ASSUME NEW ms, NEW b, NEW p, NEW u, Whole(ms, b, p, u)
  PROVE  Whole(ms, b, p, <<>>) /\ Whole(ms, <<>>, <<>>, u)
<1>1. Packed(ms, <<>>) /\ DOMAIN <<>> = {}
  BY PackedEmpty
<1> QED BY <1>1 DEF Whole, Before

\* All that the client has is written.
LEMMA WholeWritten ==
  ASSUME NEW ms \in Messages, NEW b \in Bytes(ms), NEW p \in Bytes(ms), NEW u \in Bytes(ms),
         Whole(ms, b, p, u)
  PROVE  Whole(ms, b, p \o u, <<>>)
<1>1. /\ Packed(ms, b) /\ Packed(ms, p) /\ Packed(ms, u)
      /\ Before(b, p) /\ Before(b, u) /\ Before(p, u)
  BY DEF Whole
<1>2. Packed(ms, p \o u) /\ Before(b, p \o u)
  BY <1>1, PackedCat, BeforeCat
<1>3. Packed(ms, <<>>) /\ Before(b, <<>>) /\ Before(p \o u, <<>>)
  BY PackedEmpty DEF Before
<1> QED BY <1>1, <1>2, <1>3 DEF Whole

\* All that is on its way is read.
LEMMA WholeRead ==
  ASSUME NEW ms \in Messages, NEW b \in Bytes(ms), NEW p \in Bytes(ms), NEW u \in Bytes(ms),
         Whole(ms, b, p, u)
  PROVE  Whole(ms, b \o p, <<>>, u)
<1>1. /\ Packed(ms, b) /\ Packed(ms, p) /\ Packed(ms, u)
      /\ Before(b, p) /\ Before(b, u) /\ Before(p, u)
  BY DEF Whole
<1>2. Packed(ms, b \o p) /\ Before(b \o p, u)
  BY <1>1, PackedCat, BeforeCat
<1>3. Packed(ms, <<>>) /\ Before(<<>>, u) /\ Before(b \o p, <<>>)
  BY PackedEmpty DEF Before
<1> QED BY <1>1, <1>2, <1>3 DEF Whole

\* The first packet is taken out; all others are of newer messages.
LEMMA WholeParsed ==
  ASSUME NEW ms \in Messages, NEW b \in Bytes(ms), NEW p \in Bytes(ms), NEW u \in Bytes(ms),
         Whole(ms, b, p, u), b # <<>>
  PROVE  LET n == b[1].msg
             rest == SubSeq(b, T(ms, n) + 1, Len(b))
         IN  /\ Whole(ms, rest, p, u) /\ n \in DOMAIN ms
             /\ \A i \in DOMAIN rest : n < rest[i].msg
             /\ \A i \in DOMAIN p : n < p[i].msg
             /\ \A i \in DOMAIN u : n < u[i].msg
<1> DEFINE n == b[1].msg  rest == SubSeq(b, T(ms, n) + 1, Len(b))
<1>1. /\ Packed(ms, b) /\ Packed(ms, p) /\ Packed(ms, u)
      /\ Before(b, p) /\ Before(b, u) /\ Before(p, u)
  BY DEF Whole
<1>2. /\ n \in DOMAIN ms /\ rest \in Bytes(ms) /\ Packed(ms, rest)
      /\ \A i \in DOMAIN rest : rest[i].msg > n
      /\ \A i \in DOMAIN rest : \E j \in DOMAIN b : rest[i] = b[j]
  BY <1>1, PackedFirst
<1>3. 1 \in DOMAIN b
  BY DEF Bytes
<1>4. \A i \in DOMAIN p : n < p[i].msg
  BY <1>1, <1>3 DEF Before
<1>5. \A i \in DOMAIN u : n < u[i].msg
  BY <1>1, <1>3 DEF Before
<1>6. \A i \in DOMAIN rest : n < rest[i].msg
  <2>1. n \in Nat /\ \A i \in DOMAIN rest : rest[i].msg \in Nat
    BY <1>2, <1>3, ByteOK
  <2> HIDE DEF n, rest
  <2> QED BY <1>2, <2>1
<1> HIDE DEF n, rest
<1>7. Before(rest, p) /\ Before(rest, u)
  BY <1>1, <1>2 DEF Before
<1>8. Whole(ms, rest, p, u)
  BY <1>1, <1>2, <1>7 DEF Whole
<1> QED BY <1>2, <1>4, <1>5, <1>6, <1>8 DEF n, rest

-----------------------------------------------------------------------------
(* Where packets fit.                                                      *)

\* No packet is longer than max bytes, and as many of them as are ever sent fit
\* one write, and what fits one write one read.
FitIn(max) ==
  /\ max \in Nat /\ \A shape \in Shapes : Total(shape) <= max
  /\ MaxPuts * max <= Room /\ Room <= ReadSize

\* What the client has for a connection.
Unsent(id) == IF id \in DOMAIN conns THEN conns[id].send_buf ELSE <<>>

\* The parser begins at a packet and ends at one.
WholeAt(id) ==
  Whole(sent, server[id].recv_buf, tcp[id].pipe, Unsent(id)) /\ server[id].pos = 0

\* At most max bytes for each message sent.
ShortAt(id, max) == Len(tcp[id].pipe) + Len(Unsent(id)) <= Len(sent) * max

FitInv(max) ==
  RefusedOnlyTooLong /\ \A id \in Ids : WholeAt(id) /\ ShortAt(id, max)

\* Multiplication grows.
LEMMA Products ==
  ASSUME NEW max \in Nat
  PROVE  /\ \A x \in Nat : (x + 1) * max = x * max + max /\ x * max \in Nat
         /\ \A x, y \in Nat : x <= y => x * max <= y * max
<1>1. \A x \in Nat : (x + 1) * max = x * max + max /\ x * max \in Nat
  OBVIOUS
<1>2. ASSUME NEW x \in Nat, NEW y \in Nat, x <= y PROVE x * max <= y * max
  <2>1. PICK z \in Nat : y = x + z
    <3>1. y - x \in Nat /\ y = x + (y - x)
      BY <1>2
    <3> QED BY <3>1
  <2>2. y * max = x * max + z * max /\ z * max \in Nat /\ x * max \in Nat
    BY <2>1
  <2> QED BY <2>2
<1> QED BY <1>1, <1>2

\* The buffers of a connection.
LEMMA BuffersOK ==
  ASSUME StreamInv, NEW id \in Ids
  PROVE  /\ sent \in Messages /\ Len(sent) \in Nat
         /\ server[id].recv_buf \in Bytes(sent) /\ tcp[id].pipe \in Bytes(sent)
         /\ Unsent(id) \in Bytes(sent)
         /\ Len(tcp[id].pipe) \in Nat /\ Len(Unsent(id)) \in Nat
<1>1. /\ sent \in Messages /\ Len(sent) \in Nat
      /\ server[id].recv_buf \in Bytes(sent) /\ tcp[id].pipe \in Bytes(sent)
  BY DEF StreamInv, ClientInv, ServerOK, TcpOK, ServerConnOf, SocketOf, Messages
<1>2. Unsent(id) \in Bytes(sent)
  <2>1. <<>> \in Bytes(sent)
    BY DEF Bytes
  <2> QED BY <2>1 DEF StreamInv, ConnsOK, Unsent
<1>3. \A q \in Bytes(sent) : Len(q) \in Nat
  BY DEF Bytes
<1> QED BY <1>1, <1>2, <1>3

\* What a message does to the buffers: its packet is in one of them at most.
LEMMA SendEffect ==
  ASSUME StreamInv, NEW host \in Hosts, NEW shape \in Shapes, Send(host, shape), NEW id \in Ids
  PROVE  /\ tcp'[id].pipe = tcp[id].pipe
         /\ \/ Unsent(id)' = Unsent(id) \/ Unsent(id)' = <<>>
            \/ Unsent(id)' = Unsent(id) \o to_bytes(Len(sent) + 1, shape)
<1> DEFINE q == to_bytes(Len(sent) + 1, shape)
<1>0. /\ tcp \in [Ids -> SocketOf(Bytes(sent))] /\ DOMAIN conns \subseteq 1..counter
      /\ counter \in Nat /\ counter < MaxPuts
  <2>1. Len(sent) < MaxPuts
    BY DEF Send
  <2> QED BY <2>1, Numbers DEF StreamInv, TcpOK, ClientInv, SentOK
<1>1. ASSUME NEW conns1, NEW k \in DOMAIN conns1, put(k, shape, conns1),
             \A c \in DOMAIN conns1 : IsConn(conns1[c])
      PROVE  /\ DOMAIN conns' = DOMAIN conns1
             /\ \A c \in DOMAIN conns1 : conns'[c].send_buf =
                  IF c = k THEN conns1[k].send_buf \o q ELSE conns1[c].send_buf
  <2> DEFINE buf == conns1[k].send_buf \o q
  <2>1. conns' = [conns1 EXCEPT ![k] = [conns1[k] EXCEPT !.send_buf = buf]]
    BY <1>1 DEF put
  <2> HIDE DEF buf
  <2>2. [conns1[k] EXCEPT !.send_buf = buf].send_buf = buf
    <3>1. PICK h \in Hosts : conns1[k] = [target |-> h, send_buf |-> conns1[k].send_buf]
      BY <1>1 DEF IsConn
    <3> QED BY <3>1
  <2>3. \A c \in DOMAIN conns1 : conns'[c].send_buf = IF c = k THEN buf ELSE conns1[c].send_buf
    BY <2>1, <2>2
  <2> QED BY <2>1, <2>3 DEF buf
<1>2. \A c \in DOMAIN conns : IsConn(conns[c])
  BY DEF StreamInv, ClientInv
<1> HIDE DEF q
<1>3. CASE Fail
  <2>1. conns' = <<>>
    BY <1>3 DEF Fail
  <2>5. DOMAIN <<>> = {}
    OBVIOUS
  <2>2. tcp'[id] = IF tcp[id].state = "open"
                   THEN [tcp[id] EXCEPT !.state = "closed", !.edge = TRUE] ELSE tcp[id]
    BY <1>3 DEF Fail
  <2>3. [tcp[id] EXCEPT !.state = "closed", !.edge = TRUE].pipe = tcp[id].pipe
    BY <1>0 DEF SocketOf
  <2>4. Unsent(id)' = <<>>
    BY <2>1, <2>5, Zenon DEF Unsent
  <2> QED BY <2>2, <2>3, <2>4
<1>4. CASE SendConnected(host, shape) /\ ~Fail
  <2>1. dest[host] \in DOMAIN conns /\ put(dest[host], shape, conns) /\ UNCHANGED tcp
    BY <1>4 DEF SendConnected
  <2>2. /\ DOMAIN conns' = DOMAIN conns
        /\ \A c \in DOMAIN conns : conns'[c].send_buf =
             IF c = dest[host] THEN conns[dest[host]].send_buf \o q ELSE conns[c].send_buf
    BY <1>1, <1>2, <2>1
  <2> QED BY <2>1, <2>2 DEF Unsent, q
<1>5. CASE connect(host, shape) /\ host \in Unparsable
  <2>1. UNCHANGED <<client, conns, dest, tcp>>
    BY <1>5 DEF connect
  <2>2. UNCHANGED conns /\ UNCHANGED tcp
    BY <2>1
  <2> QED BY <2>2 DEF Unsent
<1>6. CASE connect(host, shape) /\ host \notin Unparsable /\ ~Fail
  <2> DEFINE k == counter + 1
             new == [target |-> Canonical[host], send_buf |-> <<>>]
             conns1 == Insert(conns, k, new)
             state == IF Canonical[host] \in Servers THEN "open" ELSE "refused"
  <2>1. put(k, shape, conns1) /\ tcp' = [tcp EXCEPT ![k].state = state]
    BY <1>6 DEF connect, NextId
  <2>2. k \in Ids /\ k \notin DOMAIN conns
    BY <1>0, Numbers DEF Ids
  <2>3. new.send_buf = <<>> /\ IsConn(new)
    BY RemoteAssumption DEF IsConn
  <2> HIDE DEF new, k
  <2>4. /\ DOMAIN conns1 = DOMAIN conns \cup {k} /\ conns1[k] = new
        /\ \A c \in DOMAIN conns : conns1[c] = conns[c]
    BY <2>2 DEF Insert
  <2> HIDE DEF conns1
  <2>5. \A c \in DOMAIN conns1 : IsConn(conns1[c])
    BY <1>2, <2>3, <2>4
  <2>6. /\ DOMAIN conns' = DOMAIN conns1
        /\ \A c \in DOMAIN conns1 : conns'[c].send_buf =
             IF c = k THEN conns1[k].send_buf \o q ELSE conns1[c].send_buf
    BY <1>1, <2>1, <2>4, <2>5
  <2>7. Unsent(id)' = Unsent(id) \/ Unsent(id)' = Unsent(id) \o q
    BY <2>2, <2>3, <2>4, <2>6 DEF Unsent
  <2>8. tcp'[id].pipe = tcp[id].pipe
    <3> HIDE DEF state
    <3>1. [tcp[k] EXCEPT !.state = state].pipe = tcp[k].pipe
      BY <1>0, <2>2 DEF SocketOf
    <3>2. tcp' = [tcp EXCEPT ![k] = [tcp[k] EXCEPT !.state = state]]
      BY <2>1
    <3> QED BY <1>0, <3>1, <3>2
  <2> QED BY <2>7, <2>8 DEF q
<1> QED BY <1>3, <1>4, <1>5, <1>6 DEF Send

\* What an event of a connection does to its buffers, when all is written at
\* once: everything goes to the socket or is lost, or nothing moves.
LEMMA PollEffect ==
  ASSUME StreamInv, NEW id \in Ids, poll(id),
         Len(tcp[id].pipe) + Len(Unsent(id)) <= Room
  PROVE  /\ \A j \in Ids \ {id} : tcp'[j] = tcp[j] /\ Unsent(j)' = Unsent(j)
         /\ \/ tcp'[id].pipe = tcp[id].pipe /\ (Unsent(id)' = Unsent(id) \/ Unsent(id)' = <<>>)
            \/ /\ tcp'[id].pipe = tcp[id].pipe \o Unsent(id) /\ Unsent(id)' = <<>>
               /\ tcp[id].state = "open"
         /\ tcp'[id].state # tcp[id].state => tcp[id].state = "fin" /\ tcp'[id].state = "reset"
         /\ DOMAIN conns' \subseteq DOMAIN conns
         /\ \A j \in DOMAIN conns' : conns'[j].target = conns[j].target
         /\ \A j \in DOMAIN conns : j \in DOMAIN conns' \/ tcp[j].state \in {"refused", "reset"}
<1> DEFINE buf == conns[id].send_buf  pipe == tcp[id].pipe  state == tcp[id].state
<1>0. /\ tcp \in [Ids -> SocketOf(Bytes(sent))] /\ tcp[id] \in SocketOf(Bytes(sent))
      /\ id \in DOMAIN conns /\ Unsent(id) = buf /\ IsConn(conns[id])
      /\ buf \in Bytes(sent) /\ Len(pipe) \in Nat /\ Len(buf) \in Nat /\ pipe \in Bytes(sent)
  <2>1. id \in DOMAIN conns /\ Unsent(id) = buf
    BY DEF poll, Unsent
  <2> QED BY <2>1, BuffersOK DEF StreamInv, TcpOK, ClientInv
<1>1. state \in {"none", "open", "refused", "closed", "fin", "reset"}
  BY <1>0 DEF SocketOf
<1>2. written(id) = IF state \notin {"open", "fin"} THEN <<>> ELSE buf
  <2>1. Min({Room - Len(pipe), Len(buf)}) = Len(buf)
    <3>1. Len(buf) <= Room - Len(pipe) /\ Room - Len(pipe) \in Int
      <4>1. Len(pipe) \in Nat /\ Len(buf) \in Nat /\ Len(pipe) + Len(buf) <= Room
        BY <1>0
      <4> HIDE DEF pipe, buf
      <4> QED BY <4>1, Numbers
    <3>2. \E m \in {Room - Len(pipe), Len(buf)} : \A k \in {Room - Len(pipe), Len(buf)} : m <= k
      BY <1>0, <3>1
    <3>3. /\ Min({Room - Len(pipe), Len(buf)}) \in {Room - Len(pipe), Len(buf)}
          /\ \A k \in {Room - Len(pipe), Len(buf)} : Min({Room - Len(pipe), Len(buf)}) <= k
      BY <3>2, Zenon DEF Min
    <3> QED BY <1>0, <3>1, <3>3
  <2>2. SubSeq(buf, 1, Len(buf)) = buf
    <3> HIDE DEF buf
    <3> QED BY <1>0, SubSeqFull DEF Bytes
  <2> QED BY <2>1, <2>2 DEF written
<1>3. /\ tcp' = [tcp EXCEPT ![id] = Wrote(tcp[id], written(id))]
      /\ tcp'[id] = Wrote(tcp[id], written(id))
  BY <1>0 DEF poll
<1>4. pipe \o <<>> = pipe
  <2> HIDE DEF pipe
  <2> QED BY <1>0, ConcatEmptySeq DEF Bytes
<1>5. /\ tcp'[id].pipe = IF state = "open" THEN pipe \o buf ELSE pipe
      /\ tcp'[id].state # state => state = "fin" /\ tcp'[id].state = "reset"
  <2>1. CASE written(id) = <<>>
    BY <1>1, <1>2, <1>3, <1>4, <2>1 DEF Wrote
  <2>2. CASE written(id) # <<>> /\ state = "fin"
    BY <1>0, <1>3, <2>2 DEF Wrote, SocketOf
  <2>3. CASE written(id) # <<>> /\ state = "open"
    <3>1. tcp'[id] = [tcp[id] EXCEPT !.pipe = pipe \o buf, !.edge = TRUE]
      BY <1>2, <1>3, <2>3 DEF Wrote
    <3> QED BY <1>0, <2>3, <3>1 DEF SocketOf
  <2> QED BY <1>1, <1>2, <2>1, <2>2, <2>3
<1>6. \A j \in Ids \ {id} : tcp'[j] = tcp[j]
  BY <1>0, <1>3
<1>7. CASE ~is_write_closed(id)
  <2> DEFINE left == LeftAfter(buf, written(id))
  <2>1. conns' = [conns EXCEPT ![id] = [conns[id] EXCEPT !.send_buf = left]]
    BY <1>7 DEF poll
  <2>2. left = buf \/ left = <<>>
    BY DEF LeftAfter
  <2>3. state = "open" => left = <<>>
    BY <1>2 DEF LeftAfter
  <2> HIDE DEF left
  <2>4. /\ [conns[id] EXCEPT !.send_buf = left].send_buf = left
        /\ [conns[id] EXCEPT !.send_buf = left].target = conns[id].target
    BY <1>0 DEF IsConn
  <2>5. /\ DOMAIN conns' = DOMAIN conns /\ conns'[id].send_buf = left
        /\ \A j \in DOMAIN conns \ {id} : conns'[j] = conns[j]
        /\ \A j \in DOMAIN conns' : conns'[j].target = conns[j].target
    BY <1>0, <2>1, <2>4
  <2>6. Unsent(id)' = left /\ \A j \in Ids \ {id} : Unsent(j)' = Unsent(j)
    BY <1>0, <2>5 DEF Unsent
  <2> QED BY <1>0, <1>5, <1>6, <2>2, <2>3, <2>5, <2>6
<1>8. CASE is_write_closed(id)
  <2>1. conns' = Restrict(conns, DOMAIN conns \ {id})
    BY <1>8 DEF poll
  <2>2. DOMAIN conns' = DOMAIN conns \ {id} /\ \A k \in DOMAIN conns' : conns'[k] = conns[k]
    BY <2>1, RemoveEntry
  <2>3. Unsent(id)' = <<>> /\ \A j \in Ids \ {id} : Unsent(j)' = Unsent(j)
    BY <2>2 DEF Unsent
  <2>4. state \in {"refused", "reset"}
    BY <1>8 DEF is_write_closed
  <2> QED BY <1>5, <1>6, <2>2, <2>3, <2>4
<1> QED BY <1>7, <1>8

\* Nothing is refused that was not before.
LEMMA RefusedKeeps ==
  ASSUME RefusedOnlyTooLong, \A n \in DOMAIN sent : n \in DOMAIN sent' /\ sent'[n] = sent[n],
         \A id \in Ids : server'[id].pc \in {"refused", "panicked"} =>
           \/ server[id].pc \in {"refused", "panicked"}
           \/ \E n \in DOMAIN sent : Total(sent[n].shape) > Limit
  PROVE  RefusedOnlyTooLong'
<1> SUFFICES ASSUME NEW id \in Ids, server'[id].pc \in {"refused", "panicked"}
             PROVE  \E n \in DOMAIN sent' : Total(sent'[n].shape) > Limit
  BY DEF RefusedOnlyTooLong
<1>1. PICK n \in DOMAIN sent : Total(sent[n].shape) > Limit
  BY DEF RefusedOnlyTooLong
<1> QED BY <1>1

\* A message takes max bytes at most.
LEMMA SendFit ==
  ASSUME StreamInv, NEW max, FitIn(max), FitInv(max),
         NEW host \in Hosts, NEW shape \in Shapes, Send(host, shape)
  PROVE  FitInv(max)'
<1> DEFINE m == [host |-> host, shape |-> shape]  q == to_bytes(Len(sent) + 1, shape)
<1>1. sent' = Append(sent, m) /\ m \in [host : Hosts, shape : Shapes] /\ UNCHANGED <<server, delivered>>
  BY DEF Send
<1>2. m.shape = shape
  OBVIOUS
<1> HIDE DEF m
<1>3. sent \in Messages /\ Len(sent) \in Nat
  BY DEF StreamInv, ClientInv, Messages
<1>4. RefusedOnlyTooLong'
  <2>1. \A n \in DOMAIN sent : n \in DOMAIN sent' /\ sent'[n] = sent[n]
    BY <1>1, <1>3 DEF Messages
  <2> QED BY <1>1, <2>1, RefusedKeeps DEF FitInv
<1>5. ASSUME NEW id \in Ids PROVE WholeAt(id)' /\ ShortAt(id, max)'
  <2> DEFINE b == server[id].recv_buf  p == tcp[id].pipe  u == Unsent(id)
  <2>1. b \in Bytes(sent) /\ p \in Bytes(sent) /\ u \in Bytes(sent) /\ Len(p) \in Nat /\ Len(u) \in Nat
    BY BuffersOK
  <2>2. Whole(sent, b, p, u) /\ server[id].pos = 0 /\ Len(p) + Len(u) <= Len(sent) * max
    BY DEF FitInv, WholeAt, ShortAt
  <2>3. tcp'[id].pipe = p /\ (Unsent(id)' = u \/ Unsent(id)' = <<>> \/ Unsent(id)' = u \o q)
    BY SendEffect
  <2> HIDE DEF b, p, u
  <2>4. /\ Whole(Append(sent, m), b, p, u) /\ Whole(Append(sent, m), b, p, u \o q)
        /\ Len(u \o q) = Len(u) + Total(shape)
    BY <1>1, <1>2, <1>3, <2>1, <2>2, WholeSent
  <2>5. Whole(Append(sent, m), b, p, <<>>)
    BY <2>4, WholeLost
  <2>6. Whole(sent', b, p, Unsent(id)')
    BY <1>1, <2>3, <2>4, <2>5
  <2>7. WholeAt(id)'
    <3>1. server'[id].recv_buf = b /\ server'[id].pos = 0
      BY <1>1, <2>2 DEF b
    <3> QED BY <2>3, <2>6, <3>1 DEF WholeAt
  <2>8. Len(p) + Len(Unsent(id)') <= (Len(sent) + 1) * max
    <3>1. max \in Nat /\ Total(shape) \in Nat /\ Total(shape) <= max
      BY TotalOK DEF FitIn
    <3>2. (Len(sent) + 1) * max = Len(sent) * max + max /\ Len(sent) * max \in Nat
      BY <1>3, <3>1, Products
    <3>3. Len(Unsent(id)') \in {Len(u), 0, Len(u) + Total(shape)}
      <4>1. Len(<<>>) = 0
        OBVIOUS
      <4> QED BY <2>3, <2>4, <4>1
    <3> QED BY <2>1, <2>2, <3>1, <3>2, <3>3
  <2>9. Len(sent') = Len(sent) + 1
    BY <1>1, <1>3 DEF Messages
  <2>10. ShortAt(id, max)'
    BY <2>3, <2>8, <2>9 DEF ShortAt
  <2> QED BY <2>7, <2>10
<1> QED BY <1>4, <1>5 DEF FitInv

\* What the limit on the bytes means for one write and one read.
LEMMA ShortFits ==
  ASSUME StreamInv, NEW max, FitIn(max), NEW id \in Ids, ShortAt(id, max)
  PROVE  /\ Len(tcp[id].pipe) + Len(Unsent(id)) <= Room
         /\ Len(tcp[id].pipe) <= ReadSize
<1>1. /\ Len(tcp[id].pipe) \in Nat /\ Len(Unsent(id)) \in Nat /\ Len(sent) \in Nat
      /\ Len(sent) <= MaxPuts
  BY BuffersOK DEF StreamInv, SentOK
<1>2. Len(sent) * max <= MaxPuts * max /\ Len(sent) * max \in Nat /\ MaxPuts * max \in Nat
  BY <1>1, Products, Numbers DEF FitIn
<1>3. Len(tcp[id].pipe) + Len(Unsent(id)) <= Len(sent) * max
  BY DEF ShortAt
<1>4. MaxPuts * max <= Room /\ Room <= ReadSize /\ Room \in Nat /\ ReadSize \in Nat
  BY Numbers DEF FitIn
<1> HIDE DEF ShortAt
<1> QED BY <1>1, <1>2, <1>3, <1>4

\* What the client writes it writes as a whole.
LEMMA PollFit ==
  ASSUME StreamInv, NEW max, FitIn(max), FitInv(max), NEW id \in Ids, poll(id)
  PROVE  FitInv(max)'
<1>1. UNCHANGED <<server, sent, delivered>>
  BY DEF poll
<1>2. RefusedOnlyTooLong'
  BY <1>1, RefusedKeeps DEF FitInv
<1>3. Len(tcp[id].pipe) + Len(Unsent(id)) <= Room
  BY ShortFits DEF FitInv
<1>4. ASSUME NEW j \in Ids \ {id} PROVE WholeAt(j)' /\ ShortAt(j, max)'
  <2>1. tcp'[j] = tcp[j] /\ Unsent(j)' = Unsent(j)
    BY <1>3, PollEffect
  <2>2. WholeAt(j) /\ ShortAt(j, max)
    BY DEF FitInv
  <2> QED BY <1>1, <2>1, <2>2 DEF WholeAt, ShortAt
<1> DEFINE b == server[id].recv_buf  p == tcp[id].pipe  u == Unsent(id)
<1>5. /\ sent \in Messages /\ b \in Bytes(sent) /\ p \in Bytes(sent) /\ u \in Bytes(sent)
      /\ Len(p) \in Nat /\ Len(u) \in Nat
  BY BuffersOK
<1>6. Whole(sent, b, p, u) /\ server[id].pos = 0 /\ Len(p) + Len(u) <= Len(sent) * max
  BY DEF FitInv, WholeAt, ShortAt
<1>7. \/ tcp'[id].pipe = p /\ (Unsent(id)' = u \/ Unsent(id)' = <<>>)
      \/ tcp'[id].pipe = p \o u /\ Unsent(id)' = <<>>
  BY <1>3, PollEffect
<1>8. server'[id].recv_buf = b /\ server'[id].pos = 0 /\ sent' = sent
  BY <1>1, <1>6
<1> HIDE DEF b, p, u
<1>9. Whole(sent, b, p, <<>>) /\ Whole(sent, b, p \o u, <<>>)
  BY <1>5, <1>6, WholeLost, WholeWritten
<1>10. WholeAt(id)'
  <2>1. Whole(sent, b, tcp'[id].pipe, Unsent(id)')
    BY <1>6, <1>7, <1>9
  <2> QED BY <1>8, <2>1 DEF WholeAt
<1>11. ShortAt(id, max)'
  <2>1. Len(p \o u) = Len(p) + Len(u) /\ Len(<<>>) = 0
    BY <1>5, Cat
  <2>2. Len(tcp'[id].pipe) + Len(Unsent(id)') <= Len(p) + Len(u)
    BY <1>5, <1>7, <2>1
  <2>3. Len(tcp'[id].pipe) + Len(Unsent(id)') \in Int /\ Len(sent) * max \in Int
    <3>1. Len(tcp'[id].pipe) \in Nat /\ Len(Unsent(id)') \in Nat
      BY <1>5, <1>7, <2>1
    <3>2. Len(sent) \in Nat /\ max \in Nat
      BY BuffersOK DEF FitIn
    <3> QED BY <3>1, <3>2, Products
  <2>4. Len(tcp'[id].pipe) + Len(Unsent(id)') <= Len(sent) * max
    BY <1>5, <1>6, <2>2, <2>3
  <2> QED BY <1>8, <2>4 DEF ShortAt
<1> QED BY <1>2, <1>4, <1>10, <1>11 DEF FitInv

\* A connection that the server has accepted and not dropped.
Accepted(pc) == pc \notin {"none", "dropped"}

\* What a step of the server does to a connection and its buffers: it moves all
\* that was written to the parser, or the first packet to the application.
Rest(q) == SubSeq(q, T(sent, q[1].msg) + 1, Len(q))
Moves(id) ==
  \/ /\ server'[id].recv_buf = server[id].recv_buf /\ tcp'[id].pipe = tcp[id].pipe
     /\ delivered' = delivered
  \/ /\ server'[id].recv_buf = server[id].recv_buf \o tcp[id].pipe /\ tcp'[id].pipe = <<>>
     /\ delivered' = delivered
  \/ /\ server[id].recv_buf # <<>> /\ server'[id].recv_buf = Rest(server[id].recv_buf)
     /\ tcp'[id].pipe = tcp[id].pipe
     /\ delivered' = Append(delivered, server[id].recv_buf[1].msg)
Works(id) ==
  /\ tcp'[id].state = tcp[id].state
  /\ Accepted(server[id].pc) \/ (server[id].pc = "none" /\ tcp[id].state \in {"open", "closed"})
  /\ Accepted(server'[id].pc) /\ server'[id].pos = 0
  /\ server'[id].pc \in {"refused", "panicked"} =>
       \/ server[id].pc \in {"refused", "panicked"}
       \/ \E n \in DOMAIN sent : Total(sent[n].shape) > Limit
  /\ Moves(id)
Ends(id) ==
  /\ Accepted(server[id].pc) /\ server'[id].pc = "dropped" /\ server'[id].pos = 0
  /\ server'[id].recv_buf = <<>> /\ tcp'[id].pipe = <<>> /\ delivered' = delivered
  /\ tcp[id].state = "closed" => tcp'[id].state = "closed"
  /\ tcp[id].state # "closed" => tcp'[id].state \in {"fin", "reset"}

\* A step of the server works on one connection or ends it.
LEMMA ServerEffect ==
  ASSUME StreamInv, NEW id \in Ids, ServerNext(id), WholeAt(id), Len(tcp[id].pipe) <= ReadSize
  PROVE  /\ UNCHANGED <<client, counter, conns, dest, sent>>
         /\ \A j \in Ids \ {id} : tcp'[j] = tcp[j] /\ server'[j] = server[j]
         /\ Works(id) \/ Ends(id)
<1>0. /\ tcp \in [Ids -> SocketOf(Bytes(sent))] /\ tcp[id] \in SocketOf(Bytes(sent))
      /\ server \in [Ids -> ServerConnOf(Bytes(sent))] /\ server[id] \in ServerConnOf(Bytes(sent))
      /\ sent \in Messages
  BY DEF StreamInv, TcpOK, ServerOK, ClientInv, Messages
<1>1. UNCHANGED <<client, counter, conns, dest, sent>>
  BY DEF ServerNext, accept, Dispatch, receive, parse, Dropped
<1>2. server[id].pos = 0 /\ Packed(sent, server[id].recv_buf)
  BY DEF WholeAt, Whole
<1>3. ASSUME NEW s, NEW c, tcp' = [tcp EXCEPT ![id] = s], server' = [server EXCEPT ![id] = c]
      PROVE  /\ tcp'[id] = s /\ server'[id] = c
             /\ \A j \in Ids \ {id} : tcp'[j] = tcp[j] /\ server'[j] = server[j]
  BY <1>0, <1>3
<1>4. CASE accept(id)
  <2> DEFINE s == [tcp[id] EXCEPT !.edge = TRUE]
             c == [server[id] EXCEPT !.pc = "idle"]
  <2>1. /\ tcp' = [tcp EXCEPT ![id] = s] /\ server' = [server EXCEPT ![id] = c] /\ UNCHANGED delivered
        /\ tcp[id].state \in {"open", "closed"} /\ server[id].pc = "none"
    BY <1>4 DEF accept
  <2>2. /\ s.state = tcp[id].state /\ s.pipe = tcp[id].pipe
        /\ c.pc = "idle" /\ c.pos = 0 /\ c.recv_buf = server[id].recv_buf
    BY <1>0, <1>2 DEF SocketOf, ServerConnOf
  <2> HIDE DEF s, c
  <2> QED BY <1>1, <1>3, <2>1, <2>2 DEF Works, Moves, Accepted
<1>5. CASE Dispatch(id)
  <2> DEFINE s == [tcp[id] EXCEPT !.edge = FALSE]
             mail == Append(server[id].mail, tcp[id].pipe # <<>> \/ tcp[id].state = "closed")
             c == [server[id] EXCEPT !.mail = mail]
  <2>1. /\ tcp' = [tcp EXCEPT ![id] = s] /\ server' = [server EXCEPT ![id] = c] /\ UNCHANGED delivered
        /\ server[id].pc \notin {"none", "dropped"}
    BY <1>5 DEF Dispatch
  <2> HIDE DEF mail
  <2>2. /\ s.state = tcp[id].state /\ s.pipe = tcp[id].pipe
        /\ c.pc = server[id].pc /\ c.pos = 0 /\ c.recv_buf = server[id].recv_buf
    BY <1>0, <1>2 DEF SocketOf, ServerConnOf
  <2> HIDE DEF s, c
  <2> QED BY <1>1, <1>3, <2>1, <2>2 DEF Works, Moves, Accepted
<1>6. CASE receive(id)
  <2> DEFINE pipe == tcp[id].pipe
             can_read == Head(server[id].mail)
             left == IF can_read THEN <<>> ELSE pipe
             buf == IF can_read THEN server[id].recv_buf \o pipe ELSE server[id].recv_buf
             pc == IF can_read /\ Len(pipe) = 0 THEN "stopping" ELSE "parsing"
             mail == Tail(server[id].mail)
             s == [tcp[id] EXCEPT !.pipe = left]
             c == [server[id] EXCEPT !.mail = mail, !.pc = pc, !.recv_buf = buf]
  <2>1. pipe \in Seq(Numbered(sent)) /\ Len(pipe) \in Nat
    BY <1>0 DEF SocketOf, Bytes
  <2>2. Min({ReadSize, Len(pipe)}) = Len(pipe)
    <3> HIDE DEF pipe
    <3>1. Len(pipe) <= ReadSize /\ ReadSize \in Int
      BY <2>1, Numbers DEF pipe
    <3>2. \E m \in {ReadSize, Len(pipe)} : \A k \in {ReadSize, Len(pipe)} : m <= k
      BY <2>1, <3>1
    <3>3. /\ Min({ReadSize, Len(pipe)}) \in {ReadSize, Len(pipe)}
          /\ \A k \in {ReadSize, Len(pipe)} : Min({ReadSize, Len(pipe)}) <= k
      BY <3>2, Zenon DEF Min
    <3> QED BY <2>1, <3>1, <3>3
  <2>3. SubSeq(pipe, 1, Len(pipe)) = pipe /\ SubSeq(pipe, Len(pipe) + 1, Len(pipe)) = <<>>
    <3> HIDE DEF pipe
    <3>1. Len(pipe) + 1 \in Int /\ Len(pipe) \in Int /\ Len(pipe) < Len(pipe) + 1
      BY <2>1
    <3> QED BY <2>1, <3>1, SubSeqFull, SubSeqEmpty
  <2>4. /\ tcp' = [tcp EXCEPT ![id] = s] /\ server' = [server EXCEPT ![id] = c] /\ UNCHANGED delivered
        /\ server[id].pc = "idle"
    BY <1>6, <2>2, <2>3 DEF receive
  <2>5. /\ (left = pipe /\ buf = server[id].recv_buf) \/ (left = <<>> /\ buf = server[id].recv_buf \o pipe)
        /\ pc \in {"stopping", "parsing"}
    OBVIOUS
  <2> HIDE DEF left, buf, pc, mail
  <2>6. /\ s.state = tcp[id].state /\ s.pipe = left
        /\ c.pc = pc /\ c.pos = 0 /\ c.recv_buf = buf
    BY <1>0, <1>2 DEF SocketOf, ServerConnOf
  <2> HIDE DEF s, c
  <2>7. /\ tcp'[id] = s /\ server'[id] = c
        /\ \A j \in Ids \ {id} : tcp'[j] = tcp[j] /\ server'[j] = server[j]
    BY <1>3, <2>4
  <2>8. Moves(id)
    BY <2>4, <2>5, <2>6, <2>7 DEF Moves
  <2>9. Works(id)
    BY <2>4, <2>5, <2>6, <2>7, <2>8 DEF Works, Accepted
  <2> QED BY <1>1, <2>7, <2>9
<1>7. CASE parse(id)
  <2> DEFINE buf == server[id].recv_buf
  <2>1. PICK r \in from_bytes(buf, 0) :
         \/ /\ r.is = "Some"
            /\ server' = [server EXCEPT ![id].recv_buf = r.rest, ![id].pos = 0]
            /\ delivered' = Append(delivered, r.msg)
         \/ /\ r.is = "None"
            /\ server' = [server EXCEPT ![id].pc = "idle", ![id].pos = r.pos]
            /\ UNCHANGED delivered
         \/ /\ r.is \in {"Err", "panic"}
            /\ server' = [server EXCEPT ![id].pc = IF r.is = "Err" THEN "refused" ELSE "panicked"]
            /\ UNCHANGED delivered
    BY <1>2, <1>7 DEF parse
  <2>2. /\ tcp' = [tcp EXCEPT ![id] = tcp[id]] /\ server[id].pc = "parsing"
        /\ buf \in Bytes(sent)
    BY <1>0, <1>7 DEF parse, ServerConnOf
  <2>3. \/ r = None(0)
        \/ r = [is |-> "Err"] /\ \E n \in DOMAIN sent : Total(sent[n].shape) > Limit
        \/ buf # <<>> /\ r = [is |-> "Some", msg |-> buf[1].msg, rest |-> Rest(buf)]
    BY <1>0, <1>2, <2>2, FromWhole DEF Rest
  <2>4. CASE r = None(0)
    <3> DEFINE c == [server[id] EXCEPT !.pc = "idle", !.pos = 0]
    <3>1. r.is = "None" /\ r.pos = 0
      BY <2>4 DEF None
    <3>2. server' = [server EXCEPT ![id] = c] /\ UNCHANGED delivered
      BY <2>1, <3>1
    <3>3. c.pc = "idle" /\ c.pos = 0 /\ c.recv_buf = buf
      BY <1>0 DEF ServerConnOf
    <3> HIDE DEF c
    <3> QED BY <1>1, <1>3, <2>2, <3>2, <3>3 DEF Works, Moves, Accepted
  <2>5. CASE r = [is |-> "Err"] /\ \E n \in DOMAIN sent : Total(sent[n].shape) > Limit
    <3> DEFINE c == [server[id] EXCEPT !.pc = "refused"]
    <3>1. r.is = "Err"
      BY <2>5
    <3>2. server' = [server EXCEPT ![id] = c] /\ UNCHANGED delivered
      BY <2>1, <3>1
    <3>3. c.pc = "refused" /\ c.pos = 0 /\ c.recv_buf = buf
      BY <1>0, <1>2 DEF ServerConnOf
    <3> HIDE DEF c
    <3> QED BY <1>1, <1>3, <2>2, <2>5, <3>2, <3>3 DEF Works, Moves, Accepted
  <2>6. CASE buf # <<>> /\ r = [is |-> "Some", msg |-> buf[1].msg, rest |-> Rest(buf)]
    <3> DEFINE c == [server[id] EXCEPT !.recv_buf = Rest(buf), !.pos = 0]
    <3>1. r.is = "Some" /\ r.msg = buf[1].msg /\ r.rest = Rest(buf)
      <4> DEFINE rest == Rest(buf)  n == buf[1].msg
      <4>1. r = [is |-> "Some", msg |-> n, rest |-> rest]
        BY <2>6
      <4> HIDE DEF rest, n
      <4>2. r.is = "Some" /\ r.msg = n /\ r.rest = rest
        BY <4>1
      <4> QED BY <4>2 DEF rest, n
    <3>2. server' = [server EXCEPT ![id] = c] /\ delivered' = Append(delivered, buf[1].msg)
      BY <2>1, <3>1
    <3>3. c.pc = "parsing" /\ c.pos = 0 /\ c.recv_buf = Rest(buf)
      BY <1>0, <2>2 DEF ServerConnOf
    <3> HIDE DEF c
    <3> QED BY <1>1, <1>3, <2>2, <2>6, <3>2, <3>3 DEF Works, Moves, Accepted
  <2> QED BY <2>3, <2>4, <2>5, <2>6
<1>8. CASE Dropped(id)
  <2> DEFINE state == IF tcp[id].state = "closed" THEN "closed"
                      ELSE IF tcp[id].pipe = <<>> THEN "fin" ELSE "reset"
             s == [state |-> state, pipe |-> <<>>, edge |-> FALSE]
             c == [pc |-> "dropped", recv_buf |-> <<>>, pos |-> 0, mail |-> <<>>]
  <2>1. /\ tcp' = [tcp EXCEPT ![id] = s] /\ server' = [server EXCEPT ![id] = c] /\ UNCHANGED delivered
        /\ server[id].pc \in {"stopping", "refused", "panicked"}
    BY <1>8 DEF Dropped
  <2>2. /\ s.state = state /\ s.pipe = <<>>
        /\ c.pc = "dropped" /\ c.pos = 0 /\ c.recv_buf = <<>>
    OBVIOUS
  <2> HIDE DEF s, c
  <2> QED BY <1>1, <1>3, <2>1, <2>2 DEF Ends, Accepted
<1> QED BY <1>4, <1>5, <1>6, <1>7, <1>8 DEF ServerNext

\* What the server reads it reads as a whole.
LEMMA ServerFit ==
  ASSUME StreamInv, NEW max, FitIn(max), FitInv(max), NEW id \in Ids, ServerNext(id)
  PROVE  FitInv(max)'
<1>1. Len(tcp[id].pipe) <= ReadSize /\ WholeAt(id) /\ ShortAt(id, max)
  BY ShortFits DEF FitInv
<1>2. /\ UNCHANGED <<client, counter, conns, dest, sent>>
      /\ \A j \in Ids \ {id} : tcp'[j] = tcp[j] /\ server'[j] = server[j]
      /\ Works(id) \/ Ends(id)
  BY <1>1, ServerEffect
<1>3. \A j \in Ids : Unsent(j)' = Unsent(j)
  BY <1>2 DEF Unsent
<1>4. ASSUME NEW j \in Ids \ {id} PROVE WholeAt(j)' /\ ShortAt(j, max)'
  BY <1>2, <1>3 DEF FitInv, WholeAt, ShortAt
<1>5. RefusedOnlyTooLong'
  <2>1. \A j \in Ids : server'[j].pc \in {"refused", "panicked"} =>
          \/ server[j].pc \in {"refused", "panicked"}
          \/ \E n \in DOMAIN sent : Total(sent[n].shape) > Limit
    BY <1>2 DEF Works, Ends
  <2> QED BY <1>2, <2>1, RefusedKeeps DEF FitInv
<1> DEFINE b == server[id].recv_buf  p == tcp[id].pipe  u == Unsent(id)
<1>6. /\ sent \in Messages /\ b \in Bytes(sent) /\ p \in Bytes(sent) /\ u \in Bytes(sent)
      /\ Len(p) \in Nat /\ Len(u) \in Nat /\ Len(sent) \in Nat
  BY BuffersOK
<1>7. Whole(sent, b, p, u) /\ Len(p) + Len(u) <= Len(sent) * max
  BY <1>1 DEF WholeAt, ShortAt
<1>8. Unsent(id)' = u /\ sent' = sent /\ server'[id].pos = 0
  BY <1>2, <1>3 DEF Works, Ends
<1>9. \/ server'[id].recv_buf = b /\ tcp'[id].pipe = p
      \/ server'[id].recv_buf = b \o p /\ tcp'[id].pipe = <<>>
      \/ b # <<>> /\ server'[id].recv_buf = Rest(b) /\ tcp'[id].pipe = p
      \/ server'[id].recv_buf = <<>> /\ tcp'[id].pipe = <<>>
  BY <1>2 DEF Works, Moves, Ends
<1> HIDE DEF b, p, u
<1>10. Whole(sent, b \o p, <<>>, u) /\ Whole(sent, <<>>, <<>>, u)
       /\ (b # <<>> => Whole(sent, Rest(b), p, u))
  BY <1>6, <1>7, WholeLost, WholeRead, WholeParsed DEF Rest
<1>11. WholeAt(id)'
  <2>1. Whole(sent, server'[id].recv_buf, tcp'[id].pipe, u)
    BY <1>7, <1>9, <1>10
  <2> QED BY <1>8, <2>1 DEF WholeAt
<1>12. ShortAt(id, max)'
  <2>1. Len(<<>>) = 0 /\ Len(sent) * max \in Int
    BY <1>6, Products DEF FitIn
  <2>2. Len(tcp'[id].pipe) + Len(u) <= Len(sent) * max
    BY <1>6, <1>7, <1>9, <2>1
  <2> QED BY <1>8, <2>2 DEF ShortAt
<1> QED BY <1>4, <1>5, <1>11, <1>12 DEF FitInv

\* FitInv is inductive where packets fit.
THEOREM FitSafe ==
  ASSUME NEW max, FitIn(max)
  PROVE  Spec => []FitInv(max)
<1>1. Init => FitInv(max)
  <2> SUFFICES ASSUME Init PROVE FitInv(max)
    OBVIOUS
  <2>1. /\ sent = <<>> /\ conns = <<>> /\ Len(<<>>) = 0 /\ DOMAIN <<>> = {}
    BY DEF Init
  <2>2. \A id \in Ids : /\ tcp[id].pipe = <<>> /\ server[id].recv_buf = <<>>
                        /\ server[id].pos = 0 /\ server[id].pc = "none"
    BY DEF Init
  <2>3. \A id \in Ids : Unsent(id) = <<>>
    BY <2>1 DEF Unsent
  <2>4. Whole(<<>>, <<>>, <<>>, <<>>)
    BY PackedEmpty DEF Whole, Before
  <2>5. 0 * max = 0
    BY DEF FitIn
  <2>6. ASSUME NEW id \in Ids PROVE WholeAt(id) /\ ShortAt(id, max)
    <3>1. WholeAt(id)
      BY <2>1, <2>2, <2>3, <2>4 DEF WholeAt
    <3>2. ShortAt(id, max)
      BY <2>1, <2>2, <2>3, <2>5 DEF ShortAt
    <3> QED BY <3>1, <3>2
  <2>7. RefusedOnlyTooLong
    BY <2>2 DEF RefusedOnlyTooLong
  <2> QED BY <2>6, <2>7 DEF FitInv
<1>2. StreamInv /\ FitInv(max) /\ [Next]_vars => FitInv(max)'
  <2> SUFFICES ASSUME StreamInv, FitInv(max), [Next]_vars PROVE FitInv(max)'
    OBVIOUS
  <2>1. CASE UNCHANGED vars
    BY <2>1 DEF vars, FitInv, RefusedOnlyTooLong, WholeAt, ShortAt, Unsent
  <2> QED BY <2>1, SendFit, PollFit, ServerFit DEF Next
<1> QED BY <1>1, <1>2, StreamSafe, PTL DEF Spec

\* As long as all that is sent fits one write and one read, the check that
\* refuses a stream in from_bytes refuses only one with a packet longer than the
\* limit in it, and the parser does not panic.
THEOREM RefusesOnlyTooLong ==
  ASSUME NEW max, FitIn(max)
  PROVE  Spec => []RefusedOnlyTooLong
<1>1. FitInv(max) => RefusedOnlyTooLong
  BY DEF FitInv
<1> QED BY <1>1, FitSafe, PTL

-----------------------------------------------------------------------------
(* The order of messages.                                                  *)

\* A Server listens at one address.
OneServer == \A g, h \in Servers : Canonical[g] = g /\ Canonical[h] = h => g = h

\* A connection over which something may still arrive.
Flows(id) == tcp[id].state \in {"open", "closed"}

\* What the two sides of a connection know of each other, and that one over
\* which nothing will arrive is empty.
SidesAgree(id) ==
  /\ id > counter => tcp[id].state = "none"
  /\ tcp[id].state \in {"none", "refused"} => server[id].pc = "none"
  /\ tcp[id].state \in {"fin", "reset"} => server[id].pc = "dropped"
  /\ tcp[id].state = "closed" => client = "failed"
  /\ tcp[id].state = "open" => id \in DOMAIN conns /\ conns[id].target \in Servers
                               /\ Canonical[conns[id].target] = conns[id].target
  /\ ~Flows(id) => tcp[id].pipe = <<>> /\ server[id].recv_buf = <<>>

OneFlows == \A i, j \in Ids : Flows(i) /\ Flows(j) => i = j

\* What was delivered is older than what is still to come.
Newer(d, q) == \A k \in DOMAIN d, i \in DOMAIN q : d[k] < q[i].msg
LateAt(id) ==
  Flows(id) => /\ Newer(delivered, server[id].recv_buf) /\ Newer(delivered, tcp[id].pipe)
               /\ Newer(delivered, Unsent(id))

OrderInv == InOrder /\ OneFlows /\ \A id \in Ids : SidesAgree(id) /\ LateAt(id)

\* The states of the sockets after a message.
LEMMA SendStates ==
  ASSUME StreamInv, NEW host \in Hosts, NEW shape \in Shapes, Send(host, shape)
  PROVE  /\ counter \in Nat /\ counter' \in {counter, counter + 1} /\ client = "alive"
         /\ \/ /\ client' = "failed"
               /\ \A j \in Ids : tcp'[j].state = IF tcp[j].state = "open" THEN "closed" ELSE tcp[j].state
            \/ /\ tcp' = tcp /\ client' = client /\ DOMAIN conns' = DOMAIN conns
               /\ \A j \in DOMAIN conns : conns'[j].target = conns[j].target
            \/ /\ counter' = counter + 1 /\ counter' \in Ids /\ client' = client
               /\ \A j \in Ids \ {counter'} : tcp'[j] = tcp[j]
               /\ tcp'[counter'].state = IF host \in Servers THEN "open" ELSE "refused"
               /\ DOMAIN conns' = DOMAIN conns \cup {counter'}
               /\ \A j \in DOMAIN conns \ {counter'} : conns'[j].target = conns[j].target
               /\ conns'[counter'].target = host /\ Canonical[host] = host
               /\ host \notin DOMAIN dest
<1>0. /\ tcp \in [Ids -> SocketOf(Bytes(sent))] /\ DOMAIN conns \subseteq 1..counter
      /\ counter \in Nat /\ counter < MaxPuts /\ client = "alive"
      /\ \A c \in DOMAIN conns : IsConn(conns[c])
  <2>1. Len(sent) < MaxPuts /\ client = "alive"
    BY DEF Send
  <2> QED BY <2>1, Numbers DEF StreamInv, TcpOK, ClientInv, SentOK
<1>1. counter' \in {counter, counter + 1}
  BY DEF Send, SendConnected, connect
<1>2. CASE Fail
  <2>1. client' = "failed"
    BY <1>2 DEF Fail
  <2>2. ASSUME NEW j \in Ids
        PROVE  tcp'[j].state = IF tcp[j].state = "open" THEN "closed" ELSE tcp[j].state
    <3>1. tcp'[j] = IF tcp[j].state = "open"
                    THEN [tcp[j] EXCEPT !.state = "closed", !.edge = TRUE] ELSE tcp[j]
      BY <1>2 DEF Fail
    <3>2. [tcp[j] EXCEPT !.state = "closed", !.edge = TRUE].state = "closed"
      BY <1>0 DEF SocketOf
    <3> QED BY <3>1, <3>2
  <2> QED BY <1>0, <1>1, <2>1, <2>2
<1>3. CASE SendConnected(host, shape) /\ ~Fail
  <2>1. dest[host] \in DOMAIN conns /\ put(dest[host], shape, conns) /\ UNCHANGED <<client, dest, tcp>>
    BY <1>3 DEF SendConnected
  <2>2. DOMAIN conns' = DOMAIN conns /\ \A j \in DOMAIN conns : conns'[j].target = conns[j].target
    BY <1>0, <2>1, PutKeeps
  <2> QED BY <1>0, <1>1, <2>1, <2>2
<1>4. CASE connect(host, shape) /\ host \in Unparsable
  <2>1. UNCHANGED <<client, conns, dest, tcp>>
    BY <1>4 DEF connect
  <2>2. UNCHANGED client /\ UNCHANGED conns /\ UNCHANGED tcp
    BY <2>1
  <2> QED BY <1>0, <1>1, <2>2
<1>5. CASE connect(host, shape) /\ host \notin Unparsable /\ ~Fail
  <2> DEFINE k == counter + 1
             new == [target |-> host, send_buf |-> <<>>]
             conns1 == Insert(conns, k, new)
             state == IF host \in Servers THEN "open" ELSE "refused"
  <2>1. /\ counter' = k /\ put(k, shape, conns1) /\ tcp' = [tcp EXCEPT ![k].state = state]
        /\ client' = client /\ Canonical[host] = host /\ host \notin DOMAIN dest
    BY <1>5 DEF connect, NextId
  <2>2. k \in Ids /\ k \notin DOMAIN conns
    BY <1>0, Numbers DEF Ids
  <2>3. new.target = host /\ IsConn(new)
    BY DEF IsConn
  <2> HIDE DEF new, k
  <2>4. /\ DOMAIN conns1 = DOMAIN conns \cup {k} /\ conns1[k] = new
        /\ \A c \in DOMAIN conns : conns1[c] = conns[c]
    BY <2>2 DEF Insert
  <2> HIDE DEF conns1
  <2>5. \A c \in DOMAIN conns1 : IsConn(conns1[c])
    BY <1>0, <2>3, <2>4
  <2>6. DOMAIN conns' = DOMAIN conns1 /\ \A c \in DOMAIN conns1 : conns'[c].target = conns1[c].target
    BY <2>1, <2>4, <2>5, PutKeeps
  <2>7. tcp'[k].state = state /\ \A j \in Ids \ {k} : tcp'[j] = tcp[j]
    <3> HIDE DEF state
    <3>1. [tcp[k] EXCEPT !.state = state].state = state
      BY <1>0, <2>2 DEF SocketOf
    <3>2. tcp' = [tcp EXCEPT ![k] = [tcp[k] EXCEPT !.state = state]]
      BY <2>1
    <3> QED BY <1>0, <2>2, <3>1, <3>2
  <2>8. /\ DOMAIN conns' = DOMAIN conns \cup {k} /\ conns'[k].target = host
        /\ \A j \in DOMAIN conns \ {k} : conns'[j].target = conns[j].target
    BY <2>3, <2>4, <2>6
  <2>9. counter' = counter + 1
    BY <2>1 DEF k
  <2> QED BY <1>0, <2>1, <2>2, <2>7, <2>8, <2>9
<1> QED BY <1>2, <1>3, <1>4, <1>5 DEF Send

\* A message for the one server finds its connection, or there is none.
LEMMA SendSides ==
  ASSUME StreamInv, OneServer, OrderInv, NEW host \in Hosts, NEW shape \in Shapes, Send(host, shape)
  PROVE  OneFlows' /\ \A id \in Ids : SidesAgree(id)' /\ (Flows(id)' => Flows(id) \/ id > counter)
<1>0. /\ DestinationsLive /\ OneFlows /\ \A id \in Ids : SidesAgree(id)
      /\ server' = server /\ client = "alive" /\ counter \in Nat /\ counter' \in {counter, counter + 1}
      /\ DOMAIN conns \subseteq 1..counter
  BY SendStates DEF StreamInv, ClientInv, OrderInv, Send
<1>1. \A id \in Ids : tcp'[id].pipe = tcp[id].pipe
  BY SendEffect
<1>2. \A id \in Ids : id > counter' => id > counter
  BY <1>0 DEF Ids
<1>3. CASE /\ client' = "failed"
           /\ \A j \in Ids : tcp'[j].state = IF tcp[j].state = "open" THEN "closed" ELSE tcp[j].state
  <2>1. \A id \in Ids : Flows(id)' <=> Flows(id)
    BY <1>3 DEF Flows
  <2>2. ASSUME NEW id \in Ids PROVE SidesAgree(id)'
    <3>1. SidesAgree(id)
      BY <1>0
    <3>2. tcp'[id].state # "open"
      BY <1>3
    <3> QED BY <1>0, <1>1, <1>2, <1>3, <2>1, <3>1, <3>2 DEF SidesAgree
  <2> QED BY <1>0, <2>1, <2>2 DEF OneFlows
<1>4. CASE /\ tcp' = tcp /\ client' = client /\ DOMAIN conns' = DOMAIN conns
           /\ \A j \in DOMAIN conns : conns'[j].target = conns[j].target
  <2>1. \A id \in Ids : Flows(id)' <=> Flows(id)
    BY <1>4 DEF Flows
  <2>2. ASSUME NEW id \in Ids PROVE SidesAgree(id)'
    <3>1. SidesAgree(id)
      BY <1>0
    <3> QED BY <1>0, <1>2, <1>4, <2>1, <3>1 DEF SidesAgree
  <2> QED BY <1>0, <2>1, <2>2 DEF OneFlows
<1>5. CASE /\ counter' = counter + 1 /\ counter' \in Ids /\ client' = client
           /\ \A j \in Ids \ {counter'} : tcp'[j] = tcp[j]
           /\ tcp'[counter'].state = IF host \in Servers THEN "open" ELSE "refused"
           /\ DOMAIN conns' = DOMAIN conns \cup {counter'}
           /\ \A j \in DOMAIN conns \ {counter'} : conns'[j].target = conns[j].target
           /\ conns'[counter'].target = host /\ Canonical[host] = host
           /\ host \notin DOMAIN dest
  <2>0. PICK k : k = counter'
    OBVIOUS
  <2>1. /\ k \in Ids /\ k > counter /\ ~(k > counter') /\ client' = client
        /\ \A j \in Ids \ {k} : tcp'[j] = tcp[j]
        /\ tcp'[k].state = IF host \in Servers THEN "open" ELSE "refused"
        /\ DOMAIN conns' = DOMAIN conns \cup {k}
        /\ \A j \in DOMAIN conns \ {k} : conns'[j].target = conns[j].target
        /\ conns'[k].target = host /\ Canonical[host] = host /\ host \notin DOMAIN dest
    <3>1. /\ k \in Ids /\ client' = client
          /\ \A j \in Ids \ {k} : tcp'[j] = tcp[j]
          /\ tcp'[k].state = IF host \in Servers THEN "open" ELSE "refused"
          /\ DOMAIN conns' = DOMAIN conns \cup {k}
          /\ \A j \in DOMAIN conns \ {k} : conns'[j].target = conns[j].target
          /\ conns'[k].target = host /\ Canonical[host] = host /\ host \notin DOMAIN dest
      BY <1>5, <2>0, Zenon
    <3>2. k = counter + 1 /\ k = counter' /\ counter \in Nat
      BY <1>0, <1>5, <2>0, Zenon
    <3>3. k > counter /\ ~(k > counter')
      BY <3>2
    <3> QED BY <3>1, <3>3, Zenon
  <2>2. /\ tcp[k].state = "none" /\ server[k].pc = "none" /\ ~Flows(k)
        /\ tcp[k].pipe = <<>> /\ server[k].recv_buf = <<>>
    BY <1>0, <2>1 DEF SidesAgree, Flows
  <2>3. ASSUME NEW j \in Ids, j # k PROVE tcp'[j] = tcp[j] /\ (Flows(j)' <=> Flows(j)) /\ SidesAgree(j)'
    <3>1. tcp'[j] = tcp[j] /\ (Flows(j)' <=> Flows(j)) /\ SidesAgree(j)
      BY <1>0, <2>1, <2>3 DEF Flows
    <3>2. j \in DOMAIN conns => j \in DOMAIN conns' /\ conns'[j].target = conns[j].target
      BY <2>1, <2>3
    <3> QED BY <1>0, <1>2, <2>1, <3>1, <3>2 DEF SidesAgree
  <2>4. SidesAgree(k)'
    <3>1. tcp'[k].pipe = <<>> /\ server'[k].recv_buf = <<>> /\ server'[k].pc = "none"
      BY <1>0, <1>1, <2>1, <2>2
    <3>2. tcp'[k].state \in {"open", "refused"} /\ (tcp'[k].state = "open" => host \in Servers)
      BY <2>1
    <3>3. conns'[k].target = host /\ Canonical[host] = host /\ client' = "alive"
      BY <1>0, <2>1
    <3> QED BY <2>1, <3>1, <3>2, <3>3 DEF SidesAgree
  <2>5. ASSUME NEW j \in Ids, j # k, Flows(j) PROVE ~Flows(k)'
    <3>1. j \in DOMAIN conns /\ conns[j].target \in Servers /\ Canonical[conns[j].target] = conns[j].target
      BY <1>0, <2>5 DEF SidesAgree, Flows
    <3>2. conns[j].target \in DOMAIN dest
      BY <1>0, <3>1 DEF DestinationsLive
    <3>3. host \notin Servers
      BY <2>1, <3>1, <3>2 DEF OneServer
    <3>4. tcp'[k].state = "refused"
      BY <2>1, <3>3
    <3> QED BY <3>4 DEF Flows
  <2>6. OneFlows'
    <3> SUFFICES ASSUME NEW i \in Ids, NEW j \in Ids, Flows(i)', Flows(j)' PROVE i = j
      BY DEF OneFlows
    <3>1. CASE i # k /\ j # k
      BY <1>0, <2>3, <3>1 DEF OneFlows
    <3>2. CASE i = k /\ j # k
      BY <2>3, <2>5, <3>2
    <3>3. CASE i # k /\ j = k
      BY <2>3, <2>5, <3>3
    <3> QED BY <3>1, <3>2, <3>3
  <2>7. \A id \in Ids : SidesAgree(id)' /\ (Flows(id)' => Flows(id) \/ id > counter)
    BY <2>1, <2>3, <2>4
  <2> QED BY <2>6, <2>7
<1> QED BY <1>3, <1>4, <1>5, SendStates

\* Two streams, one after the other.
LEMMA NewerCat ==
  ASSUME NEW ms \in Messages, NEW q \in Bytes(ms), NEW r \in Bytes(ms), NEW d,
         Newer(d, q), Newer(d, r)
  PROVE  Newer(d, q \o r)
<1> DEFINE c == q \o r
<1>1. ASSUME NEW i \in DOMAIN c
      PROVE  (\E j \in DOMAIN q : c[i] = q[j]) \/ (\E j \in DOMAIN r : c[i] = r[j])
  <2>1. i \in Nat /\ Len(q) \in Nat
    BY DEF Bytes
  <2>2. i = Len(q) + (i - Len(q))
    BY <2>1
  <2> QED BY <2>2, Cat
<1> HIDE DEF c
<1>2. Newer(d, c)
  BY <1>1 DEF Newer
<1> QED BY <1>2 DEF c

\* Nothing is newer than anything.
LEMMA NewerEmpty ==
  ASSUME NEW d
  PROVE  Newer(d, <<>>)
BY DEF Newer

\* What was delivered was sent before the next message.
LEMMA NewerSent ==
  ASSUME NEW ms \in Messages, NEW d \in Seq(DOMAIN ms \cup {Garbage}), NEW q,
         \A i \in DOMAIN q : q[i].msg = Len(ms) + 1
  PROVE  Newer(d, q)
<1>1. Len(ms) \in Nat /\ DOMAIN ms = 1..Len(ms)
  BY DEF Messages
<1>2. \A k \in DOMAIN d : d[k] < Len(ms) + 1
  BY <1>1 DEF Garbage
<1> QED BY <1>2 DEF Newer

\* One message more is delivered.
LEMMA NewerAppend ==
  ASSUME NEW S, NEW d \in Seq(S), NEW n \in S, NEW q, Newer(d, q), \A i \in DOMAIN q : n < q[i].msg
  PROVE  Newer(Append(d, n), q)
<1>1. \A k \in DOMAIN Append(d, n) : (k \in DOMAIN d /\ Append(d, n)[k] = d[k]) \/ Append(d, n)[k] = n
  OBVIOUS
<1> QED BY <1>1 DEF Newer

\* The next message is newer than all that was delivered.
LEMMA SendOrder ==
  ASSUME StreamInv, OneServer, OrderInv,
         NEW host \in Hosts, NEW shape \in Shapes, Send(host, shape)
  PROVE  OrderInv'
<1>1. OneFlows' /\ \A id \in Ids : SidesAgree(id)' /\ (Flows(id)' => Flows(id) \/ id > counter)
  BY SendSides
<1>2. server' = server /\ delivered' = delivered
  BY DEF Send
<1>3. /\ sent \in Messages /\ delivered \in Seq(DOMAIN sent \cup {Garbage})
      /\ DOMAIN conns \subseteq 1..counter /\ counter \in Nat
  BY DEF StreamInv, ClientInv, DeliveredOK, Messages
<1>4. InOrder'
  BY <1>2 DEF OrderInv, InOrder
<1> DEFINE q == to_bytes(Len(sent) + 1, shape)  m == [host |-> host, shape |-> shape]
<1>5. \A i \in DOMAIN q : q[i].msg = Len(sent) + 1
  BY DEF to_bytes
<1>6. q \in Bytes(Append(sent, m)) /\ Append(sent, m) \in Messages
  <2>1. m \in [host : Hosts, shape : Shapes]
    OBVIOUS
  <2> HIDE DEF m
  <2>2. Append(sent, m) \in Messages /\ Len(sent) + 1 \in DOMAIN Append(sent, m)
    BY <1>3, <2>1 DEF Messages
  <2> QED BY <2>2, PacketBytes DEF Messages
<1>7. \A o \in Bytes(sent) : o \in Bytes(Append(sent, m))
  <2>1. m \in [host : Hosts, shape : Shapes]
    OBVIOUS
  <2> HIDE DEF m
  <2> QED BY <1>3, <2>1, MoreBytes DEF Messages
<1> HIDE DEF q, m
<1>8. Newer(delivered, q)
  BY <1>3, <1>5, NewerSent
<1>9. ASSUME NEW id \in Ids, Flows(id)' PROVE LateAt(id)'
  <2> DEFINE b == server[id].recv_buf  p == tcp[id].pipe  u == Unsent(id)
  <2>1. tcp'[id].pipe = p /\ (Unsent(id)' = u \/ Unsent(id)' = <<>> \/ Unsent(id)' = u \o q)
    BY SendEffect DEF q
  <2>2. u \in Bytes(sent)
    BY BuffersOK
  <2>3. Newer(delivered, b) /\ Newer(delivered, p) /\ Newer(delivered, u)
    <3>1. CASE Flows(id)
      BY <3>1 DEF OrderInv, LateAt
    <3>2. CASE id > counter
      <4>1. p = <<>> /\ b = <<>>
        BY <3>2 DEF OrderInv, SidesAgree, Flows
      <4>2. u = <<>>
        BY <1>3, <3>2 DEF Unsent, Ids
      <4> QED BY <4>1, <4>2, NewerEmpty
    <3> QED BY <1>1, <1>9, <3>1, <3>2
  <2> HIDE DEF p, u
  <2>4. Newer(delivered, <<>>) /\ Newer(delivered, u \o q)
    BY <1>6, <1>7, <1>8, <2>2, <2>3, NewerEmpty, NewerCat
  <2>5. Newer(delivered, tcp'[id].pipe) /\ Newer(delivered, Unsent(id)')
    BY <2>1, <2>3, <2>4
  <2> QED BY <1>2, <2>3, <2>5 DEF LateAt
<1>10. \A id \in Ids : LateAt(id)'
  BY <1>9 DEF LateAt
<1> QED BY <1>1, <1>4, <1>10 DEF OrderInv

\* Bytes move on in order, and a dead connection has none.
LEMMA PollOrder ==
  ASSUME StreamInv, NEW max, FitIn(max), FitInv(max), OrderInv, NEW id \in Ids, poll(id)
  PROVE  OrderInv'
<1>1. client' = client /\ counter' = counter /\ server' = server /\ delivered' = delivered
  BY DEF poll
<1>2. /\ \A j \in Ids \ {id} : tcp'[j] = tcp[j] /\ Unsent(j)' = Unsent(j)
      /\ \/ tcp'[id].pipe = tcp[id].pipe /\ (Unsent(id)' = Unsent(id) \/ Unsent(id)' = <<>>)
         \/ /\ tcp'[id].pipe = tcp[id].pipe \o Unsent(id) /\ Unsent(id)' = <<>>
            /\ tcp[id].state = "open"
      /\ tcp'[id].state # tcp[id].state => tcp[id].state = "fin" /\ tcp'[id].state = "reset"
      /\ DOMAIN conns' \subseteq DOMAIN conns
      /\ \A j \in DOMAIN conns' : conns'[j].target = conns[j].target
      /\ \A j \in DOMAIN conns : j \in DOMAIN conns' \/ tcp[j].state \in {"refused", "reset"}
  <2>1. Len(tcp[id].pipe) + Len(Unsent(id)) <= Room
    BY ShortFits DEF FitInv
  <2> QED BY <2>1, PollEffect
<1>3. InOrder /\ OneFlows /\ \A j \in Ids : SidesAgree(j) /\ LateAt(j)
  BY DEF OrderInv
<1>4. InOrder'
  BY <1>1, <1>3 DEF InOrder
<1>5. \A j \in Ids : Flows(j)' <=> Flows(j)
  BY <1>2 DEF Flows
<1>6. OneFlows'
  BY <1>3, <1>5 DEF OneFlows
<1>7. ASSUME NEW j \in Ids PROVE SidesAgree(j)'
  <2>1. \/ tcp'[j].state = tcp[j].state
        \/ tcp[j].state = "fin" /\ tcp'[j].state = "reset"
    BY <1>2
  <2>2. SidesAgree(j)
    BY <1>3
  <2>3. tcp[j].state = "open" =>
          j \in DOMAIN conns' /\ conns'[j].target \in Servers
          /\ Canonical[conns'[j].target] = conns'[j].target
    BY <1>2, <2>2 DEF SidesAgree
  <2>4. ~Flows(j) => tcp'[j].pipe = tcp[j].pipe
    BY <1>2 DEF Flows
  <2> QED BY <1>1, <1>5, <2>1, <2>2, <2>3, <2>4 DEF SidesAgree
<1>8. ASSUME NEW j \in Ids, Flows(j) PROVE LateAt(j)'
  <2>1. /\ Newer(delivered, server[j].recv_buf) /\ Newer(delivered, tcp[j].pipe)
        /\ Newer(delivered, Unsent(j))
    BY <1>3, <1>8 DEF LateAt
  <2>2. tcp[j].pipe \in Bytes(sent) /\ Unsent(j) \in Bytes(sent) /\ sent \in Messages
    BY BuffersOK
  <2>3. Newer(delivered, tcp[j].pipe \o Unsent(j)) /\ Newer(delivered, <<>>)
    BY <2>1, <2>2, NewerCat, NewerEmpty
  <2>4. Newer(delivered, tcp'[j].pipe) /\ Newer(delivered, Unsent(j)')
    BY <1>2, <2>1, <2>3
  <2> QED BY <1>1, <2>1, <2>4 DEF LateAt
<1>9. \A j \in Ids : LateAt(j)'
  BY <1>5, <1>8 DEF LateAt
<1> QED BY <1>4, <1>6, <1>7, <1>9 DEF OrderInv

\* The oldest message of the only connection that has any is delivered.
LEMMA ServerOrder ==
  ASSUME StreamInv, NEW max, FitIn(max), FitInv(max), OrderInv, NEW id \in Ids, ServerNext(id)
  PROVE  OrderInv'
<1>1. /\ UNCHANGED <<client, counter, conns, dest, sent>>
      /\ \A j \in Ids \ {id} : tcp'[j] = tcp[j] /\ server'[j] = server[j]
      /\ Works(id) \/ Ends(id)
  <2>1. WholeAt(id) /\ Len(tcp[id].pipe) <= ReadSize
    BY ShortFits DEF FitInv
  <2> QED BY <2>1, ServerEffect
<1>2. InOrder /\ OneFlows /\ \A j \in Ids : SidesAgree(j) /\ LateAt(j)
  BY DEF OrderInv
<1>3. tcp \in [Ids -> SocketOf(Bytes(sent))] /\ tcp[id] \in SocketOf(Bytes(sent))
  BY DEF StreamInv, TcpOK
<1>4. Flows(id)
  <2>1. SidesAgree(id)
    BY <1>2
  <2>2. tcp[id].state \in {"none", "open", "refused", "closed", "fin", "reset"}
    BY <1>3 DEF SocketOf
  <2> QED BY <1>1, <2>1, <2>2 DEF Works, Ends, Accepted, SidesAgree, Flows
<1>5. \A j \in Ids : Unsent(j)' = Unsent(j)
  BY <1>1 DEF Unsent
<1>6. (\A j \in Ids : Flows(j)' => Flows(j)) /\ \A j \in Ids \ {id} : ~Flows(j)
  BY <1>1, <1>2, <1>4 DEF Flows, OneFlows
<1>7. OneFlows'
  BY <1>2, <1>6 DEF OneFlows
<1>8. ASSUME NEW j \in Ids PROVE SidesAgree(j)'
  <2>1. SidesAgree(j)
    BY <1>2
  <2>2. CASE j # id
    BY <1>1, <2>1, <2>2 DEF SidesAgree, Flows
  <2>3. CASE j = id /\ Works(id)
    <3>1. tcp'[id].state = tcp[id].state /\ server'[id].pc \notin {"none", "dropped"}
      BY <2>3 DEF Works, Accepted
    <3> QED BY <1>1, <1>4, <2>1, <2>3, <3>1 DEF SidesAgree, Flows
  <2>4. CASE j = id /\ Ends(id)
    <3>1. /\ server'[id].pc = "dropped" /\ server'[id].recv_buf = <<>> /\ tcp'[id].pipe = <<>>
          /\ tcp[id].state = "closed" => tcp'[id].state = "closed"
          /\ tcp[id].state # "closed" => tcp'[id].state \in {"fin", "reset"}
      BY <2>4 DEF Ends
    <3>2. ~(id > counter)
      BY <1>4, <2>1, <2>4 DEF SidesAgree, Flows
    <3> QED BY <1>1, <2>1, <2>4, <3>1, <3>2 DEF SidesAgree, Flows
  <2> QED BY <1>1, <2>2, <2>3, <2>4
<1> DEFINE b == server[id].recv_buf  p == tcp[id].pipe  u == Unsent(id)
<1>9. /\ sent \in Messages /\ b \in Bytes(sent) /\ p \in Bytes(sent) /\ u \in Bytes(sent)
      /\ delivered \in Seq(DOMAIN sent \cup {Garbage})
  BY BuffersOK DEF StreamInv, DeliveredOK
<1>10. Newer(delivered, b) /\ Newer(delivered, p) /\ Newer(delivered, u)
  BY <1>2, <1>4 DEF LateAt
<1>11. Whole(sent, b, p, u)
  BY DEF FitInv, WholeAt
<1>12. CASE /\ b # <<>> /\ server'[id].recv_buf = Rest(b) /\ tcp'[id].pipe = p
            /\ delivered' = Append(delivered, b[1].msg)
  <2> DEFINE n == b[1].msg
  <2> HIDE DEF b, p, u
  <2>1. /\ n \in DOMAIN sent /\ \A i \in DOMAIN Rest(b) : n < Rest(b)[i].msg
        /\ \A i \in DOMAIN p : n < p[i].msg
        /\ \A i \in DOMAIN u : n < u[i].msg
    BY <1>9, <1>11, <1>12, WholeParsed DEF Rest
  <2>2. \A i \in DOMAIN Rest(b) : \E j \in DOMAIN b : Rest(b)[i] = b[j]
    BY <1>9, <1>11, <1>12, PackedFirst DEF Rest, Whole
  <2>3. Newer(delivered, Rest(b))
    BY <1>10, <2>2 DEF Newer
  <2>4. \A k \in DOMAIN delivered : delivered[k] < n
    <3>1. 1 \in DOMAIN b
      BY <1>9, <1>12 DEF Bytes
    <3> QED BY <1>10, <3>1 DEF Newer
  <2> HIDE DEF n
  <2>5. n \in DOMAIN sent \cup {Garbage} /\ delivered' = Append(delivered, n)
    BY <1>12, <2>1 DEF n
  <2>6. Newer(delivered', Rest(b)) /\ Newer(delivered', p) /\ Newer(delivered', u)
    BY <1>9, <1>10, <2>1, <2>3, <2>5, NewerAppend
  <2>7. InOrder'
    <3>1. n # Garbage
      BY <1>9, <2>1 DEF Garbage, Messages
    <3>2. /\ Len(delivered) \in Nat /\ DOMAIN delivered = 1..Len(delivered)
          /\ DOMAIN delivered' = 1..(Len(delivered) + 1)
          /\ delivered'[Len(delivered) + 1] = n
          /\ \A k \in 1..Len(delivered) : delivered'[k] = delivered[k]
      BY <1>9, <2>5
    <3>3. ASSUME NEW i \in DOMAIN delivered'
          PROVE  delivered'[i] # Garbage /\ \A j \in 1..(i - 1) : delivered'[j] < delivered'[i]
      <4>1. CASE i \in 1..Len(delivered)
        <5>1. \A j \in 1..(i - 1) : j \in 1..Len(delivered)
          BY <3>2, <4>1
        <5> QED BY <1>2, <3>2, <4>1, <5>1 DEF InOrder
      <4>2. CASE i = Len(delivered) + 1
        <5>1. \A j \in 1..(i - 1) : j \in 1..Len(delivered)
          BY <3>2, <4>2
        <5> QED BY <2>4, <3>1, <3>2, <4>2, <5>1
      <4> QED BY <3>2, <4>1, <4>2
    <3> QED BY <3>3 DEF InOrder
  <2>8. LateAt(id)'
    <3>1. Unsent(id)' = u
      BY <1>5 DEF u
    <3> QED BY <1>12, <2>6, <3>1 DEF LateAt
  <2> QED BY <1>6, <1>7, <1>8, <2>7, <2>8 DEF OrderInv, LateAt
<1>13. CASE /\ delivered' = delivered
            /\ \/ server'[id].recv_buf = b /\ tcp'[id].pipe = p
               \/ server'[id].recv_buf = b \o p /\ tcp'[id].pipe = <<>>
               \/ server'[id].recv_buf = <<>> /\ tcp'[id].pipe = <<>>
  <2> HIDE DEF b, p, u
  <2>1. Newer(delivered, b \o p) /\ Newer(delivered, <<>>)
    BY <1>9, <1>10, NewerCat, NewerEmpty
  <2>2. Newer(delivered, server'[id].recv_buf) /\ Newer(delivered, tcp'[id].pipe)
    BY <1>10, <1>13, <2>1
  <2>3. LateAt(id)'
    <3>1. Unsent(id)' = u
      BY <1>5 DEF u
    <3> QED BY <1>10, <1>13, <2>2, <3>1 DEF LateAt
  <2>4. InOrder'
    BY <1>2, <1>13 DEF InOrder
  <2> QED BY <1>6, <1>7, <1>8, <2>3, <2>4 DEF OrderInv, LateAt
<1> QED BY <1>1, <1>12, <1>13 DEF Works, Ends, Moves

\* OrderInv is inductive where packets fit and one address is listened at.
THEOREM OrderSafe ==
  ASSUME NEW max, FitIn(max), OneServer
  PROVE  Spec => []OrderInv
<1>1. Init => OrderInv
  <2> SUFFICES ASSUME Init PROVE OrderInv
    OBVIOUS
  <2>1. delivered = <<>> /\ DOMAIN <<>> = {}
    BY DEF Init
  <2>2. \A id \in Ids : /\ tcp[id].state = "none" /\ tcp[id].pipe = <<>>
                        /\ server[id].recv_buf = <<>> /\ server[id].pc = "none"
    BY DEF Init
  <2>3. \A id \in Ids : ~Flows(id)
    BY <2>2 DEF Flows
  <2>4. \A id \in Ids : SidesAgree(id) /\ LateAt(id)
    BY <2>2, <2>3 DEF SidesAgree, LateAt
  <2> QED BY <2>1, <2>3, <2>4 DEF OrderInv, InOrder, OneFlows
<1>2. StreamInv /\ FitInv(max) /\ OrderInv /\ [Next]_vars => OrderInv'
  <2> SUFFICES ASSUME StreamInv, FitInv(max), OrderInv, [Next]_vars PROVE OrderInv'
    OBVIOUS
  <2>1. CASE UNCHANGED vars
    BY <2>1 DEF vars, OrderInv, InOrder, OneFlows, SidesAgree, Flows, LateAt, Newer, Unsent
  <2> QED BY <2>1, SendOrder, PollOrder, ServerOrder DEF Next
<1> QED BY <1>1, <1>2, StreamSafe, FitSafe, PTL DEF Spec

\* What arrives was sent, in the order it was sent and once, also when the
\* server closed a connection under the client and it reconnected: as long as
\* all that is sent fits one write and one read, and the server listens at one
\* address (over two, nothing orders what one of them gets against the other).
THEOREM ArrivesInOrder ==
  ASSUME NEW max, FitIn(max), OneServer
  PROVE  Spec => []InOrder
<1>1. OrderInv => InOrder
  BY DEF OrderInv
<1> QED BY <1>1, OrderSafe, PTL

=============================================================================
