------------------------------- MODULE Remote -------------------------------
(***************************************************************************)
(* Envelopes that leave a System for another one: the Client actor of the  *)
(* sender (src/src/remote/client.rs), the packets (packet.rs) on a TCP     *)
(* connection, and the Server and Connection actors of the receiver        *)
(* (server.rs).  One Client, any number of hosts, all connections of which *)
(* end at one Server.                                                      *)
(*                                                                         *)
(* A byte is a cell: the number of the message it belongs to and its       *)
(* place in that message's packet, so that what from_bytes makes of a      *)
(* stream is known.  The n-th message ever put is n.                       *)
(*                                                                         *)
(* External, modelled from how the code uses it: mio (edge-triggered       *)
(* readiness; reregister() reports readiness again), TCP (reliable, in     *)
(* order until reset) and parsed::ByteStream, whose get_*() move a cursor  *)
(* over the buffered bytes, whose pull() forgets what the cursor passed    *)
(* and whose len() counts all it has not forgotten.  It is assumed not to  *)
(* run out of capacity.  The server never writes: its send_buf, can_write  *)
(* and the client's recv_buf stay empty and are left out.                  *)
(***************************************************************************)
EXTENDS Naturals, Sequences, FiniteSetsExt, Functions

CONSTANTS
  Hosts,       \* what may follow the @ of an address
  Servers,     \* those of them the Server listens at
  Unparsable,  \* those that are not a SocketAddr
  Canonical,   \* the SocketAddr of each, as text: \in [Hosts -> Hosts]
  Shapes,      \* [names, payload]: the lengths a packet may have
  Header,      \* bytes of a packet before the names (3 u32 and a u16)
  Limit,       \* PACKET_SIZE_LIMIT
  ReadSize,    \* length of the buffer of one read()
  Room,        \* bytes that a connection holds before write() would block
  MaxPuts      \* bound of the model: messages sent

ASSUME RemoteAssumption ==
  /\ Servers \subseteq Hosts /\ Unparsable \subseteq Hosts
  /\ Canonical \in [Hosts -> Hosts]
  /\ \A h \in Hosts : Canonical[Canonical[h]] = Canonical[h]
  /\ Shapes \subseteq [names : Nat, payload : Nat]
  /\ {Header, Limit, ReadSize, Room, MaxPuts} \subseteq Nat /\ Header # 0

Ids == 1..MaxPuts

VARIABLES
  client,     \* "alive", or "failed": a panic of receive() ended the actor
  counter,    \* Client.counter, the last id tried
  conns,      \* Client.connections: id -> [target, send_buf]
  dest,       \* Client.destinations: host -> id
  tcp,        \* external: id -> [state, pipe, edge], see below
  server,     \* id -> the Connection actor
  sent,       \* the messages given to the Client: [host, shape]
  delivered   \* what the Connections have sent to local actors

vars == <<client, counter, conns, dest, tcp, server, sent, delivered>>

Garbage == 0
Cell == [msg : Ids, at : Nat]

ClientConn == [target : Hosts, send_buf : Seq(Cell)]

\* state: "none"; "open"; "refused": nobody listens; "closed": by the client;
\* "fin": closed by the server; "reset": the same, and the client knows.
\* edge: the server's poll has an event to report.
Socket == [state : {"none", "open", "refused", "closed", "fin", "reset"},
           pipe : Seq(Cell), edge : BOOLEAN]

\* pc: "none": not accepted; "idle"; "parsing": in the loop of receive();
\* "stopping": stop(me) after a read; "refused": the same after a parse error;
\* "panicked"; "dropped".  mail: Work.is_readable of the Works in its mailbox.
ServerConn == [pc : {"none", "idle", "parsing", "stopping", "refused",
                     "panicked", "dropped"},
               recv_buf : Seq(Cell), pos : Nat, mail : Seq(BOOLEAN)]

TypeOK ==
  /\ client \in {"alive", "failed"} /\ counter \in 0..MaxPuts
  /\ DOMAIN conns \subseteq 1..counter /\ Range(conns) \subseteq ClientConn
  /\ DOMAIN dest \subseteq Hosts /\ Range(dest) \subseteq Ids
  /\ tcp \in [Ids -> Socket] /\ server \in [Ids -> ServerConn]
  /\ sent \in Seq([host : Hosts, shape : Shapes]) /\ delivered \in Seq(Ids \cup {Garbage})

Init ==
  /\ client = "alive" /\ counter = 0
  /\ conns = <<>> /\ dest = <<>>
  /\ tcp = [i \in Ids |-> [state |-> "none", pipe |-> <<>>, edge |-> FALSE]]
  /\ server = [i \in Ids |-> [pc |-> "none", recv_buf |-> <<>>, pos |-> 0, mail |-> <<>>]]
  /\ sent = <<>> /\ delivered = <<>>

-----------------------------------------------------------------------------
(* Packets.                                                                *)

Total(shape) == Header + shape.names + shape.payload

\* The bytes of message n.
to_bytes(n, shape) == [k \in 1..Total(shape) |-> [msg |-> n, at |-> k]]

\* What get_u32() x 3 may say of a packet's length: these are the first bytes
\* of a packet, or text and payload, which can say anything.
Totals(header) ==
  IF header = SubSeq(to_bytes(header[1].msg, sent[header[1].msg].shape), 1, Header)
  THEN {Total(sent[header[1].msg].shape)}
  ELSE Header..(Limit + 1)

\* The message that these bytes are, if they are one.
Message(bytes) ==
  IF \E n \in DOMAIN sent : bytes = to_bytes(n, sent[n].shape)
  THEN bytes[1].msg ELSE Garbage

\* Mutant: off by one at the limit.
TooLongFrom(total) == total >= Limit
TooLong(total) == total > Limit

\* The outcomes of Packet::from_bytes on a buffer with its cursor at pos.
None(pos) == [is |-> "None", pos |-> pos]
from_bytes(buf, pos) ==
  IF Len(buf) <= Header THEN {None(pos)}
  ELSE IF Len(buf) - pos < Header THEN {[is |-> "panic"]}
  ELSE {IF TooLong(total) THEN [is |-> "Err"]
        ELSE IF Len(buf) < total THEN None(pos + Header)
        ELSE IF Len(buf) - pos < total THEN [is |-> "panic"]
        ELSE [is |-> "Some", msg |-> Message(SubSeq(buf, pos + 1, pos + total)),
              rest |-> SubSeq(buf, pos + total + 1, Len(buf))] :
          total \in Totals(SubSeq(buf, pos + 1, pos + Header))}

-----------------------------------------------------------------------------
(* The Client actor.                                                       *)

\* HashMap::insert; remove is Restrict.
Insert(map, key, value) ==
  [k \in DOMAIN map \cup {key} |-> IF k = key THEN value ELSE map[k]]

\* A panic in receive(): the actor is dropped, with its sockets.
Fail ==
  /\ client' = "failed"
  /\ conns' = <<>> /\ dest' = <<>>
  /\ tcp' = [i \in Ids |-> IF tcp[i].state = "open"
                           THEN [tcp[i] EXCEPT !.state = "closed", !.edge = TRUE] ELSE tcp[i]]

put(id, shape, conns1) ==
  conns' = [conns1 EXCEPT ![id].send_buf = @ \o to_bytes(Len(sent) + 1, shape)]

\* A Vec<u8> for somebody @host: the connection is there, ...
SendConnected(host, shape) ==
  /\ host \in DOMAIN dest
  /\ IF dest[host] \in DOMAIN conns
     THEN put(dest[host], shape, conns) /\ UNCHANGED <<client, dest, tcp>>
     ELSE Fail
  /\ UNCHANGED counter

\* Mutant: the id taken before the counter moves.
NextIdLate == counter
NextId == counter + 1

\* ... or is made: under the text of the address, while put looks for host.
connect(host, shape) ==
  LET id == NextId
      target == Canonical[host]
  IN
  /\ host \notin DOMAIN dest
  /\ counter' = counter + 1
  /\ \/ host \in Unparsable /\ UNCHANGED <<client, conns, dest, tcp>>
     \/ /\ host \notin Unparsable /\ target = host
        /\ dest' = Insert(dest, host, id)
        /\ put(id, shape, Insert(conns, id, [target |-> target, send_buf |-> <<>>]))
        /\ tcp' = [tcp EXCEPT ![id].state = IF target \in Servers THEN "open" ELSE "refused"]
        /\ UNCHANGED client
     \/ host \notin Unparsable /\ target # host /\ Fail

Send(host, shape) ==
  /\ client = "alive" /\ Len(sent) < MaxPuts
  /\ SendConnected(host, shape) \/ connect(host, shape)
  /\ sent' = Append(sent, [host |-> host, shape |-> shape])
  /\ UNCHANGED <<server, delivered>>

\* Connection::send: write_all() writes what there is room for; the buffer is
\* cleared only when that was all of it.
written(id) ==
  LET free == Room - Len(tcp[id].pipe)
      buf == conns[id].send_buf
  IN  IF tcp[id].state \notin {"open", "fin"} THEN <<>>
      ELSE SubSeq(buf, 1, Min({free, Len(buf)}))

\* Mutant: the buffer is kept for the next event.
KeptAfter(buf, bytes) == buf
LeftAfter(buf, bytes) == IF bytes = buf THEN <<>> ELSE buf

\* The socket after the client wrote bytes.
Wrote(socket, bytes) ==
  IF bytes = <<>> THEN socket
  ELSE IF socket.state = "fin" THEN [socket EXCEPT !.state = "reset"]
  ELSE [socket EXCEPT !.pipe = @ \o bytes, !.edge = TRUE]

\* Mutant: only a connection that never was is closed.
RefusedWrites(id) == tcp[id].state = "refused"
is_write_closed(id) == tcp[id].state \in {"refused", "reset"}

\* Mutant: the destination outlives its connection.
DestKept(id) == dest
DestWithout(id) == Restrict(dest, DOMAIN dest \ {conns[id].target})

\* Client::poll, the turn of one event.  A refused or reset connection is
\* write_closed.  One the server closed is readable and read_closed, but also
\* writable: is_open is overwritten and the connection kept.
poll(id) ==
  /\ id \in DOMAIN conns
  /\ is_write_closed(id) \/ Len(tcp[id].pipe) < Room   \* is_writable
  /\ tcp' = [tcp EXCEPT ![id] = Wrote(@, written(id))]
  /\ \/ /\ ~is_write_closed(id)
        /\ conns' = [conns EXCEPT ![id].send_buf = LeftAfter(@, written(id))]
        /\ UNCHANGED dest
     \/ /\ is_write_closed(id)
        /\ conns' = Restrict(conns, DOMAIN conns \ {id})
        /\ dest' = DestWithout(id)
  /\ UNCHANGED <<client, counter, server, sent, delivered>>

-----------------------------------------------------------------------------
(* The Server actor and its Connections.                                   *)

accept(id) ==
  /\ tcp[id].state \in {"open", "closed"} /\ server[id].pc = "none"
  /\ tcp' = [tcp EXCEPT ![id].edge = TRUE]
  /\ server' = [server EXCEPT ![id].pc = "idle"]
  /\ UNCHANGED <<client, counter, conns, dest, sent, delivered>>

\* An event of a connection becomes a Work for its actor.
Dispatch(id) ==
  /\ server[id].pc \notin {"none", "dropped"} /\ tcp[id].edge
  /\ tcp' = [tcp EXCEPT ![id].edge = FALSE]
  /\ server' = [server EXCEPT ![id].mail =
                  Append(@, tcp[id].pipe # <<>> \/ tcp[id].state = "closed")]
  /\ UNCHANGED <<client, counter, conns, dest, sent, delivered>>

\* Connection::receive of a Work, up to its loop.  A read that finds nothing,
\* for whatever reason, closes the connection.
receive(id) ==
  LET n == Min({ReadSize, Len(tcp[id].pipe)})
      can_read == Head(server[id].mail)
  IN
  /\ server[id].pc = "idle" /\ server[id].mail # <<>>
  /\ server' = [server EXCEPT ![id].mail = Tail(@),
                  ![id].pc = IF can_read /\ n = 0 THEN "stopping" ELSE "parsing",
                  ![id].recv_buf = IF can_read THEN @ \o SubSeq(tcp[id].pipe, 1, n) ELSE @]
  /\ tcp' = [tcp EXCEPT ![id].pipe = IF can_read THEN SubSeq(@, n + 1, Len(@)) ELSE @]
  /\ UNCHANGED <<client, counter, conns, dest, sent, delivered>>

\* One turn of the loop.
parse(id) ==
  /\ server[id].pc = "parsing"
  /\ \E r \in from_bytes(server[id].recv_buf, server[id].pos) :
       \/ /\ r.is = "Some"
          /\ server' = [server EXCEPT ![id].recv_buf = r.rest, ![id].pos = 0]
          /\ delivered' = Append(delivered, r.msg)
       \/ /\ r.is = "None"
          /\ server' = [server EXCEPT ![id].pc = "idle", ![id].pos = r.pos]
          /\ UNCHANGED delivered
       \/ /\ r.is \in {"Err", "panic"}
          /\ server' = [server EXCEPT ![id].pc = IF r.is = "Err" THEN "refused" ELSE "panicked"]
          /\ UNCHANGED delivered
  /\ UNCHANGED <<client, counter, conns, dest, tcp, sent>>

\* The scheduler has dropped the actor, and so its socket: with a reset when
\* bytes were left unread.
Dropped(id) ==
  /\ server[id].pc \in {"stopping", "refused", "panicked"}
  /\ server' = [server EXCEPT ![id] = [pc |-> "dropped", recv_buf |-> <<>>, pos |-> 0, mail |-> <<>>]]
  /\ tcp' = [tcp EXCEPT ![id] =
               [state |-> IF @.state = "closed" THEN "closed"
                          ELSE IF @.pipe = <<>> THEN "fin" ELSE "reset",
                pipe |-> <<>>, edge |-> FALSE]]
  /\ UNCHANGED <<client, counter, conns, dest, sent, delivered>>

-----------------------------------------------------------------------------

ServerNext(id) == accept(id) \/ Dispatch(id) \/ receive(id) \/ parse(id) \/ Dropped(id)

Next ==
  \/ \E host \in Hosts, shape \in Shapes : Send(host, shape)
  \/ \E id \in Ids : poll(id) \/ ServerNext(id)

\* Both Loops send themselves the next turn, and a readiness that is not
\* handled is reported again or stays in a mailbox.  Nobody has to send.
Fairness == \A id \in Ids : WF_vars(poll(id)) /\ WF_vars(ServerNext(id))

Spec == Init /\ [][Next]_vars /\ Fairness

-----------------------------------------------------------------------------
(* Properties.                                                             *)

\* destinations and connections name each other: put() finds its connection,
\* no event finds its connection gone, and no host is left without a way to
\* reconnect; across refusals, resets and reconnects.
DestinationsLive ==
  /\ \A h \in DOMAIN dest : dest[h] \in DOMAIN conns /\ conns[dest[h]].target = h
  /\ \A id \in DOMAIN conns : conns[id].target \in DOMAIN dest /\ dest[conns[id].target] = id

\* The Client fails only for a host that is not written as its address is.
ClientSurvives ==
  client = "failed" => \E n \in DOMAIN sent : Canonical[sent[n].host] # sent[n].host

\* What arrives was sent, in the order it was sent and once: also when the
\* server closed a connection under the client and it reconnected.
InOrder ==
  \A i \in DOMAIN delivered :
    delivered[i] # Garbage /\ \A j \in 1..(i - 1) : delivered[j] < delivered[i]

\* "Naive check if such stream will ever match into a Packet": a stream is
\* refused, or the parser panics, only when a packet longer than the limit is
\* in it.
RefusedOnlyTooLong ==
  \A id \in Ids : server[id].pc \in {"refused", "panicked"} =>
    \E n \in DOMAIN sent : Total(sent[n].shape) > Limit

\* Every message arrives (of those for a server that is listening).
Delivered ==
  \A n \in Ids : (n \in DOMAIN sent) ~> (\E i \in DOMAIN delivered : delivered[i] = n)

\* A connection that the client knows is dead is forgotten, so that the next
\* message for its host makes another.
Forgotten ==
  \A id \in Ids : (tcp[id].state \in {"refused", "reset"}) ~> (id \notin DOMAIN conns)

=============================================================================
