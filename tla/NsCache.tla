------------------------------ MODULE NsCache -------------------------------
(***************************************************************************)
(* The server of nscache (src/nscache.c): a table of UDP clients, a table  *)
(* of TCP clients and the loop that polls their sockets, lets each query   *)
(* get on and takes new clients in.  A new client of a full table takes    *)
(* the place of the oldest one.                                            *)
(*                                                                         *)
(* A query is what Query models: query_start and query_get return -1       *)
(* (failed), 0 (waiting) or 1 (there is a response).  The names, addresses *)
(* and packets are left out: a peer is the number of its arrival, and the  *)
(* id and the question of a request are the number the request gets.       *)
(* Packets that packetquery refuses are an outcome, not a content.         *)
(***************************************************************************)
EXTENDS Integers, Sequences, FiniteSets, FiniteSetsExt

CONSTANTS
  MAXUDP, MAXTCP, \* slots of the tables, 200 and 20 in the code
  Idle,           \* seconds until a silent TCP client is closed, 10 in the code
  MaxWait,        \* seconds the loop waits at most, 120 in the code
  Base,           \* values of a byte, 256 in the code
  Lengths,        \* the lengths of responses
  Times,          \* what taia_now may say: the wall clock can be set
  Fds,            \* descriptors that accept can return
  MaxPackets,     \* bound: UDP packets that arrive
  MaxCalls,       \* bound: TCP connections that arrive
  MaxBytes        \* bound: bytes that TCP clients send

ASSUME TableAssumption == MAXUDP \in Nat \ {0} /\ MAXTCP \in Nat \ {0}
ASSUME TimeAssumption == /\ Idle \in Nat /\ MaxWait \in Nat
                         /\ Times \subseteq Nat /\ Times # {}
ASSUME DataAssumption == /\ Base \in Nat \ {0}
                         /\ Lengths \subseteq Nat
                         /\ Fds \subseteq Nat
                         /\ MaxPackets \in Nat /\ MaxCalls \in Nat
                         /\ MaxBytes \in Nat

UDP == 0 .. MAXUDP - 1
TCP == 0 .. MAXTCP - 1

VARIABLES
  u,          \* the UDP clients
  t,          \* the TCP clients
  uactive, tactive, numqueries,
  pc, at,     \* where nscache_run is, and at which slot
  io,         \* the array given to poll: whose descriptor each entry holds
  revents,    \* the entries poll reported
  due,        \* TCP clients whose timeout lies before stamp
  wait,       \* seconds left until poll gives up
  \* The kernel and the clients:
  fds,        \* open descriptors of TCP clients
  in,         \* bytes that wait on each descriptor
  gone,       \* descriptors whose peer has closed
  packets,    \* UDP packets that have arrived
  calls,      \* TCP connections that have arrived
  bytes,      \* bytes sent so far
  \* History:
  asked,      \* asked[n]: the peer of query n
  ends,       \* ends[n]: how often query n was logged as sent or dropped
  reply       \* the last response of this time round the loop: query number,
              \* peer, id and question

vars == <<u, t, uactive, tactive, numqueries, pc, at, io, revents, due, wait,
          fds, in, gone, packets, calls, bytes, asked, ends, reply>>

loop == <<pc, at, io, revents, due, wait>>
kernel == <<fds, in, gone, packets, calls, bytes>>

\* The clients that have come so far; a new one's peer is the next number.
arrivals == packets + calls
history == <<asked, ends, reply>>

NoReply == [num |-> 0, to |-> 0, id |-> 0, q |-> 0]

Busy(table) == {j \in DOMAIN table : table[j].active # 0}

Init ==
  /\ u = [j \in UDP |-> [active |-> 0, start |-> 0, io |-> 0, run |-> 0,
                         peer |-> 0, id |-> 0, q |-> 0]]
  /\ t = [j \in TCP |-> [active |-> 0, start |-> 0, io |-> 0, run |-> 0,
                         peer |-> 0, id |-> 0, q |-> 0, fd |-> 0, state |-> 0,
                         buf |-> 0, len |-> 0, pos |-> 0, left |-> 0]]
  /\ uactive = 0 /\ tactive = 0 /\ numqueries = 0
  /\ pc = "top" /\ at = 0 /\ io = <<>> /\ revents = {} /\ due = {} /\ wait = 0
  /\ fds = {} /\ in = [f \in Fds |-> 0] /\ gone = {}
  /\ packets = 0 /\ calls = 0 /\ bytes = 0
  /\ asked = <<>> /\ ends = <<>>
  /\ reply = NoReply

-----------------------------------------------------------------------------
(* The head of the loop: the array for poll, and the wait.                 *)

\* The number of members of S below j, and the i-th member of S.
Below(S, j) == Cardinality({i \in S : i < j})
Nth(S, i) == CHOOSE j \in S : Below(S, j) = i - 1

Entries ==
  <<<<"udp53", 0>>, <<"tcp53", 0>>>>
    \o [i \in 1 .. Cardinality(Busy(u)) |-> <<"udp", Nth(Busy(u), i)>>]
    \o [i \in 1 .. Cardinality(Busy(t)) |-> <<"tcp", Nth(Busy(t), i)>>]

\* How long poll waits at most: until the first deadline (and then 20 ms,
\* here the next second), or not at all when a deadline has passed.
Wait ==
  LET left == {MaxWait} \cup {t[j].left : j \in {i \in Busy(t) : t[i].state # 0}}
  IN  IF Min(left) < 0 THEN 0 ELSE Min(left) + 1

\* Mutant: entries are handed out in both tables from the same place.
Top_Shared ==
  /\ pc = "top"
  /\ io' = Entries
  /\ u' = [j \in UDP |-> IF u[j].active # 0
                           THEN [u[j] EXCEPT !.io = 3 + Below(Busy(u), j)]
                           ELSE u[j]]
  /\ t' = [j \in TCP |-> IF t[j].active # 0
                           THEN [t[j] EXCEPT !.io = 3 + Below(Busy(t), j)]
                           ELSE t[j]]
  /\ due' = {j \in Busy(t) : t[j].left < 0}
  /\ wait' = Wait
  /\ pc' = "poll"
  /\ revents' = {}
  /\ reply' = NoReply
  /\ UNCHANGED <<uactive, tactive, numqueries, at, kernel, asked, ends>>

Top ==
  /\ pc = "top"
  /\ io' = Entries
  /\ u' = [j \in UDP |-> IF u[j].active # 0
                           THEN [u[j] EXCEPT !.io = 3 + Below(Busy(u), j)]
                           ELSE u[j]]
  /\ t' = [j \in TCP |-> IF t[j].active # 0
                           THEN [t[j] EXCEPT !.io = 3 + Cardinality(Busy(u))
                                                      + Below(Busy(t), j)]
                           ELSE t[j]]
  /\ due' = {j \in Busy(t) : t[j].left < 0}
  /\ wait' = Wait
  /\ pc' = "poll"
  /\ revents' = {}
  /\ reply' = NoReply
  /\ UNCHANGED <<uactive, tactive, numqueries, at, kernel, asked, ends>>

\* A second passes in poll.  Timeouts that have passed are all alike.
Tick ==
  /\ pc = "poll"
  /\ wait > 0
  /\ wait' = wait - 1
  /\ t' = [j \in TCP |-> IF t[j].active # 0 /\ t[j].left >= 0
                           THEN [t[j] EXCEPT !.left = @ - 1]
                           ELSE t[j]]
  /\ UNCHANGED <<u, uactive, tactive, numqueries, pc, at, io, revents, due,
                 kernel, history>>

\* What poll must report, and what it may: a client that has sent something
\* or left while its request is awaited; room to write, packets for the
\* resolver and new clients come as they like.  A packet for the query of a
\* UDP client is seen by query_get alone, whose outcome is free.
Readable(j) == t[j].state > 0 /\ (in[t[j].fd] > 0 \/ t[j].fd \in gone)

Must(k) == io[k][1] = "tcp" /\ Readable(io[k][2])

May(k) == \/ Must(k)
          \/ io[k][1] = "tcp" /\ t[io[k][2]].state <= 0
          \/ io[k][1] = "udp53" /\ packets < MaxPackets
          \/ io[k][1] = "tcp53" /\ calls < MaxCalls

\* iopause returns, where it is built with poll.  It clears revents before the
\* call, so that a failed poll reports nothing.
iopause ==
  /\ pc = "poll"
  /\ \/ revents' = {}
     \/ \E R \in SUBSET {k \in DOMAIN io : May(k)} :
          /\ \A k \in DOMAIN io : Must(k) => k \in R
          /\ revents' = R
  /\ pc' = "udp"
  /\ at' = 0
  /\ wait' = 0
  /\ UNCHANGED <<u, t, uactive, tactive, numqueries, io, due, kernel, history>>

-----------------------------------------------------------------------------
(* The loops over the tables.                                              *)

UdpAdvance == IF at + 1 < MAXUDP THEN pc' = pc /\ at' = at + 1
                                 ELSE pc' = "tcp" /\ at' = 0

TcpAdvance == IF at + 1 < MAXTCP THEN pc' = pc /\ at' = at + 1
                                 ELSE pc' = "udp_new" /\ at' = 0

\* A query ends: it is logged as sent or as dropped.
End(n) == ends' = [ends EXCEPT ![n] = @ + 1]

\* What a response says and to whom it goes.
Response(x) == [num |-> x.active, to |-> x.peer, id |-> x.id, q |-> x.q]

\* The slot is free, or query_get says that the query is still under way.
UdpPass ==
  /\ pc = "udp"
  /\ UdpAdvance
  /\ UNCHANGED <<u, t, uactive, tactive, numqueries, io, revents, due, wait,
                 kernel, history>>

\* Mutant: the client is told and the slot kept.
udp_drop_Keeps ==
  /\ pc = "udp" /\ u[at].active # 0
  /\ End(u[at].active)
  /\ u' = [u EXCEPT ![at].run = 0]
  /\ UdpAdvance
  /\ UNCHANGED <<t, uactive, tactive, numqueries, io, revents, due, wait,
                 kernel, asked, reply>>

\* query_get gives up.
udp_drop ==
  /\ pc = "udp" /\ u[at].active # 0
  /\ End(u[at].active)
  /\ u' = [u EXCEPT ![at].active = 0, ![at].run = 0]
  /\ uactive' = uactive - 1
  /\ UdpAdvance
  /\ UNCHANGED <<t, tactive, numqueries, io, revents, due, wait, kernel,
                 asked, reply>>

\* query_get has the response.
udp_respond ==
  /\ pc = "udp" /\ u[at].active # 0
  /\ reply' = Response(u[at])
  /\ End(u[at].active)
  /\ u' = [u EXCEPT ![at].active = 0, ![at].run = 0]
  /\ uactive' = uactive - 1
  /\ UdpAdvance
  /\ UNCHANGED <<t, tactive, numqueries, io, revents, due, wait, kernel, asked>>

\* The TCP client at the head of the loop body: its timeout starts again
\* when poll reported its entry.
tcp_timeout(x) == IF x.io \in revents THEN [x EXCEPT !.left = Idle] ELSE x

Turn(j) == pc = "tcp" /\ at = j /\ t[j].active # 0

\* Mutant: only what poll reports brings a client to tcp_rw.
Served_NoTimeout(j) == /\ Turn(j)
                       /\ t[j].io \in revents

\* tcp_rw is called: there is something to do, or the timeout had passed
\* when stamp was taken, which is before poll.
Served(j) == /\ Turn(j)
             /\ t[j].io \in revents \/ j \in due

tcp_free(x) == [x EXCEPT !.buf = 0]

\* tcp_close on the client that x describes.
tcp_close(j, x) ==
  /\ t' = [t EXCEPT ![j] = [tcp_free(x) EXCEPT !.active = 0]]
  /\ tactive' = tactive - 1
  /\ fds' = fds \ {x.fd}

\* tcp_respond for x.  Without memory the client is closed.
tcp_respond(j, x) ==
  \/ \E n \in Lengths :
       /\ t' = [t EXCEPT ![j] = [x EXCEPT !.len = n + 2, !.buf = 1, !.pos = 0,
                                          !.state = -1]]
       /\ reply' = Response(x)
       /\ UNCHANGED <<tactive, fds>>
  \/ tcp_close(j, x) /\ UNCHANGED reply

TcpPass(j) ==
  /\ pc = "tcp" /\ at = j
  /\ \/ t[j].active = 0 /\ t' = t
     \/ t[j].active # 0 /\ t[j].state = 0 /\ t' = [t EXCEPT ![j] = tcp_timeout(@)]
     \/ Turn(j) /\ t[j].state # 0 /\ ~Served(j) /\ t' = t
  /\ TcpAdvance
  /\ UNCHANGED <<u, uactive, tactive, numqueries, io, revents, due, wait,
                 kernel, history>>

\* query_get gives up: tcp_drop.
TcpDrop(j) ==
  /\ Turn(j) /\ t[j].state = 0
  /\ End(t[j].active)
  /\ tcp_close(j, [tcp_timeout(t[j]) EXCEPT !.run = 0])
  /\ TcpAdvance
  /\ UNCHANGED <<u, uactive, numqueries, io, revents, due, wait, in, gone,
                 packets, calls, bytes, asked, reply>>

\* query_get has the response.
TcpRespond(j) ==
  /\ Turn(j) /\ t[j].state = 0
  /\ End(t[j].active)
  /\ tcp_respond(j, [tcp_timeout(t[j]) EXCEPT !.run = 0])
  /\ TcpAdvance
  /\ UNCHANGED <<u, uactive, numqueries, io, revents, due, wait, in, gone,
                 packets, calls, bytes, asked>>

-----------------------------------------------------------------------------
(* tcp_rw.                                                                 *)

\* What the reading part of tcp_rw leaves alone.
ReadFrame == UNCHANGED <<u, uactive, io, revents, due, wait, gone, packets,
                       calls, bytes>>

\* Some of the response is written; after the last byte the connection waits
\* for the next request.
TcpWrite(j) ==
  /\ Served(j) /\ t[j].state = -1
  /\ \E r \in 1 .. t[j].len - t[j].pos :
       LET x == [tcp_timeout(t[j]) EXCEPT !.pos = @ + r]
       IN  t' = [t EXCEPT ![j] = IF x.pos = x.len
                                   THEN [tcp_free(x) EXCEPT !.state = 1]
                                   ELSE x]
  /\ TcpAdvance
  /\ UNCHANGED <<tactive, numqueries, fds, in, history>>
  /\ ReadFrame

\* write or read fails, or the client is gone.  A read fails when nothing is
\* there, which is so when the timeout brought the client here.
TcpBroken(j) ==
  /\ Served(j) /\ t[j].state # 0
  /\ t[j].state = -1 \/ in[t[j].fd] = 0 \/ t[j].fd \in gone
  /\ tcp_close(j, tcp_timeout(t[j]))
  /\ TcpAdvance
  /\ UNCHANGED <<numqueries, in, history>>
  /\ ReadFrame

\* A byte is read in state s.
Reads(j, s) ==
  /\ Served(j) /\ t[j].state = s
  /\ in[t[j].fd] > 0
  /\ in' = [in EXCEPT ![t[j].fd] = @ - 1]
  /\ TcpAdvance
  /\ ReadFrame

\* The first byte of the length.
TcpLengthHigh(j) ==
  /\ Reads(j, 1)
  /\ \E ch \in 0 .. Base - 1 :
       t' = [t EXCEPT ![j] = [tcp_timeout(@) EXCEPT !.len = ch * Base, !.state = 2]]
  /\ UNCHANGED <<tactive, numqueries, fds, history>>

\* The second byte.  A length of zero and a failed alloc close the client.
TcpLengthLow(j) ==
  /\ Reads(j, 2)
  /\ \E ch \in 0 .. Base - 1 :
       LET x == [tcp_timeout(t[j]) EXCEPT !.len = @ + ch]
       IN  \/ /\ x.len # 0
              /\ t' = [t EXCEPT ![j] = [x EXCEPT !.buf = 1, !.pos = 0, !.state = 3]]
              /\ UNCHANGED <<tactive, fds>>
           \/ tcp_close(j, x)
  /\ UNCHANGED <<numqueries, history>>

\* A byte of the request that is not its last.
TcpByte(j) ==
  /\ Reads(j, 3)
  /\ t[j].pos + 1 < t[j].len
  /\ t' = [t EXCEPT ![j] = [tcp_timeout(t[j]) EXCEPT !.pos = @ + 1]]
  /\ UNCHANGED <<tactive, numqueries, fds, history>>

\* The request is complete and packetquery refuses it.
TcpBadRequest(j) ==
  /\ Reads(j, 3)
  /\ t[j].pos + 1 >= t[j].len
  /\ tcp_close(j, tcp_timeout(t[j]))
  /\ UNCHANGED <<numqueries, history>>

\* query_start gives up.  For a zone transfer it does so before it clears
\* what the slot's last query has left.
Failed(x) == {[x EXCEPT !.run = 0], x}

\* Mutant: the request's buffer is forgotten when the query has to wait.
TcpRequest_Forgets(j) ==
  /\ Reads(j, 3)
  /\ t[j].pos + 1 >= t[j].len
  /\ numqueries' = numqueries + 1
  /\ asked' = Append(asked, t[j].peer)
  /\ t' = [t EXCEPT ![j] = [tcp_timeout(t[j]) EXCEPT !.active = numqueries + 1,
                !.id = numqueries + 1, !.q = numqueries + 1, !.run = 1, !.state = 0]]
  /\ ends' = Append(ends, 0)
  /\ UNCHANGED <<tactive, fds, reply>>

\* The request is complete: query_start.
TcpRequest(j) ==
  /\ Reads(j, 3)
  /\ t[j].pos + 1 >= t[j].len
  /\ numqueries' = numqueries + 1
  /\ asked' = Append(asked, t[j].peer)
  /\ LET x == [tcp_timeout(t[j]) EXCEPT !.active = numqueries + 1,
                                        !.id = numqueries + 1,
                                        !.q = numqueries + 1,
                                        !.pos = @ + 1]
     IN  \/ /\ \E y \in Failed(x) : tcp_close(j, y)
            /\ ends' = Append(ends, 1)
            /\ UNCHANGED reply
         \/ /\ tcp_respond(j, [x EXCEPT !.run = 0])
            /\ ends' = Append(ends, 1)
         \/ /\ t' = [t EXCEPT ![j] = [tcp_free(x) EXCEPT !.run = 1, !.state = 0]]
            /\ ends' = Append(ends, 0)
            /\ UNCHANGED <<tactive, fds, reply>>

-----------------------------------------------------------------------------
(* New clients.                                                            *)

\* The first free slot, or else the first of those with the least start, which
\* is what the scan ends with.
Slot(table) ==
  CHOOSE j \in DOMAIN table :
    \A i \in DOMAIN table :
      IF Busy(table) # DOMAIN table
        THEN table[j].active = 0 /\ (table[i].active = 0 => j <= i)
        ELSE \/ table[j].start < table[i].start
             \/ table[j].start = table[i].start /\ j <= i

One(x) == IF x.active # 0 THEN 1 ELSE 0

\* The query that leaves a full table is logged as dropped; so is a TCP
\* client's, when one is under way.
Ended(x, running) ==
  IF x.active # 0 /\ running THEN [ends EXCEPT ![x.active] = @ + 1] ELSE ends

\* The slot that udp_new takes, cleared and stamped with the wall clock.
Taken(x, now) == [x EXCEPT !.active = 0, !.start = now]

Packet ==
  /\ pc = "udp_new" /\ 1 \in revents
  /\ packets' = packets + 1
  /\ pc' = "tcp_new"
  /\ UNCHANGED <<at, io, revents, due, wait, in, calls, bytes>>

Call ==
  /\ pc = "tcp_new" /\ 2 \in revents
  /\ calls' = calls + 1
  /\ pc' = "top"
  /\ UNCHANGED <<at, io, revents, due, wait, packets, bytes>>

\* The descriptor accept returns when those of S are in use.
NextFd(S) == Min(Fds \ S)

\* Mutant: the packet is read into the slot of a query under way.
UdpRefused_Shares(now) ==
  LET j == Slot(u) IN
  /\ Packet
  /\ u' = [u EXCEPT ![j].start = now, ![j].peer = arrivals + 1]
  /\ UNCHANGED <<t, uactive, tactive, numqueries, fds, gone, asked, ends, reply>>

\* udp_new without a query: nothing is received, or it is refused after the
\* peer's address was written.  The oldest query of a full table is gone.
UdpRefused(now) ==
  LET j == Slot(u) IN
  /\ Packet
  /\ ends' = Ended(u[j], TRUE)
  /\ uactive' = uactive - One(u[j])
  /\ \E peer \in {u[j].peer, arrivals + 1} :
       u' = [u EXCEPT ![j] = [Taken(@, now) EXCEPT !.peer = peer]]
  /\ UNCHANGED <<t, tactive, numqueries, fds, gone, asked, reply>>

\* udp_new with a query that query_start answers, refuses or begins.
UdpQuery(now) ==
  LET j == Slot(u)
      x == [Taken(u[j], now) EXCEPT !.peer = arrivals + 1, !.id = numqueries + 1,
                               !.q = numqueries + 1]
      y == [x EXCEPT !.active = numqueries + 1]
  IN
  /\ Packet
  /\ numqueries' = numqueries + 1
  /\ asked' = Append(asked, arrivals + 1)
  /\ \/ /\ \E z \in Failed(x) : u' = [u EXCEPT ![j] = z]
        /\ uactive' = uactive - One(u[j])
        /\ ends' = Append(Ended(u[j], TRUE), 1)
        /\ UNCHANGED reply
     \/ /\ u' = [u EXCEPT ![j] = [x EXCEPT !.run = 0]]
        /\ uactive' = uactive - One(u[j])
        /\ ends' = Append(Ended(u[j], TRUE), 1)
        /\ reply' = Response(y)
     \/ /\ u' = [u EXCEPT ![j] = [y EXCEPT !.run = 1]]
        /\ uactive' = uactive - One(u[j]) + 1
        /\ ends' = Append(Ended(u[j], TRUE), 0)
        /\ UNCHANGED reply
  /\ UNCHANGED <<t, tactive, fds, gone>>

\* What tcp_new does to a client that has to make room, when it takes in
\* more clients.
TcpRoom(j, more) ==
  /\ ends' = Ended(t[j], t[j].state = 0)
  /\ tactive' = tactive - One(t[j]) + more

\* The client of slot j has made room: what is left of fds.
Others(j) == IF t[j].active # 0 THEN fds \ {t[j].fd} ELSE fds

\* Mutant: the descriptor of the client that makes room stays open.
TcpRefused_Leaks(now) ==
  LET j == Slot(t) IN
  /\ Call
  /\ TcpRoom(j, 0)
  /\ t' = [t EXCEPT ![j] = [tcp_free(Taken(@, now)) EXCEPT !.fd = -1]]
  /\ UNCHANGED <<u, uactive, numqueries, fds, in, gone, asked, reply>>

\* accept fails, or the client is refused and its descriptor closed again.
TcpRefused(now) ==
  LET j == Slot(t) IN
  /\ Call
  /\ TcpRoom(j, 0)
  /\ \/ t' = [t EXCEPT ![j] = [tcp_free(Taken(@, now)) EXCEPT !.fd = -1]]
     \/ /\ Fds \ Others(j) # {}
        /\ t' = [t EXCEPT ![j] = [tcp_free(Taken(@, now)) EXCEPT
                                    !.fd = NextFd(Others(j)), !.peer = arrivals + 1]]
  /\ fds' = Others(j)
  /\ UNCHANGED <<u, uactive, numqueries, in, gone, asked, reply>>

TcpAccept(now) ==
  LET j == Slot(t)
      f == NextFd(Others(j))
  IN
  /\ Call
  /\ Fds \ Others(j) # {}
  /\ TcpRoom(j, 1)
  /\ fds' = Others(j) \cup {f}
  /\ gone' = gone \ {f}
  /\ in' = [in EXCEPT ![f] = 0]
  /\ t' = [t EXCEPT ![j] = [tcp_free(Taken(@, now)) EXCEPT
              !.active = 1, !.fd = f, !.peer = arrivals + 1, !.state = 1, !.left = Idle]]
  /\ UNCHANGED <<u, uactive, numqueries, asked, reply>>

\* Nothing was reported for the socket that is looked at.
NoClient ==
  /\ \/ pc = "udp_new" /\ 1 \notin revents /\ pc' = "tcp_new"
     \/ pc = "tcp_new" /\ 2 \notin revents /\ pc' = "top"
  /\ UNCHANGED <<u, t, uactive, tactive, numqueries, at, io, revents, due,
                 wait, kernel, history>>

-----------------------------------------------------------------------------
(* The TCP clients.  What they do shows in poll and in read only.          *)

ClientSends ==
  /\ pc \in {"poll", "tcp"} /\ bytes < MaxBytes
  /\ \E f \in fds \ gone : in' = [in EXCEPT ![f] = @ + 1]
  /\ bytes' = bytes + 1
  /\ UNCHANGED <<u, t, uactive, tactive, numqueries, loop, fds, gone, packets,
                 calls, history>>

ClientLeaves ==
  /\ pc \in {"poll", "tcp"}
  /\ \E f \in fds \ gone : gone' = gone \cup {f}
  /\ UNCHANGED <<u, t, uactive, tactive, numqueries, loop, fds, in, packets,
                 calls, bytes, history>>

-----------------------------------------------------------------------------

TcpServe(j) ==
  \/ TcpDrop(j) \/ TcpRespond(j)
  \/ TcpWrite(j) \/ TcpBroken(j)
  \/ TcpLengthHigh(j) \/ TcpLengthLow(j)
  \/ TcpByte(j) \/ TcpBadRequest(j) \/ TcpRequest(j)

\* The body of the endless loop of nscache_run.
nscache_run ==
  \/ Top \/ iopause
  \/ UdpPass \/ udp_drop \/ udp_respond
  \/ \E j \in TCP : TcpPass(j) \/ TcpServe(j)
  \/ \E now \in Times : \/ UdpRefused(now) \/ UdpQuery(now)
                       \/ TcpRefused(now) \/ TcpAccept(now)
  \/ NoClient

Next == nscache_run \/ Tick \/ ClientSends \/ ClientLeaves

Spec == Init /\ [][Next]_vars

\* The loop goes on, time passes, and every query ends: dns_transmit gives
\* each attempt a deadline and query_run counts the attempts.  That is the
\* case as long as no server postpones a deadline for ever with packets that
\* are ignored (Returns of DnsTransmit).
FairSpec ==
  /\ Spec
  /\ WF_vars(nscache_run)
  /\ SF_vars(Tick)
  /\ \A j \in UDP : SF_vars(at = j /\ (udp_drop \/ udp_respond))
  /\ \A j \in TCP : SF_vars(TcpDrop(j) \/ TcpRespond(j))

-----------------------------------------------------------------------------
(* Properties.                                                             *)

Slots == [active : Nat, start : Times \cup {0}, io : Nat, run : {0, 1},
          peer : 0 .. arrivals, id : 0 .. numqueries, q : 0 .. numqueries]

\* The types of the tables, the counters and the place in the loop.
TypeOK ==
  /\ DOMAIN u = UDP /\ DOMAIN t = TCP
  /\ \A j \in UDP : u[j] \in Slots /\ u[j].active <= numqueries
  /\ \A j \in TCP :
       /\ [f \in {"active", "start", "io", "run", "peer", "id", "q"} |-> t[j][f]] \in Slots
       /\ t[j].fd \in Fds \cup {-1, 0}
       /\ t[j].state \in -1 .. 3
       /\ t[j].buf \in {0, 1}
       /\ t[j].len \in Nat /\ t[j].pos \in Nat
       /\ t[j].left \in -1 .. Idle
  /\ uactive \in 0 .. MAXUDP /\ tactive \in 0 .. MAXTCP
  /\ pc \in {"top", "poll", "udp", "tcp", "udp_new", "tcp_new"}
  /\ at \in UDP \cup TCP
  /\ Len(io) <= 2 + MAXUDP + MAXTCP
  /\ fds \subseteq Fds /\ gone \subseteq Fds
  /\ Len(asked) = numqueries /\ Len(ends) = numqueries

\* Descriptors and counters: each open descriptor of a TCP client belongs to
\* exactly one active slot, whatever made a client leave, and uactive and
\* tactive are the numbers of active slots.
SlotsOwnSockets ==
  /\ fds = {t[j].fd : j \in Busy(t)}
  /\ \A i, j \in Busy(t) : t[i].fd = t[j].fd => i = j
  /\ uactive = Cardinality(Busy(u))
  /\ tactive = Cardinality(Busy(t))

\* The comment above tcp_free: buf is allocated in the states 3 and -1 and
\* in no other, there is always a byte left to read or write there, and a
\* slot that is not active holds no buffer.
BufferStates ==
  \A j \in TCP :
    LET full == t[j].active # 0 /\ t[j].state \in {3, -1}
    IN  /\ t[j].buf = IF full THEN 1 ELSE 0
        /\ full => t[j].pos < t[j].len

\* The slots whose query is under way.
Running(n) == {<<"udp", j>> : j \in {i \in UDP : u[i].active = n}}
         \cup {<<"tcp", j>> : j \in {i \in TCP : t[i].active = n /\ t[i].state = 0}}

\* Every query that was accepted is either under way in exactly one slot or
\* was logged exactly once as sent or dropped; eviction from a full table,
\* timeouts and failures included.
EndsOnce ==
  \A n \in 1 .. numqueries :
    \/ ends[n] = 0 /\ Cardinality(Running(n)) = 1
    \/ ends[n] = 1 /\ Running(n) = {}

\* A response goes to the client that asked, with the id of its request and
\* the answer to its question, although slots are reused, and their address
\* is written before it is known whether the packet is a query.
RightReply ==
  reply.num # 0 => /\ reply.id = reply.num
                   /\ reply.q = reply.num
                   /\ asked[reply.num] = reply.to

\* In the loops over the tables every active slot's entry of the array is
\* the one that was made for it this time round: no slot becomes active
\* between poll and the loops.
PollsOwn ==
  /\ pc \in {"poll", "udp"} => \A j \in Busy(u) : io[u[j].io] = <<"udp", j>>
  /\ pc \in {"poll", "udp", "tcp"} => \A j \in Busy(t) : io[t[j].io] = <<"tcp", j>>

\* No client keeps its slot for ever: a UDP query is answered or dropped,
\* and a TCP connection whose client has stopped sending is closed, by the
\* timeout if by nothing else.
SlotsFree ==
  /\ \A j \in UDP : u[j].active # 0 ~> u[j].active = 0
  /\ \A j \in TCP : t[j].active # 0 ~> t[j].active = 0
=============================================================================
