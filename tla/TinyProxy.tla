----------------------------- MODULE TinyProxy -----------------------------
(***************************************************************************)
(* The proxy of src/tinyproxy.c: it accepts connections, opens one to the  *)
(* remote host for each, and copies what either end sends to the other.    *)
(* It is a program of the event loop of lib/io (IoTable), built with poll. *)
(*                                                                         *)
(* A round of server_loop looks at all connections and waits; then it asks *)
(* for the sockets that can be written until there is none, then for those *)
(* that can be read.  A step is one round's beginning, or the handling of  *)
(* one socket.  Data are units that are numbered by their sender; a socket *)
(* buffer has room for Room of them, and recv returns up to MaxRead, which *)
(* is more (1024 and 16384 bytes).                                         *)
(*                                                                         *)
(* The remote end is given by its address, so that no name is looked up,   *)
(* and lines are not buffered (no -L).  What the kernel does is a choice:  *)
(* what poll reports, how much a recv or a send transfers or whether it    *)
(* fails.  A new descriptor is the lowest free number.                     *)
(***************************************************************************)
EXTENDS IoTable, Sequences, SequencesExt

CONSTANTS
  Room,        \* of a socket buffer
  MaxRead,     \* bound: units that recv returns
  MaxConns,    \* bound: connections that are accepted
  MaxUnits,    \* bound: MaxUnits[e] units are sent by the end e
  Leavers      \* bound: the ends that may hang up

Sides == {"client", "proxy"}
Peer(side) == IF side = "client" THEN "proxy" ELSE "client"

\* An end is one side of a connection, which is numbered.
Ends == (1 .. MaxConns) \X Sides
Server == <<0, "client">>
Nobody == <<0, "proxy">>
Failed == <<-1, "proxy">>   \* of a socket whose connect failed

ASSUME TinyProxyAssumption ==
  /\ {Room, MaxRead, MaxConns} \subseteq Nat
  /\ MaxUnits \in [Ends -> Nat]
  /\ Leavers \subseteq Ends
  /\ Fds # {}
  /\ Cardinality(Fds) + 2 * MaxConns < Wrap   \* far from 2^64

\* server_sock is the lowest descriptor.
server_sock == Min(Fds)

VARIABLES
  io,          \* the table of lib/io
  pc,          \* the part of server_loop
  conns,       \* connections, the newest first
  \* The kernel:
  owner,       \* the end that a descriptor is of, Nobody when it is not open
  hungup,      \* the ends that have hung up
  \* History:
  rcvd,        \* how many units were received from an end
  sent,        \* the units that were sent to it
  accepted

vars == <<io, pc, conns, owner, hungup, rcvd, sent, accepted>>

open == {d \in Fds : owner[d] # Nobody}
Unused == Fds \ open
Dead == {d \in Fds : owner[d] \in {Nobody, Failed} \cup hungup}

\* Results of socket_connect.
CLIENT_SOCKET_ERROR == -5
CLIENT_CONNECT_ERROR == -7

\* op is set by socket_accept, when all went well.
sockbuf_init == [sock |-> -1, buf |-> <<>>, op |-> FALSE]

\* A connection has a socket buffer for each side: sb.
Sock(i, side) == conns[i].sb[side].sock

Init ==
  /\ io = io_wantread(io_fd_internal(NoEntries, server_sock, FALSE), server_sock)
  /\ pc = "check"
  /\ conns = <<>>
  /\ owner = [d \in Fds |-> IF d = server_sock THEN Server ELSE Nobody]
  /\ hungup = {}
  /\ rcvd = [e \in Ends |-> 0]
  /\ sent = [e \in Ends |-> <<>>]
  /\ accepted = 0

-----------------------------------------------------------------------------
(* Finding a connection.                                                   *)

Matching(client, proxy) ==
  {i \in DOMAIN conns : Sock(i, "client") = client \/ Sock(i, "proxy") = proxy}

\* Mutant: the oldest connection that matches is found, and not the newest.
connection_find_Oldest(client, proxy) ==
  IF Matching(client, proxy) = {} THEN 0 ELSE Max(Matching(client, proxy))

\* The position of the connection that is found, 0 for none.
connection_find(client, proxy) ==
  IF Matching(client, proxy) = {} THEN 0 ELSE Min(Matching(client, proxy))

\* socket_find: the connection, and which of its sockets
socket_find(sock) ==
  CASE connection_find(sock, -1) # 0 -> <<connection_find(sock, -1), "client">>
    [] connection_find(sock, -1) = 0 /\ connection_find(-1, sock) # 0 ->
         <<connection_find(-1, sock), "proxy">>
    [] OTHER -> <<0, "client">>

-----------------------------------------------------------------------------
(* Sending.  A transfer is [sent, ok]: the units sent to each end and      *)
(* whether all were.                                                       *)

\* buffer_stubborn with socket_send: the socket takes all, or some and then
\* no more.  What it does not take is lost.
Transfers(to, fd, units) ==
  IF fd \notin open \/ owner[fd] \notin Ends THEN {[sent |-> to, ok |-> units = <<>>]}
  ELSE {[sent |-> [to EXCEPT ![owner[fd]] = @ \o SubSeq(units, 1, n)],
         ok |-> n = Len(units)] : n \in 0 .. Len(units)}

\* Mutant: what is too much for the buffer overtakes what is in it.
Puts_Overtakes(to, sb, units) ==
  IF Len(units) <= Room - Len(sb.buf)
    THEN {[buf |-> sb.buf \o units, sent |-> to]}
    ELSE {[buf |-> sb.buf, sent |-> g.sent] : g \in Transfers(to, sb.sock, units)}

\* buffer_put of units to a buffer: what it holds then, and what was sent.
Puts(to, sb, units) ==
  IF Len(units) <= Room - Len(sb.buf)
    THEN {[buf |-> sb.buf \o units, sent |-> to]}
    ELSE UNION {IF ~f.ok THEN {[buf |-> <<>>, sent |-> f.sent]}
                ELSE IF Len(units) <= Room THEN {[buf |-> units, sent |-> f.sent]}
                ELSE {[buf |-> <<>>, sent |-> g.sent] :
                        g \in Transfers(f.sent, sb.sock, units)} :
                f \in Transfers(to, sb.sock, sb.buf)}

-----------------------------------------------------------------------------
(* The beginning of a round.                                               *)

sockbuf_check(s, sb) ==
  IF sb.sock \notin Fds THEN s
  ELSE IF sb.buf # <<>> THEN io_wantwrite(s, sb.sock) ELSE io_wantread(s, sb.sock)

\* The table after both sides of each of the connections were looked at.
Checked ==
  LET upto[n \in 0 .. Len(conns)] ==
        IF n = 0 THEN io
        ELSE sockbuf_check(sockbuf_check(upto[n - 1], conns[n].sb["client"]),
                           conns[n].sb["proxy"])
  IN  upto[Len(conns)]

\* A descriptor that is closed, or has no other end any more, is reported.
\* No client comes after MaxConns.
Round ==
  /\ pc = "check"
  /\ LET s == Checked
     IN  \E rev \in Findings(s) :
           /\ \A d \in Polled(s) \cap Dead : rev[d] = s.ent[d].want
           /\ accepted = MaxConns => rev[server_sock] = {}
           /\ io' = io_waituntil2(s, rev)
  /\ pc' = "write"
  /\ UNCHANGED <<conns, owner, hungup, rcvd, sent, accepted>>

-----------------------------------------------------------------------------
(* A socket can be written.                                                *)

NoneToWrite ==
  /\ pc = "write"
  /\ LET r == io_canwrite(io) IN r.fd = None /\ io' = r.s
  /\ pc' = "read"
  /\ UNCHANGED <<conns, owner, hungup, rcvd, sent, accepted>>

\* The connection to the remote host is there.
Connected(s, i, sock) ==
  /\ conns' = [conns EXCEPT ![i].connected = TRUE]
  /\ io' = io_wantread(io_dontwantwrite(s, sock), sock)
  /\ UNCHANGED <<pc, sent>>

\* Nothing is flushed when there is no such socket.
Flush(i, side) ==
  LET sb == IF i = 0 THEN sockbuf_init ELSE conns[i].sb[side]
  IN  /\ \E t \in Transfers(sent, sb.sock, sb.buf) : sent' = t.sent
      /\ conns' = [k \in DOMAIN conns |-> IF k = i THEN [conns[i] EXCEPT !.sb[side].buf = <<>>]
                                                   ELSE conns[k]]
      /\ pc' = IF i = 0 THEN "no such fd" ELSE pc

CanWrite ==
  /\ pc = "write"
  /\ LET r  == io_canwrite(io)
         i  == connection_find(-1, r.fd)
         at == socket_find(r.fd)
     IN  /\ r.fd # None
         /\ IF i # 0 /\ ~conns[i].connected THEN Connected(r.s, i, r.fd)
            ELSE Flush(at[1], at[2]) /\ io' = r.s
  /\ UNCHANGED <<owner, hungup, rcvd, accepted>>

-----------------------------------------------------------------------------
(* A socket can be read.                                                   *)

NoneToRead ==
  /\ pc = "read"
  /\ LET r == io_canread(io) IN r.fd = None /\ io' = r.s
  /\ pc' = "check"
  /\ UNCHANGED <<conns, owner, hungup, rcvd, sent, accepted>>

\* socket_connect: the socket is opened and registered; the connection is
\* begun, or fails and leaves the socket open.
Connects(s, d) ==
  LET t == io_nonblock(io_fd_internal(s, d, FALSE), d)
  IN  {[s |-> io_wantwrite(t, d), sock |-> d], [s |-> t, sock |-> CLIENT_CONNECT_ERROR]}

\* cleanup of socket_accept: the client d is closed, its connection c stays.
Refused(s, c, d, err) ==
  /\ conns' = <<[c EXCEPT !.sb["proxy"].sock = err]>> \o conns
  /\ io' = io_close(s, d)

\* socket_accept of the client d; the other socket is e, if there is one.
socket_accept(s, id, d) ==
  LET c == [id |-> id, connected |-> FALSE,
            sb |-> [side \in Sides |-> [sockbuf_init EXCEPT !.sock =
                                         IF side = "client" THEN d ELSE @]]]
      e == Min(Unused \ {d})
  IN  \/ /\ Unused = {d}
         /\ Refused(s, c, d, CLIENT_SOCKET_ERROR)
         /\ UNCHANGED owner
      \/ /\ Unused # {d}
         /\ \E r \in Connects(s, e) :
              \/ /\ r.sock # e
                 /\ Refused(r.s, c, d, r.sock)
                 /\ owner' = [owner EXCEPT ![e] = Failed]
              \/ /\ r.sock = e
                 /\ conns' = <<[c EXCEPT !.sb = [side \in Sides |->
                       [sock |-> IF side = "client" THEN d ELSE e,
                        buf |-> <<>>, op |-> TRUE]]]>> \o conns
                 /\ io' = io_wantread(io_nonblock(io_fd_internal(r.s, d, FALSE), d), d)
                 /\ owner' = [owner EXCEPT ![d] = <<id, "client">>, ![e] = <<id, "proxy">>]

\* accept fails, as it must when no descriptor is left, and the program ends.
Accept ==
  /\ pc = "read"
  /\ LET r == io_canread(io)
     IN  /\ r.fd = server_sock
         /\ \/ /\ pc' = "accept error"
               /\ io' = r.s
               /\ UNCHANGED <<conns, owner>>
            \/ /\ Unused # {}
               /\ socket_accept(r.s, accepted + 1, Min(Unused))
               /\ UNCHANGED pc
  /\ accepted' = accepted + 1
  /\ UNCHANGED <<hungup, rcvd, sent>>

\* sockbuf_close of the sides of connection i, which flushes their buffers
sockbuf_close(s, i, sides) ==
  LET shut(t, side) == IF side \in sides /\ Sock(i, side) \in Fds
                         THEN io_close(t, Sock(i, side)) ELSE t
      buf(side) == IF side \in sides THEN conns[i].sb[side].buf ELSE <<>>
  IN  /\ io' = shut(shut(s, "client"), "proxy")
      /\ \E f \in Transfers(sent, Sock(i, "client"), buf("client")) :
           \E g \in Transfers(f.sent, Sock(i, "proxy"), buf("proxy")) : sent' = g.sent
      /\ owner' = [d \in Fds |-> IF \E side \in sides : d = Sock(i, side)
                                   THEN Nobody ELSE owner[d]]

\* Mutant: the client's socket is forgotten.
Close_KeepsClient(s, i) == sockbuf_close(s, i, {"proxy"}) /\ conns' = RemoveAt(conns, i)

\* Mutant: the connection is not deleted.
Close_Listed(s, i) == sockbuf_close(s, i, Sides) /\ UNCHANGED conns

\* Both sides are closed, and connection_delete.
Close(s, i) == sockbuf_close(s, i, Sides) /\ conns' = RemoveAt(conns, i)

\* The units that recv may return from the end e, the next ones it sends.
Received(e) ==
  {[k \in 1 .. n |-> <<e, rcvd[e] + k>>] :
     n \in 1 .. Min({MaxRead, MaxUnits[e] - rcvd[e]})}

\* sockbuf_forward_data with data, from the side of connection i
sockbuf_forward_data(i, side) ==
  LET e  == owner[Sock(i, side)]
      to == conns[i].sb[Peer(side)]
  IN  /\ e \in Ends
      /\ \E units \in Received(e) :
           /\ rcvd' = [rcvd EXCEPT ![e] = @ + Len(units)]
           /\ \E p \in Puts(sent, to, units) :
                /\ sent' = p.sent
                /\ conns' = [conns EXCEPT ![i].sb[Peer(side)].buf = p.buf]
      /\ pc' = IF to.op THEN pc ELSE "crash"   \* a buffer that was never set up
      /\ UNCHANGED owner

CanRead ==
  /\ pc = "read"
  /\ LET r  == io_canread(io)
         at == socket_find(r.fd)
     IN  /\ r.fd \notin {None, server_sock}
         /\ \/ at[1] # 0 /\ r.fd \in open /\ sockbuf_forward_data(at[1], at[2]) /\ io' = r.s
            \* recv returns 0 or an error
            \/ /\ at[1] # 0
               /\ Close(r.s, connection_find(r.fd, r.fd))
               /\ UNCHANGED <<pc, rcvd>>
            \* EAGAIN, or no such socket
            \/ /\ at[1] # 0 => r.fd \notin Dead
               /\ pc' = IF at[1] = 0 THEN "no such fd" ELSE pc
               /\ io' = r.s
               /\ UNCHANGED <<conns, owner, rcvd, sent>>
  /\ UNCHANGED <<hungup, accepted>>

\* An end hangs up.
HangUp(e) ==
  /\ \E d \in open : owner[d] = e
  /\ hungup' = hungup \cup {e}
  /\ UNCHANGED <<io, pc, conns, owner, rcvd, sent, accepted>>

loop == Round \/ NoneToWrite \/ CanWrite \/ NoneToRead \/ Accept \/ CanRead

Next == loop \/ \E e \in Leavers : HangUp(e)

Spec == Init /\ [][Next]_vars

Ended == pc \notin {"check", "write", "read"}

\* The program goes on until it ends.  Its steps are those in which nobody
\* hangs up.
FairSpec == Spec /\ (<>Ended \/ []<><<hungup' = hungup>>_vars)
-----------------------------------------------------------------------------
TypeOK ==
  /\ io \in TableType
  /\ pc \in {"check", "write", "read", "no such fd", "accept error", "crash"}
  /\ owner \in [Fds -> Ends \cup {Server, Nobody, Failed}]
  /\ hungup \subseteq Ends
  /\ accepted \in 0 .. MaxConns

\* The program exits when it is handed a socket it has no connection for.  That
\* never happens, though sockets are closed while they wait in a queue, their
\* numbers are used again, and connections stay listed whose connect failed.
\* Of an open socket the lookup, which takes the first that matches, finds the
\* connection and the side it is of.  It errs in one case: a remote socket has
\* the number of a client that was refused, and is taken for that client.
Knows ==
  /\ pc # "no such fd"
  /\ \A d \in open : owner[d] \in Ends =>
       LET at == socket_find(d)
       IN  /\ at[1] # 0
           /\ \/ owner[d] = <<conns[at[1]].id, at[2]>>
              \/ /\ owner[d][2] = "proxy" /\ at[2] = "client"
                 /\ ~conns[at[1]].sb["client"].op

\* Whatever is opened, closed and left behind, each round waits for new
\* clients: io_wanted_fds, which a wait is given up for when it is zero, never
\* falls below the number of descriptors the kernel is to watch.
Listens ==
  /\ io.wanted >= Cardinality({d \in Fds : io.ent[d].kern # {}})
  /\ pc = "check" => server_sock \in Polled(Checked)

\* What an end is sent was sent by the other end of its connection, in that
\* order and no unit twice.
InOrder ==
  \A e \in Ends : \A k \in DOMAIN sent[e] :
    /\ sent[e][k][1] = <<e[1], Peer(e[2])>>
    /\ k > 1 => sent[e][k - 1][2] < sent[e][k][2]

\* A socket belongs to one connection, and stays open no longer than it; a
\* failed connect alone leaves one behind.
OneOwner ==
  \A d \in open \ {server_sock} :
    \/ \E i \in DOMAIN conns, side \in Sides :
         Sock(i, side) = d /\ owner[d] = <<conns[i].id, side>>
    \/ owner[d] = Failed

\* Connection id is listed, and was made.
Stands(id) == \E i \in DOMAIN conns : conns[i].id = id /\ conns[i].sb["client"].op

\* The wait looks at its sockets.
Looked(id) ==
  \A i \in DOMAIN conns, side \in Sides :
    conns[i].id = id => Sock(i, side) <= io.len

\* A connection one end of which has hung up is taken down, while the program
\* runs and as long as its sockets are looked at.
TakenDown ==
  \A e \in Leavers :
    (e \in hungup /\ Stands(e[1]) /\ []Looked(e[1])) ~> (~Stands(e[1]) \/ Ended)
=============================================================================
