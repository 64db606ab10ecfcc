---------------------------- MODULE DnsTransmit -----------------------------
(***************************************************************************)
(* One outgoing DNS query (src/lib/dns/dns_transmit.c): the query goes to  *)
(* each server of a list by UDP, in up to NLoops rounds with growing       *)
(* timeouts; a truncated answer moves it to TCP, where each server gets    *)
(* one connection.  The caller owns the struct, polls its socket and calls *)
(* dns_transmit_get with what poll said.                                   *)
(*                                                                         *)
(* Left out: what the packets say beyond the verdicts of irrelevant,       *)
(* serverwantstcp and serverfailed; the calls of dns_transmit_get that     *)
(* find nothing reported before the deadline are stuttering steps.         *)
(***************************************************************************)
EXTENDS Integers, FiniteSets

CONSTANTS
  NServers,     \* slots of the server list, 16 in the code
  Alive,        \* the slots that hold an address, not V6any
  NLoops,       \* rounds of UDP, 4 in the code
  timeouts,     \* [0 .. NLoops-1 -> Nat], 1, 3, 11, 45 in the code
  TcpTimeout,   \* 10 seconds in the code
  QueryLen,     \* querylen, the two length bytes included
  Radix,        \* values of one byte of the TCP length, 256 in the code
  AtOnce,       \* a TCP connect may succeed without waiting
  Eager         \* the caller may start over while a query is under way

ASSUME ServerAssumption == NServers \in Nat /\ Alive \subseteq 0 .. NServers - 1
ASSUME LoopAssumption == /\ NLoops \in Nat /\ NLoops >= 2
                         /\ timeouts \in [0 .. NLoops - 1 -> Nat]
                         /\ TcpTimeout \in Nat
ASSUME LengthAssumption == /\ QueryLen \in Nat \ {0}
                           /\ Radix \in Nat \ {0}
                           /\ AtOnce \in BOOLEAN /\ Eager \in BOOLEAN

VARIABLES
  at,          \* "idle", in the loop of thisudp or thistcp, or "wait" for poll
  revents,     \* 1 when poll has reported the socket
  ret,         \* what the last call returned: -1, 0 or 1
  query,       \* blocks allocated for query: 0, or 1 unless some are lost
  packet,      \* blocks allocated for packet
  s1,          \* descriptors opened for s1
  tcpstate, udploop, curserver,
  packetlen, pos,
  \* History, which the program does not keep:
  first,       \* the first round of this query
  tries,       \* UDP attempts with each server
  calls,       \* TCP attempts with each server
  granted,     \* the sum of the timeouts set so far
  sent         \* bytes of the query sent on this TCP connection

vars == <<at, revents, ret, query, packet, s1, tcpstate, udploop, curserver,
          packetlen, pos, first, tries, calls, granted, sent>>

Servers == 0 .. NServers - 1

Zero == [s \in Servers |-> 0]

-----------------------------------------------------------------------------
(* Ends of a query.                                                        *)

\* dns_transmit_free, and r to the caller.
FreeAll(r) ==
  /\ query' = 0
  /\ packet' = 0
  /\ s1' = 0
  /\ at' = "idle"
  /\ revents' = 0
  /\ ret' = r

Quit == /\ FreeAll(-1)
        /\ UNCHANGED <<tcpstate, udploop, curserver, packetlen, pos, first,
                       tries, calls, granted, sent>>

\* The caller drops the query, or is done with the packet.
dns_transmit_free ==
  /\ at \in {"idle", "wait"}
  /\ FreeAll(ret)
  /\ UNCHANGED <<tcpstate, udploop, curserver, packetlen, pos, first, tries,
                 calls, granted, sent>>

-----------------------------------------------------------------------------
(* thisudp: one turn of its loops.                                         *)

\* Mutant: the failed attempt's socket is not closed.
UdpRefused_Leak ==
  /\ at = "udp" /\ udploop < NLoops /\ curserver \in Alive
  /\ s1' = s1 + 1
  /\ tries' = [tries EXCEPT ![curserver] = @ + 1]
  /\ curserver' = curserver + 1
  /\ UNCHANGED <<revents, at, ret, query, packet, tcpstate, udploop,
                 packetlen, pos, first, calls, granted, sent>>

\* connect or send fails: socketfree, the next server.
UdpRefused ==
  /\ at = "udp" /\ udploop < NLoops /\ curserver \in Alive
  /\ tries' = [tries EXCEPT ![curserver] = @ + 1]
  /\ curserver' = curserver + 1
  /\ UNCHANGED <<revents, at, ret, query, packet, s1, tcpstate, udploop,
                 packetlen, pos, first, calls, granted, sent>>

UdpSend ==
  /\ at = "udp" /\ udploop < NLoops /\ curserver \in Alive
  /\ s1' = s1 + 1
  /\ tcpstate' = 0
  /\ at' = "wait"
  /\ ret' = 0
  /\ tries' = [tries EXCEPT ![curserver] = @ + 1]
  /\ granted' = granted + timeouts[udploop]
  /\ UNCHANGED <<revents, query, packet, udploop, curserver, packetlen, pos,
                 first, calls, sent>>

\* No descriptor, or no port to bind it to.
NoSocket ==
  /\ at \in {"udp", "tcp"} /\ curserver \in Alive
  /\ at = "udp" => udploop < NLoops
  /\ Quit

\* An empty slot of the list.
SkipServer ==
  /\ at \in {"udp", "tcp"} /\ curserver \in Servers \ Alive
  /\ at = "udp" => udploop < NLoops
  /\ curserver' = curserver + 1
  /\ UNCHANGED <<revents, at, ret, query, packet, s1, tcpstate, udploop,
                 packetlen, pos, first, tries, calls, granted, sent>>

\* Mutant: curserver is not set back for the next round.
NextLoop_NoReset ==
  /\ at = "udp" /\ udploop < NLoops /\ curserver = NServers
  /\ udploop' = udploop + 1
  /\ UNCHANGED <<revents, at, ret, query, packet, s1, tcpstate, curserver,
                 packetlen, pos, first, tries, calls, granted, sent>>

NextLoop ==
  /\ at = "udp" /\ udploop < NLoops /\ curserver = NServers
  /\ udploop' = udploop + 1
  /\ curserver' = 0
  /\ UNCHANGED <<revents, at, ret, query, packet, s1, tcpstate, packetlen,
                 pos, first, tries, calls, granted, sent>>

\* Every server has been tried: give up.
Exhausted ==
  /\ \/ at = "udp" /\ udploop = NLoops
     \/ at = "tcp" /\ curserver = NServers
  /\ Quit

-----------------------------------------------------------------------------
(* thistcp: one turn of its loop.                                          *)

TcpRefused ==
  /\ at = "tcp" /\ curserver \in Alive
  /\ calls' = [calls EXCEPT ![curserver] = @ + 1]
  /\ granted' = granted + TcpTimeout
  /\ curserver' = curserver + 1
  /\ UNCHANGED <<revents, at, ret, query, packet, s1, tcpstate, udploop,
                 packetlen, pos, first, tries, sent>>

\* The connection is under way (1), or there already (2).
TcpConnect ==
  /\ at = "tcp" /\ curserver \in Alive
  /\ s1' = s1 + 1
  /\ tcpstate' \in {1} \cup (IF AtOnce THEN {2} ELSE {})
  /\ at' = "wait"
  /\ ret' = 0
  /\ calls' = [calls EXCEPT ![curserver] = @ + 1]
  /\ granted' = granted + TcpTimeout
  /\ sent' = 0
  /\ UNCHANGED <<revents, query, packet, udploop, curserver, packetlen, pos,
                 first, tries>>

-----------------------------------------------------------------------------
(* dns_transmit_start.                                                     *)

\* The struct is free for a new query, or is freed first.
MayStart == at = "idle" \/ (Eager /\ at = "wait")

\* A query too long for UDP goes by TCP at once.
dns_transmit_start(flagrecursive, long) ==
  /\ MayStart
  /\ query' = 1
  /\ packet' = 0
  /\ s1' = 0
  /\ udploop' = (IF flagrecursive THEN 1 ELSE 0)
  /\ curserver' = 0
  /\ at' = (IF long THEN "tcp" ELSE "udp")
  /\ revents' = 0
  /\ ret' = 0
  /\ first' = udploop'
  /\ tries' = Zero
  /\ calls' = Zero
  /\ granted' = 0
  /\ UNCHANGED <<tcpstate, packetlen, pos, sent>>

\* malloc fails for the query.
StartNoMemory ==
  /\ MayStart
  /\ Quit

-----------------------------------------------------------------------------
(* dns_transmit_get.                                                       *)

Waiting(t) == at = "wait" /\ tcpstate = t

\* poll reports the socket: something has come, or it can be written.
iopause ==
  /\ at = "wait" /\ revents = 0
  /\ revents' = 1
  /\ UNCHANGED <<at, ret, query, packet, s1, tcpstate, udploop, curserver,
                 packetlen, pos, first, tries, calls, granted, sent>>

\* What dns_transmit_get finds reported, in one state of the protocol.
Reported(t) == Waiting(t) /\ revents = 1

\* Mutant: the same server is asked again.
nextudp_Same ==
  /\ s1' = 0
  /\ at' = "udp"
  /\ revents' = 0
  /\ UNCHANGED <<ret, query, packet, tcpstate, udploop, curserver, packetlen,
                 pos, first, tries, calls, granted, sent>>

\* The socket is closed and thisudp goes on behind curserver.
nextudp ==
  /\ s1' = 0
  /\ curserver' = curserver + 1
  /\ at' = "udp"
  /\ revents' = 0
  /\ UNCHANGED <<ret, query, packet, tcpstate, udploop, packetlen, pos, first,
                 tries, calls, granted, sent>>

thistcp(c) ==
  /\ s1' = 0
  /\ packet' = 0
  /\ curserver' = c
  /\ at' = "tcp"
  /\ revents' = 0
  /\ UNCHANGED <<ret, query, tcpstate, udploop, packetlen, pos, first, tries,
                 calls, granted, sent>>

firsttcp == thistcp(0)

nexttcp == thistcp(curserver + 1)

\* Mutant: a TCP connection has no deadline.
Timeout_UdpOnly == Waiting(0) /\ revents = 0 /\ nextudp

\* poll has nothing for the socket and the deadline has passed.
Timeout ==
  /\ at = "wait" /\ revents = 0
  /\ IF tcpstate = 0 THEN nextudp ELSE nexttcp

\* A packet that is too long or irrelevant, and in round 2 also a refusal or
\* a failure the server reports: 0 to the caller, the deadline not looked at.
Ignored ==
  /\ Reported(0)
  /\ revents' = 0
  /\ UNCHANGED <<at, ret, query, packet, s1, tcpstate, udploop, curserver,
                 packetlen, pos, first, tries, calls, granted, sent>>

\* recv fails, in round 2 with another error than a refusal, or the server
\* reports a failure in another round.  The errors are not told apart, so that
\* the round is no guard here.
UdpFailed == Reported(0) /\ nextudp

UdpTruncated == Reported(0) /\ firsttcp

\* An answer: the packet is copied, if there is memory for it.
UdpAnswer ==
  /\ Reported(0)
  /\ \/ /\ s1' = 0
        /\ packet' = packet + 1
        /\ query' = 0
        /\ at' = "idle"
        /\ revents' = 0
        /\ ret' = 1
        /\ UNCHANGED <<tcpstate, udploop, curserver, packetlen, pos, first,
                       tries, calls, granted, sent>>
     \/ Quit

\* Mutant: pos keeps what the last attempt left in it.
TcpConnected_KeepPos ==
  /\ Reported(1)
  /\ revents' = 0
  /\ tcpstate' = 2
  /\ UNCHANGED <<at, ret, query, packet, s1, udploop, curserver, packetlen,
                 pos, first, tries, calls, granted, sent>>

\* poll reports the end of the connection attempt.
TcpConnected ==
  /\ Reported(1)
  /\ revents' = 0
  /\ tcpstate' = 2
  /\ pos' = 0
  /\ UNCHANGED <<at, ret, query, packet, s1, udploop, curserver, packetlen,
                 first, tries, calls, granted, sent>>

\* querylen - pos, unsigned: past the end of the query it is as good as any.
Left == IF pos <= QueryLen THEN QueryLen - pos ELSE QueryLen

\* r bytes more of the query are sent; the last ones set a new deadline.
TcpSend(r) ==
  /\ Reported(2)
  /\ revents' = 0
  /\ r <= Left
  /\ pos' = pos + r
  /\ sent' = sent + r
  /\ IF pos' = QueryLen
     THEN tcpstate' = 3 /\ granted' = granted + TcpTimeout
     ELSE UNCHANGED <<tcpstate, granted>>
  /\ UNCHANGED <<at, ret, query, packet, s1, udploop, curserver, packetlen,
                 first, tries, calls>>

\* The first and the second byte of the answer's length.
TcpLength(b) ==
  \/ /\ Reported(3)
     /\ revents' = 0
     /\ packetlen' = b
     /\ tcpstate' = 4
     /\ UNCHANGED <<at, ret, query, packet, s1, udploop, curserver, pos,
                    first, tries, calls, granted, sent>>
  \/ /\ Reported(4)
     /\ revents' = 0
     /\ packetlen' = packetlen * Radix + b
     /\ tcpstate' = 5
     /\ pos' = 0
     /\ packet' = packet + 1
     /\ UNCHANGED <<at, ret, query, s1, udploop, curserver, first, tries,
                    calls, granted, sent>>

\* malloc fails for the packet: tcpstate and pos have been set.
TcpNoMemory(b) ==
  /\ Reported(4)
  /\ packetlen' = packetlen * Radix + b
  /\ tcpstate' = 5
  /\ pos' = 0
  /\ FreeAll(-1)
  /\ UNCHANGED <<udploop, curserver, first, tries, calls, granted, sent>>

\* r bytes more of the packet; a whole one is an answer or sends the query to
\* the next server.
TcpReceive(r) ==
  /\ Reported(5)
  /\ revents' = 0
  /\ r <= packetlen - pos
  /\ pos' = pos + r
  /\ \/ /\ pos' < packetlen
        /\ UNCHANGED <<at, ret, query, packet, s1, curserver>>
     \/ /\ pos' = packetlen
        /\ s1' = 0
        /\ query' = 0
        /\ at' = "idle"
        /\ ret' = 1
        /\ UNCHANGED <<packet, curserver>>
     \/ /\ pos' = packetlen
        /\ s1' = 0
        /\ packet' = 0
        /\ curserver' = curserver + 1
        /\ at' = "tcp"
        /\ UNCHANGED <<ret, query>>
  /\ UNCHANGED <<tcpstate, udploop, packetlen, first, tries, calls, granted,
                 sent>>

\* The attempt fails: not connected, send or recv fails, or the server closes.
TcpFailed == at = "wait" /\ tcpstate # 0 /\ revents = 1 /\ nexttcp

-----------------------------------------------------------------------------
Init ==
  /\ at = "idle" /\ revents = 0 /\ ret = 0
  /\ query = 0 /\ packet = 0 /\ s1 = 0
  /\ tcpstate = 0 /\ udploop = 0 /\ curserver = 0 /\ packetlen = 0 /\ pos = 0
  /\ first = 0 /\ tries = Zero /\ calls = Zero /\ granted = 0 /\ sent = 0

\* The turns of the two loops.
Scan == UdpRefused \/ UdpSend \/ NoSocket \/ SkipServer \/ NextLoop
          \/ Exhausted \/ TcpRefused \/ TcpConnect

\* dns_transmit_get on a socket that poll reports.
Get ==
  \/ Ignored
  \/ UdpFailed
  \/ UdpTruncated
  \/ UdpAnswer
  \/ TcpConnected
  \/ \E r \in 1 .. QueryLen : TcpSend(r)
  \/ \E b \in 0 .. Radix - 1 : TcpLength(b) \/ TcpNoMemory(b)
  \/ \E r \in 1 .. Radix * Radix - 1 : TcpReceive(r)
  \/ TcpFailed

Next ==
  \/ \E rec, long \in BOOLEAN : dns_transmit_start(rec, long)
  \/ StartNoMemory
  \/ dns_transmit_free
  \/ Scan
  \/ iopause
  \/ Timeout
  \/ Get

Spec == Init /\ [][Next]_vars
\* The loops run without waiting; a call of poll that reports nothing ends at
\* the deadline, and the caller hands to dns_transmit_get what poll reports.
\* Nothing is assumed of what the servers send, nor when.
FairSpec == Spec /\ WF_vars(Scan) /\ WF_vars(Timeout) /\ WF_vars(Get)

-----------------------------------------------------------------------------
(* Properties.                                                             *)

TypeOK ==
  /\ at \in {"idle", "udp", "tcp", "wait"} /\ revents \in 0 .. 1
  /\ ret \in {-1, 0, 1}
  /\ query \in Nat /\ packet \in Nat /\ s1 \in Nat
  /\ tcpstate \in 0 .. 5 /\ udploop \in 0 .. NLoops
  /\ curserver \in 0 .. NServers /\ packetlen \in Nat /\ pos \in Nat
  /\ first \in 0 .. 1
  /\ tries \in [Servers -> Nat] /\ calls \in [Servers -> Nat]
  /\ granted \in Nat /\ sent \in Nat

\* A query under way by UDP, and by TCP.
InUdp == at = "udp" \/ Waiting(0)
InTcp == at = "tcp" \/ (at = "wait" /\ tcpstate # 0)

\* Every socket and every block the struct has had is still in it or has been
\* given back: one socket while it waits and none otherwise, the query until
\* the end, a packet only while one is being read or after success.
NoLeak ==
  /\ s1 = (IF at = "wait" THEN 1 ELSE 0)
  /\ query = (IF at = "idle" THEN 0 ELSE 1)
  /\ packet > 0 => \/ at = "wait" /\ tcpstate = 5
                   \/ at = "idle" /\ ret = 1
  /\ at = "wait" /\ tcpstate = 5 => packet = 1
  /\ packet <= 1

\* 1 once server s has had its turn in the present round.
Turn(s) == IF s < curserver \/ (s = curserver /\ at = "wait") THEN 1 ELSE 0

\* The comment in dns_transmit_get: every server has been sent the query once
\* in each round so far, and at most once by TCP; so the query is given up by
\* UDP only after NLoops - first attempts with every server, and by TCP only
\* after a connection attempt with every server.
RoundRobin ==
  /\ InUdp => \A s \in Servers :
       tries[s] = IF s \in Alive THEN udploop - first + Turn(s) ELSE 0
  /\ InTcp => \A s \in Servers :
       calls[s] = IF s \in Alive THEN Turn(s) ELSE 0

\* pos counts what it says in the comments of dns_transmit_get: the bytes of
\* the query sent on this connection, then those of the packet.
PosIsSent ==
  /\ Waiting(2) => sent = pos /\ pos < QueryLen
  /\ Waiting(3) \/ Waiting(4) \/ Waiting(5) => sent = QueryLen
  /\ Waiting(5) => pos < packetlen \/ packetlen = 0

\* The sum of the timeouts of the rounds before n.
RoundTime[n \in 0 .. NLoops] ==
  IF n = 0 THEN 0 ELSE RoundTime[n - 1] + timeouts[n - 1]

\* The deadlines set for a query add up to no more than all rounds with all
\* servers, and then two TCP deadlines for each, however the servers behave.
TimeBound ==
  granted <= Cardinality(Alive) * (RoundTime[NLoops] + 2 * TcpTimeout)

\* The caller starts a query while another is under way.
StartOver ==
  at = "wait" /\ \E rec, long \in BOOLEAN : dns_transmit_start(rec, long)

\* Every query comes to an end, whatever fails, is lost or is refused, with
\* two exceptions: the caller starts over again and again before it does, or
\* a server keeps sending packets that are ignored.  The deadline is looked at
\* only when poll reports nothing (dns_transmit.c:338-339), so each of those
\* packets postpones it; nothing else that a server does can.
Returns ==
  <>[][~StartOver]_vars /\ <>[][~Ignored]_vars
    => ((at # "idle") ~> (at = "idle"))
=============================================================================
