------------------------- MODULE DnsTransmitProofs --------------------------
(* Proofs about DnsTransmit for every list of servers, every number of     *)
(* rounds, every length of query and packet and every behaviour of the     *)
(* servers and of the caller.                                              *)
EXTENDS DnsTransmit, WellFoundedInduction, FiniteSetTheorems, TLAPS

(* A socket is only waited for after an attempt with a server of the list. *)
Typed == TypeOK /\ (at = "wait" => curserver \in Alive)

LEMMA TypeInit == Init => Typed
BY ServerAssumption, LoopAssumption DEF Init, Typed, TypeOK, Zero, Servers

LEMMA TypeQuit == Typed /\ Quit => Typed'
BY DEF Typed, TypeOK, Quit, FreeAll

LEMMA ProductNat == \A a, b \in Nat : a * b \in Nat
OBVIOUS

(* Moving on from a server of the list stays in the list or reaches its    *)
(* end.                                                                    *)
LEMMA NextInList ==
  ASSUME NEW c \in Servers
  PROVE  c \in Nat /\ c + 1 \in 0 .. NServers
BY ServerAssumption DEF Servers

LEMMA TypeNextServer ==
  ASSUME Typed, at = "wait", nextudp \/ nexttcp
  PROVE  Typed'
<1>1. curserver + 1 \in 0 .. NServers
  BY ServerAssumption, NextInList DEF Typed, Servers
<1>2. CASE nextudp
  BY <1>1, <1>2 DEF nextudp, Typed, TypeOK
<1>3. CASE nexttcp
  BY <1>1, <1>3 DEF nexttcp, thistcp, Typed, TypeOK
<1> QED BY <1>2, <1>3

LEMMA TypeNext == Typed /\ [Next]_vars => Typed'
<1> SUFFICES ASSUME Typed, [Next]_vars PROVE Typed'
  OBVIOUS
<1> USE DEF Typed, TypeOK
<1>0. Alive \subseteq Servers /\ 0 \in 0 .. NServers /\ 0 \in 0 .. NLoops /\ 1 \in 0 .. NLoops
  BY ServerAssumption, LoopAssumption DEF Servers
<1>1. ASSUME NEW rec \in BOOLEAN, NEW long \in BOOLEAN,
             dns_transmit_start(rec, long)
      PROVE  Typed'
  BY <1>0, <1>1 DEF dns_transmit_start, Zero
<1>2. CASE StartNoMemory \/ NoSocket \/ Exhausted
  BY <1>2, TypeQuit DEF StartNoMemory, NoSocket, Exhausted
<1>3. CASE dns_transmit_free
  BY <1>3 DEF dns_transmit_free, FreeAll
<1>4. CASE UdpRefused
  <2>1. curserver + 1 \in 0 .. NServers /\ curserver \in Servers
    BY <1>0, <1>4, NextInList DEF UdpRefused
  <2> QED BY <1>4, <2>1 DEF UdpRefused
<1>5. CASE UdpSend
  <2>1. timeouts[udploop] \in Nat
    BY <1>5, LoopAssumption DEF UdpSend
  <2>2. curserver \in Servers
    BY <1>0, <1>5 DEF UdpSend
  <2> QED BY <1>5, <2>1, <2>2 DEF UdpSend
<1>6. CASE SkipServer
  <2>1. curserver + 1 \in 0 .. NServers
    BY <1>6, NextInList DEF SkipServer
  <2> QED BY <1>6, <2>1 DEF SkipServer
<1>7. CASE NextLoop
  <2>1. udploop + 1 \in 0 .. NLoops
    BY <1>7, LoopAssumption DEF NextLoop
  <2> QED BY <1>0, <1>7, <2>1 DEF NextLoop
<1>8. CASE TcpRefused
  <2>1. curserver + 1 \in 0 .. NServers /\ curserver \in Servers
    BY <1>0, <1>8, NextInList DEF TcpRefused
  <2> QED BY <1>8, <2>1, LoopAssumption DEF TcpRefused
<1>9. CASE TcpConnect
  <2>1. curserver \in Servers
    BY <1>0, <1>9 DEF TcpConnect
  <2> QED BY <1>9, <2>1, LoopAssumption DEF TcpConnect
<1>10. CASE UdpAnswer
  <2>1. CASE Quit
    BY <2>1, TypeQuit
  <2>2. CASE ~Quit
    BY <1>10, <2>2 DEF UdpAnswer
  <2> QED BY <2>1, <2>2
<1>11. CASE UdpTruncated
  BY <1>0, <1>11 DEF UdpTruncated, firsttcp, thistcp
<1>12. CASE TcpConnected
  BY <1>12 DEF TcpConnected, Waiting, Reported
<1>13. ASSUME NEW r \in 1 .. QueryLen, TcpSend(r)
       PROVE  Typed'
  BY <1>13, LoopAssumption, LengthAssumption DEF TcpSend, Waiting, Reported
<1>14. ASSUME NEW b \in 0 .. Radix - 1, TcpLength(b) \/ TcpNoMemory(b)
       PROVE  Typed'
  <2>0. b \in Nat /\ packetlen * Radix \in Nat
    BY ProductNat, LengthAssumption
  <2>1. packetlen * Radix + b \in Nat
    BY <2>0
  <2>2. CASE Waiting(3) /\ TcpLength(b)
    BY <2>0, <2>2 DEF TcpLength, Waiting, Reported
  <2>3. CASE Waiting(4) /\ TcpLength(b)
    BY <2>1, <2>3 DEF TcpLength, Waiting, Reported
  <2>4. CASE TcpNoMemory(b)
    BY <2>1, <2>4 DEF TcpNoMemory, FreeAll
  <2> QED BY <1>14, <2>2, <2>3, <2>4 DEF TcpLength, Reported
<1>15. ASSUME NEW r \in 1 .. Radix * Radix - 1, TcpReceive(r)
       PROVE  Typed'
  <2>1. r \in Nat /\ pos + r \in Nat
    OBVIOUS
  <2>2. at = "wait" /\ curserver \in Alive /\ curserver + 1 \in 0 .. NServers
    BY <1>0, <1>15, NextInList DEF TcpReceive, Waiting, Reported
  <2> QED BY <1>15, <2>1, <2>2 DEF TcpReceive
<1>16. CASE Timeout \/ UdpFailed \/ TcpFailed
  <2>1. at = "wait" /\ (nextudp \/ nexttcp)
    BY <1>16 DEF Timeout, UdpFailed, TcpFailed, Waiting, Reported
  <2> QED BY <2>1, TypeNextServer
<1>17. CASE iopause \/ Ignored \/ UNCHANGED vars
  BY <1>17 DEF iopause, Ignored, vars
<1> QED BY <1>1, <1>2, <1>3, <1>4, <1>5, <1>6, <1>7, <1>8, <1>9, <1>10, <1>11,
           <1>12, <1>13, <1>14, <1>15, <1>16, <1>17 DEF Next, Scan, Get
-----------------------------------------------------------------------------
(* Sockets and memory.                                                     *)

LEMMA NoLeakNext == Typed /\ NoLeak /\ [Next]_vars => NoLeak'
<1> SUFFICES ASSUME Typed, NoLeak, [Next]_vars PROVE NoLeak'
  OBVIOUS
<1> USE DEF Typed, TypeOK, NoLeak, Waiting, Reported
<1>1. ASSUME NEW rec \in BOOLEAN, NEW long \in BOOLEAN,
             dns_transmit_start(rec, long)
      PROVE  NoLeak'
  BY <1>1 DEF dns_transmit_start
<1>2. CASE StartNoMemory \/ NoSocket \/ Exhausted
  BY <1>2 DEF StartNoMemory, NoSocket, Exhausted, Quit, FreeAll
<1>3. CASE dns_transmit_free
  BY <1>3 DEF dns_transmit_free, FreeAll
<1>4. CASE UdpRefused
  BY <1>4 DEF UdpRefused
<1>5. CASE UdpSend
  BY <1>5 DEF UdpSend
<1>6. CASE SkipServer
  BY <1>6 DEF SkipServer
<1>7. CASE NextLoop
  BY <1>7 DEF NextLoop
<1>8. CASE TcpRefused
  BY <1>8 DEF TcpRefused
<1>9. CASE TcpConnect
  BY <1>9 DEF TcpConnect
<1>10. CASE UdpAnswer
  BY <1>10 DEF UdpAnswer, Quit, FreeAll
<1>11. CASE UdpTruncated
  BY <1>11 DEF UdpTruncated, firsttcp, thistcp
<1>12. CASE TcpConnected
  BY <1>12 DEF TcpConnected
<1>13. ASSUME NEW r \in 1 .. QueryLen, TcpSend(r)
       PROVE  NoLeak'
  BY <1>13 DEF TcpSend
<1>14. ASSUME NEW b \in 0 .. Radix - 1, TcpLength(b) \/ TcpNoMemory(b)
       PROVE  NoLeak'
  BY <1>14 DEF TcpLength, TcpNoMemory, FreeAll
<1>15. ASSUME NEW r \in 1 .. Radix * Radix - 1, TcpReceive(r)
       PROVE  NoLeak'
  BY <1>15 DEF TcpReceive
<1>16. CASE Timeout \/ UdpFailed \/ TcpFailed
  <2>1. CASE tcpstate = 0
    <3>1. at = "wait" /\ nextudp
      BY <1>16, <2>1 DEF Timeout, UdpFailed, TcpFailed, Waiting, Reported
    <3> QED BY <2>1, <3>1 DEF nextudp
  <2>2. CASE tcpstate # 0
    <3>1. at = "wait" /\ nexttcp
      BY <1>16, <2>2 DEF Timeout, UdpFailed, TcpFailed, Waiting, Reported
    <3> QED BY <2>2, <3>1 DEF nexttcp, thistcp
  <2> QED BY <2>1, <2>2
<1>17. CASE iopause \/ Ignored \/ UNCHANGED vars
  BY <1>17 DEF iopause, Ignored, vars
<1> QED BY <1>1, <1>2, <1>3, <1>4, <1>5, <1>6, <1>7, <1>8, <1>9, <1>10, <1>11,
           <1>12, <1>13, <1>14, <1>15, <1>16, <1>17 DEF Next, Scan, Get

(* No descriptor and no block is lost or used after it is given back,      *)
(* whatever fails and whenever the caller starts over.                     *)
THEOREM NoLeakHolds == Spec => [](TypeOK /\ NoLeak)
<1>1. Init => Typed /\ NoLeak
  BY TypeInit DEF Init, NoLeak
<1>2. (Typed /\ NoLeak) /\ [Next]_vars => (Typed /\ NoLeak)'
  BY TypeNext, NoLeakNext
<1>3. Typed /\ NoLeak => TypeOK /\ NoLeak
  BY DEF Typed
<1> QED BY <1>1, <1>2, <1>3, PTL DEF Spec

-----------------------------------------------------------------------------
(* Turns of the servers.                                                   *)

(* No connection is tried before the first truncated answer.               *)
Turns == RoundRobin /\ (InUdp => \A s \in Servers : calls[s] = 0)

LEMMA TurnsNext == Typed /\ Turns /\ [Next]_vars => Turns'
<1> SUFFICES ASSUME Typed, Turns, [Next]_vars PROVE Turns'
  OBVIOUS
<1> USE DEF Typed, TypeOK, Turns, RoundRobin, InUdp, InTcp, Waiting, Reported, Turn
<1>0. /\ Alive \subseteq Servers
      /\ \A s \in Servers : s \in Nat /\ s < NServers /\ 0 <= s
      /\ NServers \in Nat
  BY ServerAssumption DEF Servers
<1> HIDE DEF Servers
<1>1. ASSUME NEW rec \in BOOLEAN, NEW long \in BOOLEAN,
             dns_transmit_start(rec, long)
      PROVE  Turns'
  BY <1>0, <1>1 DEF dns_transmit_start, Zero
<1>2. CASE StartNoMemory \/ NoSocket \/ Exhausted
  BY <1>0, <1>2 DEF StartNoMemory, NoSocket, Exhausted, Quit, FreeAll
<1>3. CASE dns_transmit_free
  BY <1>0, <1>3 DEF dns_transmit_free, FreeAll
<1>4. CASE UdpRefused
  BY <1>0, <1>4 DEF UdpRefused
<1>5. CASE UdpSend
  BY <1>0, <1>5 DEF UdpSend
<1>6. CASE SkipServer
  BY <1>0, <1>6 DEF SkipServer
<1>7. CASE NextLoop
  BY <1>0, <1>7 DEF NextLoop
<1>8. CASE TcpRefused
  BY <1>0, <1>8 DEF TcpRefused
<1>9. CASE TcpConnect
  BY <1>0, <1>9 DEF TcpConnect
<1>10. CASE UdpAnswer
  BY <1>0, <1>10 DEF UdpAnswer, Quit, FreeAll
<1>11. CASE UdpTruncated
  BY <1>0, <1>11 DEF UdpTruncated, firsttcp, thistcp
<1>12. CASE TcpConnected
  BY <1>0, <1>12 DEF TcpConnected
<1>13. ASSUME NEW r \in 1 .. QueryLen, TcpSend(r)
       PROVE  Turns'
  BY <1>0, <1>13 DEF TcpSend
<1>14. ASSUME NEW b \in 0 .. Radix - 1, TcpLength(b) \/ TcpNoMemory(b)
       PROVE  Turns'
  BY <1>0, <1>14 DEF TcpLength, TcpNoMemory, FreeAll
<1>15. ASSUME NEW r \in 1 .. Radix * Radix - 1, TcpReceive(r)
       PROVE  Turns'
  BY <1>0, <1>15 DEF TcpReceive
<1>16. CASE Timeout \/ UdpFailed \/ TcpFailed
  <2>1. CASE tcpstate = 0
    <3>1. at = "wait" /\ nextudp
      BY <1>16, <2>1 DEF Timeout, UdpFailed, TcpFailed, Waiting, Reported
    <3> QED BY <1>0, <2>1, <3>1 DEF nextudp
  <2>2. CASE tcpstate # 0
    <3>1. at = "wait" /\ nexttcp
      BY <1>16, <2>2 DEF Timeout, UdpFailed, TcpFailed, Waiting, Reported
    <3> QED BY <1>0, <2>2, <3>1 DEF nexttcp, thistcp
  <2> QED BY <2>1, <2>2
<1>17. CASE iopause \/ Ignored \/ UNCHANGED vars
  BY <1>0, <1>17 DEF iopause, Ignored, vars
<1> QED BY <1>1, <1>2, <1>3, <1>4, <1>5, <1>6, <1>7, <1>8, <1>9, <1>10, <1>11,
           <1>12, <1>13, <1>14, <1>15, <1>16, <1>17 DEF Next, Scan, Get

(* Round robin for every list: no server is passed over in a round and     *)
(* none is asked twice, so a query is given up only after every server had *)
(* all its attempts.                                                       *)
THEOREM RoundRobinHolds == Spec => []RoundRobin
<1>1. Init => Typed /\ Turns
  BY TypeInit DEF Init, Turns, RoundRobin, InUdp, InTcp, Waiting, Zero, Turn
<1>2. (Typed /\ Turns) /\ [Next]_vars => (Typed /\ Turns)'
  BY TypeNext, TurnsNext
<1>3. Typed /\ Turns => RoundRobin
  BY DEF Turns
<1> QED BY <1>1, <1>2, <1>3, PTL DEF Spec

-----------------------------------------------------------------------------
(* What pos counts.                                                        *)

(* Nothing is sent on a connection that is not there yet.                  *)
Counted == PosIsSent /\ (Waiting(1) => sent = 0)

LEMMA CountedNext ==
  ASSUME ~AtOnce
  PROVE  Typed /\ Counted /\ [Next]_vars => Counted'
<1> SUFFICES ASSUME Typed, Counted, [Next]_vars PROVE Counted'
  OBVIOUS
<1> USE LengthAssumption DEF Typed, TypeOK, Counted, PosIsSent, Waiting, Reported
<1>1. ASSUME NEW rec \in BOOLEAN, NEW long \in BOOLEAN,
             dns_transmit_start(rec, long)
      PROVE  Counted'
  BY <1>1 DEF dns_transmit_start
<1>2. CASE StartNoMemory \/ NoSocket \/ Exhausted
  BY <1>2 DEF StartNoMemory, NoSocket, Exhausted, Quit, FreeAll
<1>3. CASE dns_transmit_free
  BY <1>3 DEF dns_transmit_free, FreeAll
<1>4. CASE UdpRefused
  BY <1>4 DEF UdpRefused
<1>5. CASE UdpSend
  BY <1>5 DEF UdpSend
<1>6. CASE SkipServer
  BY <1>6 DEF SkipServer
<1>7. CASE NextLoop
  BY <1>7 DEF NextLoop
<1>8. CASE TcpRefused
  BY <1>8 DEF TcpRefused
<1>9. CASE TcpConnect
  BY <1>9 DEF TcpConnect
<1>10. CASE UdpAnswer
  BY <1>10 DEF UdpAnswer, Quit, FreeAll
<1>11. CASE UdpTruncated
  BY <1>11 DEF UdpTruncated, firsttcp, thistcp
<1>12. CASE TcpConnected
  BY <1>12 DEF TcpConnected
<1>13. ASSUME NEW r \in 1 .. QueryLen, TcpSend(r)
       PROVE  Counted'
  BY <1>13 DEF TcpSend, Left
<1>14. ASSUME NEW b \in 0 .. Radix - 1, TcpLength(b) \/ TcpNoMemory(b)
       PROVE  Counted'
  BY <1>14 DEF TcpLength, TcpNoMemory, FreeAll
<1>15. ASSUME NEW r \in 1 .. Radix * Radix - 1, TcpReceive(r)
       PROVE  Counted'
  BY <1>15 DEF TcpReceive
<1>16. CASE Timeout \/ UdpFailed \/ TcpFailed
  <2>1. CASE tcpstate = 0
    <3>1. at = "wait" /\ nextudp
      BY <1>16, <2>1 DEF Timeout, UdpFailed, TcpFailed, Waiting, Reported
    <3> QED BY <2>1, <3>1 DEF nextudp
  <2>2. CASE tcpstate # 0
    <3>1. at = "wait" /\ nexttcp
      BY <1>16, <2>2 DEF Timeout, UdpFailed, TcpFailed, Waiting, Reported
    <3> QED BY <2>2, <3>1 DEF nexttcp, thistcp
  <2> QED BY <2>1, <2>2
<1>17. CASE iopause \/ Ignored \/ UNCHANGED vars
  BY <1>17 DEF iopause, Ignored, vars
<1> QED BY <1>1, <1>2, <1>3, <1>4, <1>5, <1>6, <1>7, <1>8, <1>9, <1>10, <1>11,
           <1>12, <1>13, <1>14, <1>15, <1>16, <1>17 DEF Next, Scan, Get

(* When no connection is there at once, pos is the number of bytes sent of *)
(* the query, and all of it is sent before the answer is read.             *)
THEOREM PosIsSentHolds ==
  ASSUME ~AtOnce
  PROVE  Spec => []PosIsSent
<1>1. Init => Typed /\ Counted
  BY TypeInit DEF Init, Counted, PosIsSent, Waiting
<1>2. (Typed /\ Counted) /\ [Next]_vars => (Typed /\ Counted)'
  BY TypeNext, CountedNext
<1>3. Typed /\ Counted => PosIsSent
  BY DEF Counted
<1> QED BY <1>1, <1>2, <1>3, PTL DEF Spec

-----------------------------------------------------------------------------
(* The time a query may take.                                              *)

LEMMA LeastOf ==
  ASSUME NEW S, S \subseteq Nat, S # {}
  PROVE  \E x \in S : \A y \in S : x <= y
<1>1. PICK x \in S : \A y \in S : ~(<<y, x>> \in OpToRel(<, Nat))
  BY NatLessThanWellFounded, WFMin, Zenon
<1>2. \A y \in S : x <= y
  <2>1. SUFFICES ASSUME NEW y \in S PROVE x <= y
    OBVIOUS
  <2>2. ~(y < x)
    BY <1>1 DEF OpToRel
  <2> QED BY <2>2
<1> QED BY <1>2

(* A sum over the rounds before n, as the definition of RoundTime has it.  *)
Sum(f, n) == IF n = 0 THEN 0 ELSE f[n - 1] + timeouts[n - 1]

Sums(n) == \E f : f = [k \in 0 .. n |-> Sum(f, k)]

LEMMA SumsNext ==
  ASSUME NEW n \in Nat, NEW m, m = n + 1, Sums(n)
  PROVE  Sums(m)
<1>1. PICK f : f = [k \in 0 .. n |-> Sum(f, k)]
  BY DEF Sums
<1>2. PICK x : x = Sum(f, m)
  OBVIOUS
<1>3. PICK g : g = [k \in 0 .. m |-> IF k = m THEN x ELSE f[k]]
  OBVIOUS
<1>4. \A k \in 0 .. n : g[k] = f[k] /\ f[k] = Sum(f, k)
  BY SMTT(30), <1>1, <1>3
<1>5. ASSUME NEW k \in 0 .. m PROVE g[k] = Sum(g, k)
  <2>1. CASE k = m
    <3>1. g[k] = f[n] + timeouts[n] /\ n \in 0 .. n
      BY <2>1, <1>2, <1>3 DEF Sum
    <3>2. g[n] = f[n]
      BY <3>1, <1>4
    <3> QED BY <2>1, <3>1, <3>2 DEF Sum
  <2>2. CASE k # m
    <3>1. k \in 0 .. n /\ (k # 0 => k - 1 \in 0 .. n)
      BY <2>2
    <3>2. g[k] = Sum(f, k) /\ (k # 0 => g[k - 1] = f[k - 1])
      BY <3>1, <1>4
    <3> QED BY <3>2 DEF Sum
  <2> QED BY <2>1, <2>2
<1>6. g = [k \in 0 .. m |-> Sum(g, k)]
  BY <1>3, <1>5
<1> QED BY <1>6 DEF Sums

LEMMA SumsExist == ASSUME NEW N \in Nat PROVE Sums(N)
<1> DEFINE Bad == {n \in Nat : ~Sums(n)}
<1>1. Sums(0)
  <2>1. PICK f : f = [k \in 0 .. 0 |-> 0]
    OBVIOUS
  <2>2. \A k \in 0 .. 0 : f[k] = Sum(f, k)
    BY <2>1 DEF Sum
  <2>3. f = [k \in 0 .. 0 |-> Sum(f, k)]
    BY <2>1, <2>2
  <2> QED BY <2>3 DEF Sums
<1>2. ASSUME Bad # {} PROVE FALSE
  <2>1. PICK m \in Bad : \A y \in Bad : m <= y
    BY <1>2, LeastOf
  <2>2. m \in Nat /\ m - 1 \in Nat /\ m - 1 \notin Bad
    BY <2>1, <1>1
  <2>3. PICK n \in Nat : n = m - 1
    BY <2>2
  <2>4. Sums(n) /\ m = n + 1
    BY <2>2, <2>3
  <2> QED BY <2>1, <2>4, SumsNext
<1> QED BY <1>2

LEMMA RoundTimeUnfold == \A n \in 0 .. NLoops : RoundTime[n] = Sum(RoundTime, n)
<1>1. \E f : f = [n \in 0 .. NLoops |-> Sum(f, n)]
  BY SumsExist, LoopAssumption DEF Sums
<1>2. RoundTime = CHOOSE f : f = [n \in 0 .. NLoops |-> Sum(f, n)]
  BY DEF RoundTime, Sum
<1>3. RoundTime = [n \in 0 .. NLoops |-> Sum(RoundTime, n)]
  BY <1>1, <1>2
<1> QED BY <1>3

(* The sums are numbers and grow with the rounds.                          *)
LEMMA RoundTimes ==
  /\ \A n \in 0 .. NLoops : RoundTime[n] \in Nat
  /\ RoundTime[0] = 0
  /\ \A n \in 0 .. NLoops - 1 : RoundTime[n + 1] = RoundTime[n] + timeouts[n]
<1>1. NLoops \in Nat /\ \A n \in 0 .. NLoops - 1 : timeouts[n] \in Nat
  BY LoopAssumption
<1>2. RoundTime[0] = 0
  BY <1>1, RoundTimeUnfold DEF Sum
<1>3. ASSUME NEW n \in 0 .. NLoops - 1 PROVE RoundTime[n + 1] = RoundTime[n] + timeouts[n]
  <2>1. n + 1 \in 0 .. NLoops /\ n + 1 # 0 /\ n + 1 - 1 = n
    BY <1>1
  <2>2. RoundTime[n + 1] = Sum(RoundTime, n + 1)
    BY <2>1, RoundTimeUnfold
  <2> QED BY <2>1, <2>2 DEF Sum
<1> DEFINE Bad == {n \in 0 .. NLoops : RoundTime[n] \notin Nat}
<1>4. ASSUME Bad # {} PROVE FALSE
  <2>0. Bad \subseteq Nat
    BY <1>1
  <2>1. PICK m \in Bad : \A y \in Bad : m <= y
    <3> HIDE DEF Bad
    <3> QED BY <2>0, <1>4, LeastOf
  <2>2. m # 0 /\ m \in 0 .. NLoops
    BY <1>2, <2>1
  <2>3. m - 1 \in 0 .. NLoops - 1 /\ m - 1 \in 0 .. NLoops /\ m - 1 + 1 = m /\ m - 1 < m
    BY <2>2, <1>1
  <2>4. RoundTime[m - 1] \in Nat
    BY <2>1, <2>3
  <2>5. RoundTime[m] = RoundTime[m - 1] + timeouts[m - 1]
    BY <2>3, <1>3
  <2> QED BY <2>1, <2>3, <2>4, <2>5, <1>1
<1> QED BY <1>2, <1>3, <1>4

LEMMA RoundTimeGrows == \A n \in 0 .. NLoops : RoundTime[n] <= RoundTime[NLoops]
<1>1. NLoops \in Nat /\ NLoops \in 0 .. NLoops
  BY LoopAssumption
<1> DEFINE Bad == {k \in 0 .. NLoops : ~(RoundTime[NLoops - k] <= RoundTime[NLoops])}
<1>2. ASSUME Bad # {} PROVE FALSE
  <2>0. Bad \subseteq Nat
    BY <1>1
  <2>1. PICK m \in Bad : \A y \in Bad : m <= y
    <3> HIDE DEF Bad
    <3> QED BY <2>0, <1>2, LeastOf
  <2>2. m # 0 /\ m \in 0 .. NLoops
    BY <1>1, <2>1, RoundTimes
  <2>3. PICK n \in 0 .. NLoops - 1 : n = NLoops - m
    BY <2>2, <1>1
  <2>4. n + 1 = NLoops - (m - 1) /\ m - 1 \in 0 .. NLoops /\ m - 1 < m /\ n + 1 \in 0 .. NLoops
    BY <2>2, <2>3, <1>1
  <2>5. RoundTime[n + 1] <= RoundTime[NLoops]
    BY <2>1, <2>4
  <2>6. /\ RoundTime[n + 1] = RoundTime[n] + timeouts[n] /\ timeouts[n] \in Nat
        /\ RoundTime[n] \in Nat /\ RoundTime[NLoops] \in Nat
    BY <1>1, RoundTimes, LoopAssumption
  <2>7. RoundTime[n] <= RoundTime[NLoops]
    BY <2>5, <2>6
  <2> QED BY <2>1, <2>3, <2>7
<1>3. ASSUME NEW n \in 0 .. NLoops PROVE RoundTime[n] <= RoundTime[NLoops]
  <2>1. NLoops - n \in 0 .. NLoops /\ NLoops - (NLoops - n) = n
    BY <1>1
  <2> QED BY <2>1, <1>2
<1> QED BY <1>3

(* The servers before slot c.                                              *)
Past(c) == Cardinality({s \in Alive : s < c})

LEMMA PastFacts ==
  /\ Cardinality(Alive) \in Nat
  /\ Past(0) = 0 /\ Past(NServers) = Cardinality(Alive)
  /\ \A c \in 0 .. NServers : Past(c) \in Nat /\ Past(c) <= Cardinality(Alive)
  /\ \A c \in Servers : Past(c + 1) = IF c \in Alive THEN Past(c) + 1 ELSE Past(c)
<1>1. IsFiniteSet(Alive) /\ \A s \in Alive : s \in Nat /\ s < NServers
  <2>1. IsFiniteSet(0 .. NServers - 1)
    BY ServerAssumption, FS_Interval
  <2>2. IsFiniteSet(Alive)
    BY <2>1, ServerAssumption, FS_Subset
  <2>3. \A s \in Alive : s \in Nat /\ s < NServers
    BY ServerAssumption
  <2> QED BY <2>2, <2>3
<1>2. Cardinality(Alive) \in Nat
  BY <1>1, FS_CardinalityType
<1>3. Past(0) = 0
  <2>1. {s \in Alive : s < 0} = {}
    BY <1>1
  <2> QED BY <2>1, FS_EmptySet DEF Past
<1>4. Past(NServers) = Cardinality(Alive)
  <2>1. {s \in Alive : s < NServers} = Alive
    BY <1>1
  <2> QED BY <2>1 DEF Past
<1>5. ASSUME NEW c PROVE /\ IsFiniteSet({s \in Alive : s < c})
                         /\ Past(c) \in Nat /\ Past(c) <= Cardinality(Alive)
  <2>1. {s \in Alive : s < c} \in SUBSET Alive
    OBVIOUS
  <2> QED BY <2>1, <1>1, FS_Subset, FS_CardinalityType DEF Past
<1>6. ASSUME NEW c \in Servers PROVE Past(c + 1) = IF c \in Alive THEN Past(c) + 1 ELSE Past(c)
  <2>1. c \in Nat
    BY ServerAssumption DEF Servers
  <2>2. CASE c \in Alive
    <3>1. \A s \in Alive : s < c + 1 <=> s < c \/ s = c
      BY <2>1, <1>1
    <3>2. {s \in Alive : s < c + 1} = {s \in Alive : s < c} \cup {c}
      BY <2>2, <3>1
    <3>3. c \notin {s \in Alive : s < c}
      BY <2>1
    <3>4. Cardinality({s \in Alive : s < c} \cup {c}) = Cardinality({s \in Alive : s < c}) + 1
      <4>1. IsFiniteSet({s \in Alive : s < c})
        BY <1>5
      <4> QED BY <3>3, <4>1, FS_AddElement
    <3> QED BY <2>2, <3>2, <3>4 DEF Past
  <2>3. CASE c \notin Alive
    <3>1. {s \in Alive : s < c + 1} = {s \in Alive : s < c}
      BY <2>1, <2>3, <1>1
    <3> QED BY <2>3, <3>1 DEF Past
  <2> QED BY <2>2, <2>3
<1> QED BY <1>2, <1>3, <1>4, <1>5, <1>6

(* The time of all rounds before n, and of k servers in round n; and of    *)
(* all rounds, and of k servers by TCP.                                    *)
UdpTime(n, k) == Cardinality(Alive) * RoundTime[n] + k * timeouts[n]

TcpTime(k) == Cardinality(Alive) * RoundTime[NLoops] + k * (2 * TcpTimeout)

LEMMA Products ==
  /\ \A a, b \in Nat : a * b \in Nat /\ a * 0 = 0 /\ 0 * a = 0
  /\ \A a, b, c \in Nat : a * (b + c) = a * b + a * c /\ (a + b) * c = a * c + b * c
  /\ \A a, b, c \in Nat : b <= c => a * b <= a * c /\ b * a <= c * a
<1>1. \A a, b, c \in Nat : a * (b + c) = a * b + a * c /\ (a + b) * c = a * c + b * c
  OBVIOUS
<1>2. ASSUME NEW a \in Nat, NEW b \in Nat, NEW c \in Nat, b <= c
      PROVE  a * b <= a * c /\ b * a <= c * a
  <2>1. PICK d \in Nat : c = b + d
    BY <1>2
  <2>2. a * c = a * b + a * d /\ c * a = b * a + d * a
    BY <2>1
  <2>3. a * d \in Nat /\ d * a \in Nat /\ a * b \in Nat /\ b * a \in Nat
    OBVIOUS
  <2> QED BY <2>2, <2>3
<1> QED BY <1>1, <1>2

LEMMA UdpTimes ==
  ASSUME NEW n \in 0 .. NLoops - 1, NEW k \in Nat
  PROVE  /\ UdpTime(n, k) \in Nat
         /\ UdpTime(n, k + 1) = UdpTime(n, k) + timeouts[n]
         /\ k <= Cardinality(Alive) => UdpTime(n, k) <= TcpTime(0)
         /\ n + 1 \in 0 .. NLoops - 1 => UdpTime(n + 1, 0) = UdpTime(n, Cardinality(Alive))
<1>1. PICK C \in Nat : C = Cardinality(Alive)
  BY PastFacts
<1>2. PICK t \in Nat : t = timeouts[n]
  BY LoopAssumption
<1>3. PICK r \in Nat : r = RoundTime[n]
  <2>1. n \in 0 .. NLoops
    BY LoopAssumption
  <2> QED BY <2>1, RoundTimes
<1>4. PICK q \in Nat : q = RoundTime[NLoops]
  BY LoopAssumption, RoundTimes
<1>5. RoundTime[n + 1] = r + t /\ r + t <= q
  <2>1. n + 1 \in 0 .. NLoops
    BY LoopAssumption
  <2>2. RoundTime[n + 1] = r + t
    BY <1>2, <1>3, RoundTimes
  <2> QED BY <2>1, <2>2, <1>4, RoundTimeGrows
<1>6. UdpTime(n, k) = C * r + k * t /\ UdpTime(n, k + 1) = C * r + (k + 1) * t
  BY <1>1, <1>2, <1>3 DEF UdpTime
<1>7. UdpTime(n, C) = C * r + C * t
  BY <1>1, <1>2, <1>3 DEF UdpTime
<1>8. TcpTime(0) = C * q
  <2>1. 2 * TcpTimeout \in Nat /\ C * q \in Nat
    BY LoopAssumption, Products
  <2>2. 0 * (2 * TcpTimeout) = 0
    BY <2>1, Products
  <2> QED BY <2>1, <2>2, <1>1, <1>4 DEF TcpTime
<1>9. C * r \in Nat /\ k * t \in Nat /\ C * t \in Nat /\ C * q \in Nat /\ 1 * t = t
  BY Products
<1>10. (k + 1) * t = k * t + t /\ C * (r + t) = C * r + C * t
  BY <1>9, Products
<1>11. UdpTime(n, k) \in Nat /\ UdpTime(n, k + 1) = UdpTime(n, k) + t
  BY <1>6, <1>9, <1>10
<1>12. ASSUME k <= C PROVE UdpTime(n, k) <= TcpTime(0)
  <2>1. k * t <= C * t /\ C * (r + t) <= C * q
    BY <1>12, <1>5, Products
  <2> QED BY <2>1, <1>6, <1>8, <1>9, <1>10
<1>13. ASSUME n + 1 \in 0 .. NLoops - 1 PROVE UdpTime(n + 1, 0) = UdpTime(n, C)
  <2>1. timeouts[n + 1] \in Nat
    BY <1>13, LoopAssumption
  <2>2. 0 * timeouts[n + 1] = 0
    BY <2>1, Products
  <2>3. UdpTime(n + 1, 0) = C * (r + t)
    BY <2>2, <1>1, <1>5, <1>9, <1>10 DEF UdpTime
  <2> QED BY <2>3, <1>7, <1>10
<1> QED BY <1>1, <1>2, <1>11, <1>12, <1>13

LEMMA TcpTimes ==
  ASSUME NEW k \in Nat
  PROVE  /\ TcpTime(k) \in Nat
         /\ TcpTime(k + 1) = TcpTime(k) + TcpTimeout + TcpTimeout
         /\ k <= Cardinality(Alive) =>
              TcpTime(k) <= Cardinality(Alive) * (RoundTime[NLoops] + 2 * TcpTimeout)
<1>1. PICK C \in Nat : C = Cardinality(Alive)
  BY PastFacts
<1>2. PICK q \in Nat : q = RoundTime[NLoops]
  BY LoopAssumption, RoundTimes
<1>3. PICK u \in Nat : u = 2 * TcpTimeout /\ u = TcpTimeout + TcpTimeout
  BY LoopAssumption
<1>4. TcpTime(k) = C * q + k * u /\ TcpTime(k + 1) = C * q + (k + 1) * u
  BY <1>1, <1>2, <1>3 DEF TcpTime
<1>5. C * q \in Nat /\ k * u \in Nat /\ C * u \in Nat /\ 1 * u = u
  BY Products
<1>6. (k + 1) * u = k * u + u /\ C * (q + u) = C * q + C * u
  BY <1>5, Products
<1>7. ASSUME k <= C PROVE TcpTime(k) <= C * (q + u)
  <2>1. k * u <= C * u
    BY <1>7, Products
  <2> QED BY <2>1, <1>4, <1>5, <1>6
<1>8. TcpTime(k + 1) = TcpTime(k) + TcpTimeout + TcpTimeout
  BY <1>3, <1>4, <1>5, <1>6, LoopAssumption
<1> QED BY <1>1, <1>2, <1>3, <1>4, <1>5, <1>7, <1>8

(* The time granted so far is within the time of what has been tried.      *)
Clocked ==
  /\ at = "idle" => TimeBound
  /\ at = "udp" => granted <= IF udploop < NLoops THEN UdpTime(udploop, Past(curserver))
                                                  ELSE TcpTime(0)
  /\ Waiting(0) => udploop < NLoops /\ granted <= UdpTime(udploop, Past(curserver) + 1)
  /\ at = "tcp" => granted <= TcpTime(Past(curserver))
  /\ at = "wait" /\ tcpstate # 0 =>
       IF tcpstate < 3 THEN granted + TcpTimeout <= TcpTime(Past(curserver) + 1)
                       ELSE granted <= TcpTime(Past(curserver) + 1)

(* A server of the list is one of those counted.                           *)
LEMMA AliveFacts ==
  ASSUME Typed, curserver \in Alive
  PROVE  /\ Past(curserver) \in Nat /\ Past(curserver) + 1 \in Nat
         /\ Past(curserver + 1) = Past(curserver) + 1
         /\ Past(curserver) + 1 <= Cardinality(Alive)
<1>1. curserver \in Servers /\ curserver \in 0 .. NServers
  BY ServerAssumption DEF Servers, Typed, TypeOK
<1>2. curserver + 1 \in 0 .. NServers
  BY <1>1, NextInList
<1>3. Past(curserver + 1) = Past(curserver) + 1
  BY <1>1, PastFacts
<1> QED BY <1>1, <1>2, <1>3, PastFacts

(* However far the query has come, it has not taken longer than the bound. *)
LEMMA ClockedBound == ASSUME Typed, Clocked PROVE TimeBound
<1>1. /\ Past(curserver) \in Nat /\ Past(curserver) <= Cardinality(Alive)
      /\ Cardinality(Alive) \in Nat /\ 0 <= Cardinality(Alive)
      /\ granted \in Nat /\ TcpTimeout \in Nat /\ NLoops \in Nat
      /\ 0 \in Nat
  BY PastFacts, LoopAssumption DEF Typed, TypeOK
<1>2. PICK B : B = Cardinality(Alive) * (RoundTime[NLoops] + 2 * TcpTimeout)
  OBVIOUS
<1>3. TcpTime(0) \in Nat /\ TcpTime(0) <= B
  BY <1>1, <1>2, TcpTimes
<1>4. B \in Nat
  <2>1. RoundTime[NLoops] + 2 * TcpTimeout \in Nat
    BY <1>1, RoundTimes
  <2> QED BY <2>1, <1>1, <1>2, Products
<1>5. SUFFICES granted <= B
  BY <1>2 DEF TimeBound
<1>6. CASE at = "idle"
  BY <1>2, <1>6 DEF Clocked, TimeBound
<1>7. CASE at = "udp"
  <2>1. CASE udploop < NLoops
    <3>1. udploop \in 0 .. NLoops - 1
      BY <2>1, <1>1 DEF Typed, TypeOK
    <3>2. UdpTime(udploop, Past(curserver)) \in Nat
          /\ UdpTime(udploop, Past(curserver)) <= TcpTime(0)
      BY <3>1, <1>1, UdpTimes
    <3>3. granted <= UdpTime(udploop, Past(curserver))
      BY <2>1, <1>7 DEF Clocked
    <3> QED BY <3>2, <3>3, <1>1, <1>3, <1>4
  <2>2. CASE ~(udploop < NLoops)
    <3>1. granted <= TcpTime(0)
      BY <2>2, <1>7 DEF Clocked
    <3> QED BY <3>1, <1>1, <1>3, <1>4
  <2> QED BY <2>1, <2>2
<1>8. CASE at = "tcp"
  <2>1. TcpTime(Past(curserver)) \in Nat /\ TcpTime(Past(curserver)) <= B
    BY <1>1, <1>2, TcpTimes
  <2>2. granted <= TcpTime(Past(curserver))
    BY <1>8 DEF Clocked
  <2> QED BY <2>1, <2>2, <1>1, <1>4
<1>9. CASE at = "wait"
  <2>1. Past(curserver) + 1 \in Nat /\ Past(curserver) + 1 <= Cardinality(Alive)
    BY <1>9, AliveFacts DEF Typed
  <2>2. PICK k \in Nat : k = Past(curserver) + 1 /\ k <= Cardinality(Alive)
    BY <2>1
  <2>3. TcpTime(k) \in Nat /\ TcpTime(k) <= B
    BY <2>2, <1>2, TcpTimes
  <2>4. CASE tcpstate = 0
    <3>1. udploop < NLoops /\ granted <= UdpTime(udploop, k)
      BY <2>2, <2>4, <1>9 DEF Clocked, Waiting
    <3>2. udploop \in 0 .. NLoops - 1
      BY <3>1, <1>1 DEF Typed, TypeOK
    <3>3. UdpTime(udploop, k) \in Nat /\ UdpTime(udploop, k) <= TcpTime(0)
      BY <3>2, <2>2, UdpTimes
    <3> QED BY <3>1, <3>3, <1>1, <1>3, <1>4
  <2>5. CASE tcpstate # 0
    <3>1. granted <= TcpTime(k) \/ granted + TcpTimeout <= TcpTime(k)
      BY <2>2, <2>5, <1>9 DEF Clocked
    <3> QED BY <3>1, <2>3, <1>1, <1>4
  <2> QED BY <2>4, <2>5
<1> QED BY <1>6, <1>7, <1>8, <1>9 DEF Typed, TypeOK

(* A query that ends, and steps that change nothing that counts.           *)
LEMMA ClockedEnd ==
  ASSUME Typed, Clocked, at' = "idle", granted' = granted
  PROVE  Clocked'
<1>1. TimeBound'
  BY ClockedBound DEF TimeBound
<1> QED BY <1>1 DEF Clocked, Waiting

LEMMA ClockedSame ==
  ASSUME Typed, Clocked, UNCHANGED <<at, granted, udploop, curserver>>,
         \/ tcpstate' = tcpstate
         \/ tcpstate \in 1 .. 2 /\ tcpstate' \in 1 .. 2
         \/ tcpstate \in 3 .. 5 /\ tcpstate' \in 3 .. 5
  PROVE  Clocked'
BY DEF Clocked, TimeBound, Waiting, Past

LEMMA ClockedNext == Typed /\ Clocked /\ [Next]_vars => Clocked'
<1> SUFFICES ASSUME Typed, Clocked, [Next]_vars PROVE Clocked'
  OBVIOUS
<1>0. /\ Alive \subseteq Servers /\ NLoops \in Nat /\ NLoops >= 2
      /\ granted \in Nat /\ TcpTimeout \in Nat /\ NServers \in Nat
      /\ udploop \in 0 .. NLoops /\ curserver \in 0 .. NServers
      /\ tcpstate \in 0 .. 5
  BY ServerAssumption, LoopAssumption DEF Servers, Typed, TypeOK
<1>1. ASSUME NEW rec \in BOOLEAN, NEW long \in BOOLEAN,
             dns_transmit_start(rec, long)
      PROVE  Clocked'
  <2>1. /\ at' \in {"udp", "tcp"} /\ granted' = 0 /\ curserver' = 0
        /\ udploop' \in 0 .. NLoops - 1
    BY <1>0, <1>1 DEF dns_transmit_start
  <2>2. Past(curserver') \in Nat
    BY <2>1, <1>0, PastFacts
  <2>3. PICK k \in Nat : k = Past(curserver')
    BY <2>2
  <2>4. UdpTime(udploop', k) \in Nat /\ TcpTime(k) \in Nat
    BY <2>1, UdpTimes, TcpTimes
  <2>5. granted' <= UdpTime(udploop', Past(curserver')) /\ granted' <= TcpTime(Past(curserver'))
    BY <2>1, <2>3, <2>4
  <2>6. udploop' < NLoops
    BY <2>1, <1>0
  <2> QED BY <2>1, <2>5, <2>6 DEF Clocked, Waiting, UdpTime, TcpTime, Past
<1>2. CASE StartNoMemory \/ NoSocket \/ Exhausted
  BY <1>2, ClockedEnd DEF StartNoMemory, NoSocket, Exhausted, Quit, FreeAll
<1>3. CASE dns_transmit_free
  BY <1>3, ClockedEnd DEF dns_transmit_free, FreeAll
<1>4. CASE UdpRefused
  <2>1. /\ at = "udp" /\ udploop < NLoops /\ curserver \in Alive /\ at' = "udp"
        /\ curserver' = curserver + 1 /\ granted' = granted /\ udploop' = udploop
    BY <1>4 DEF UdpRefused
  <2>2. PICK k \in Nat : k = Past(curserver) /\ Past(curserver') = k + 1
    BY <2>1, AliveFacts
  <2>3. udploop \in 0 .. NLoops - 1 /\ timeouts[udploop] \in Nat
    BY <2>1, <1>0, LoopAssumption
  <2>4. UdpTime(udploop, k) \in Nat /\ UdpTime(udploop, k + 1) = UdpTime(udploop, k) + timeouts[udploop]
    BY <2>3, UdpTimes
  <2>5. granted <= UdpTime(udploop, k)
    BY <2>1, <2>2 DEF Clocked
  <2>6. granted <= UdpTime(udploop, k + 1)
    BY <2>3, <2>4, <2>5, <1>0
  <2> QED BY <2>1, <2>2, <2>6 DEF Clocked, Waiting
<1>5. CASE UdpSend
  <2>1. /\ at = "udp" /\ udploop < NLoops /\ curserver \in Alive /\ at' = "wait"
        /\ curserver' = curserver /\ granted' = granted + timeouts[udploop]
        /\ udploop' = udploop /\ tcpstate' = 0
    BY <1>5 DEF UdpSend
  <2>2. PICK k \in Nat : k = Past(curserver)
    BY <2>1, AliveFacts
  <2>3. udploop \in 0 .. NLoops - 1 /\ timeouts[udploop] \in Nat
    BY <2>1, <1>0, LoopAssumption
  <2>4. UdpTime(udploop, k) \in Nat /\ UdpTime(udploop, k + 1) = UdpTime(udploop, k) + timeouts[udploop]
    BY <2>3, UdpTimes
  <2>5. granted <= UdpTime(udploop, k)
    BY <2>1, <2>2 DEF Clocked
  <2>6. granted' <= UdpTime(udploop, k + 1)
    BY <2>1, <2>3, <2>4, <2>5, <1>0
  <2> QED BY <2>1, <2>2, <2>6 DEF Clocked, Waiting
<1>6. CASE SkipServer
  <2>1. /\ at \in {"udp", "tcp"} /\ at' = at /\ curserver \in Servers \ Alive
        /\ curserver' = curserver + 1 /\ granted' = granted /\ udploop' = udploop
    BY <1>6 DEF SkipServer
  <2>2. Past(curserver') = Past(curserver)
    BY <2>1, PastFacts
  <2> QED BY <2>1, <2>2 DEF Clocked, Waiting
<1>7. CASE NextLoop
  <2>1. /\ at = "udp" /\ udploop < NLoops /\ curserver = NServers /\ at' = "udp"
        /\ curserver' = 0 /\ granted' = granted /\ udploop' = udploop + 1
    BY <1>7 DEF NextLoop
  <2>2. PICK C \in Nat : C = Cardinality(Alive)
    BY PastFacts
  <2>3. Past(curserver) = C /\ Past(curserver') = 0
    BY <2>1, <2>2, PastFacts
  <2>4. udploop \in 0 .. NLoops - 1
    BY <2>1, <1>0
  <2>5. /\ UdpTime(udploop, C) \in Nat /\ UdpTime(udploop, C) <= TcpTime(0)
        /\ udploop + 1 \in 0 .. NLoops - 1 => UdpTime(udploop + 1, 0) = UdpTime(udploop, C)
    BY <2>2, <2>4, UdpTimes
  <2>6. granted <= UdpTime(udploop, C)
    BY <2>1, <2>3 DEF Clocked
  <2>7. TcpTime(0) \in Nat
    BY TcpTimes
  <2>8. granted <= TcpTime(0)
    BY <2>5, <2>6, <2>7, <1>0
  <2>9. CASE udploop' < NLoops
    <3>1. udploop + 1 \in 0 .. NLoops - 1
      BY <2>1, <2>4, <2>9, <1>0
    <3>2. granted' <= UdpTime(udploop', Past(curserver'))
      BY <3>1, <2>1, <2>3, <2>5, <2>6
    <3> QED BY <2>1, <2>9, <3>2 DEF Clocked, Waiting
  <2>10. CASE ~(udploop' < NLoops)
    BY <2>1, <2>8, <2>10 DEF Clocked, Waiting
  <2> QED BY <2>9, <2>10
<1>8. CASE TcpRefused
  <2>1. /\ at = "tcp" /\ curserver \in Alive /\ at' = "tcp"
        /\ curserver' = curserver + 1 /\ granted' = granted + TcpTimeout
    BY <1>8 DEF TcpRefused
  <2>2. PICK k \in Nat : k = Past(curserver) /\ Past(curserver') = k + 1
    BY <2>1, AliveFacts
  <2>3. TcpTime(k) \in Nat /\ TcpTime(k + 1) = TcpTime(k) + TcpTimeout + TcpTimeout
    BY TcpTimes
  <2>4. granted <= TcpTime(k)
    BY <2>1, <2>2 DEF Clocked
  <2>5. granted' <= TcpTime(k + 1)
    BY <2>1, <2>3, <2>4, <1>0
  <2> QED BY <2>1, <2>2, <2>5 DEF Clocked, Waiting
<1>9. CASE TcpConnect
  <2>1. /\ at = "tcp" /\ curserver \in Alive /\ at' = "wait" /\ tcpstate' \in {1, 2}
        /\ curserver' = curserver /\ granted' = granted + TcpTimeout
    BY <1>9 DEF TcpConnect
  <2>2. PICK k \in Nat : k = Past(curserver)
    BY <2>1, AliveFacts
  <2>3. TcpTime(k) \in Nat /\ TcpTime(k + 1) = TcpTime(k) + TcpTimeout + TcpTimeout
    BY TcpTimes
  <2>4. granted <= TcpTime(k)
    BY <2>1, <2>2 DEF Clocked
  <2>5. granted' + TcpTimeout <= TcpTime(k + 1)
    BY <2>1, <2>3, <2>4, <1>0
  <2>6. Past(curserver') + 1 = k + 1
    BY <2>1, <2>2
  <2> QED BY <2>1, <2>5, <2>6 DEF Clocked, Waiting
<1>10. CASE UdpAnswer
  BY <1>10, ClockedEnd DEF UdpAnswer, Quit, FreeAll
<1>11. CASE UdpTruncated
  <2>1. /\ at = "wait" /\ tcpstate = 0 /\ at' = "tcp" /\ curserver' = 0 /\ granted' = granted
    BY <1>11 DEF UdpTruncated, firsttcp, thistcp, Waiting, Reported
  <2>2. PICK k \in Nat : k = Past(curserver) + 1 /\ k <= Cardinality(Alive)
    BY <2>1, AliveFacts DEF Typed
  <2>3. udploop < NLoops /\ granted <= UdpTime(udploop, k)
    BY <2>1, <2>2 DEF Clocked, Waiting
  <2>4. udploop \in 0 .. NLoops - 1
    BY <2>3, <1>0
  <2>5. UdpTime(udploop, k) \in Nat /\ UdpTime(udploop, k) <= TcpTime(0) /\ TcpTime(0) \in Nat
    BY <2>2, <2>4, UdpTimes, TcpTimes
  <2>6. granted' <= TcpTime(0)
    BY <2>1, <2>3, <2>5, <1>0
  <2>7. Past(curserver') = 0
    BY <2>1, PastFacts
  <2> QED BY <2>1, <2>6, <2>7 DEF Clocked, Waiting
<1>12. CASE TcpConnected
  BY <1>12, ClockedSame DEF TcpConnected, Waiting, Reported
<1>13. ASSUME NEW r \in 1 .. QueryLen, TcpSend(r)
       PROVE  Clocked'
  <2>1. CASE pos' = QueryLen
    <3>1. /\ at = "wait" /\ tcpstate = 2 /\ at' = "wait" /\ tcpstate' = 3
          /\ granted' = granted + TcpTimeout /\ curserver' = curserver
      BY <1>13, <2>1 DEF TcpSend, Waiting, Reported
    <3>2. granted + TcpTimeout <= TcpTime(Past(curserver) + 1)
      BY <3>1 DEF Clocked
    <3> QED BY <3>1, <3>2 DEF Clocked, Waiting
  <2>2. CASE pos' # QueryLen
    BY <1>13, <2>2, ClockedSame DEF TcpSend, Waiting, Reported
  <2> QED BY <2>1, <2>2
<1>14. ASSUME NEW b \in 0 .. Radix - 1, TcpLength(b) \/ TcpNoMemory(b)
       PROVE  Clocked'
  <2>1. CASE TcpLength(b)
    BY <2>1, ClockedSame DEF TcpLength, Waiting, Reported
  <2>2. CASE TcpNoMemory(b)
    BY <2>2, ClockedEnd DEF TcpNoMemory, FreeAll
  <2> QED BY <1>14, <2>1, <2>2
<1>15. ASSUME at = "wait", tcpstate # 0, at' = "tcp", curserver' = curserver + 1,
              granted' = granted
       PROVE  Clocked'
  <2>1. PICK k \in Nat : k = Past(curserver) + 1 /\ Past(curserver') = k
    BY <1>15, AliveFacts DEF Typed
  <2>2. TcpTime(k) \in Nat
    BY TcpTimes
  <2>3. granted <= TcpTime(k) \/ granted + TcpTimeout <= TcpTime(k)
    BY <1>15, <2>1 DEF Clocked
  <2>4. granted' <= TcpTime(k)
    BY <1>0, <1>15, <2>2, <2>3
  <2> QED BY <1>15, <2>1, <2>4 DEF Clocked, Waiting
<1>16. ASSUME NEW r \in 1 .. Radix * Radix - 1, TcpReceive(r)
       PROVE  Clocked'
  <2>1. at = "wait" /\ tcpstate = 5 /\ UNCHANGED <<tcpstate, udploop, granted>>
    BY <1>16 DEF TcpReceive, Waiting, Reported
  <2>2. \/ UNCHANGED <<at, curserver>>
        \/ at' = "idle"
        \/ at' = "tcp" /\ curserver' = curserver + 1
    BY <1>16 DEF TcpReceive
  <2>3. CASE UNCHANGED <<at, curserver>>
    BY <2>1, <2>3, ClockedSame
  <2>4. CASE at' = "idle"
    BY <2>1, <2>4, ClockedEnd
  <2>5. CASE at' = "tcp" /\ curserver' = curserver + 1
    BY <2>1, <2>5, <1>15
  <2> QED BY <2>2, <2>3, <2>4, <2>5
<1>17. CASE Timeout \/ UdpFailed \/ TcpFailed
  <2>1. CASE tcpstate = 0
    <3>1. /\ at = "wait" /\ at' = "udp" /\ curserver' = curserver + 1
          /\ granted' = granted /\ udploop' = udploop
      BY <1>17, <2>1 DEF Timeout, UdpFailed, TcpFailed, Waiting, Reported, nextudp
    <3>2. Past(curserver') = Past(curserver) + 1
      BY <3>1, AliveFacts DEF Typed
    <3>3. udploop < NLoops /\ granted <= UdpTime(udploop, Past(curserver) + 1)
      BY <2>1, <3>1 DEF Clocked, Waiting
    <3> QED BY <3>1, <3>2, <3>3 DEF Clocked, Waiting
  <2>2. CASE tcpstate # 0
    <3>1. at = "wait" /\ at' = "tcp" /\ curserver' = curserver + 1 /\ granted' = granted
      BY <1>17, <2>2 DEF Timeout, UdpFailed, TcpFailed, Waiting, Reported, nexttcp, thistcp
    <3> QED BY <2>2, <3>1, <1>15
  <2> QED BY <2>1, <2>2
<1>18. CASE iopause \/ Ignored \/ UNCHANGED vars
  BY <1>18, ClockedSame DEF iopause, Ignored, vars
<1> QED BY <1>1, <1>2, <1>3, <1>4, <1>5, <1>6, <1>7, <1>8, <1>9, <1>10, <1>11,
           <1>12, <1>13, <1>14, <1>16, <1>17, <1>18 DEF Next, Scan, Get

(* For every list of servers, every number of rounds and all timeouts: the *)
(* timeouts that dns_transmit_get sets for one query add up to no more     *)
(* than those of all rounds and two TCP deadlines for every server.        *)
THEOREM TimeBoundHolds == Spec => []TimeBound
<1>1. Init => Typed /\ Clocked
  <2>1. SUFFICES ASSUME Init PROVE Clocked
    BY TypeInit
  <2>2. at = "idle" /\ granted = 0
    BY <2>1 DEF Init
  <2>3. /\ Cardinality(Alive) \in Nat
        /\ RoundTime[NLoops] \in Nat /\ 2 * TcpTimeout \in Nat
    BY LoopAssumption, PastFacts, RoundTimes
  <2>4. Cardinality(Alive) * (RoundTime[NLoops] + 2 * TcpTimeout) \in Nat
    BY <2>3, Products
  <2> QED BY <2>2, <2>4 DEF Clocked, TimeBound, Waiting
<1>2. (Typed /\ Clocked) /\ [Next]_vars => (Typed /\ Clocked)'
  BY TypeNext, ClockedNext
<1>3. Typed /\ Clocked => TimeBound
  BY ClockedBound
<1> QED BY <1>1, <1>2, <1>3, PTL DEF Spec
=============================================================================
