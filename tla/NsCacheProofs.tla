--------------------------- MODULE NsCacheProofs ----------------------------
(***************************************************************************)
(* Theorems about NsCache.  Every step of the server is one of a few kinds *)
(* of change to one slot of one table (Kinds); each invariant is then      *)
(* shown to survive every kind.                                            *)
(***************************************************************************)
EXTENDS NsCache, WellFoundedInduction, FiniteSetTheorems, TLAPS

USlot == [active : Nat, start : Nat, io : Nat, run : Nat, peer : Nat,
          id : Nat, q : Nat]
TSlot == [active : Nat, start : Nat, io : Nat, run : Nat, peer : Nat,
          id : Nat, q : Nat, fd : Int, state : Int, buf : Nat,
          len : Nat, pos : Nat, left : Int]

\* The types the proofs need.
Shape ==
  /\ u \in [UDP -> USlot]
  /\ t \in [TCP -> TSlot]
  /\ uactive \in Int /\ tactive \in Int
  /\ numqueries \in Nat /\ packets \in Nat /\ calls \in Nat
  /\ at \in Nat
  /\ pc = "udp" => at \in UDP
  /\ fds \subseteq Fds

\* One slot of BufferStates.
BufOK(x) ==
  LET full == x.active # 0 /\ x.state \in {3, -1}
  IN  /\ x.buf = IF full THEN 1 ELSE 0
      /\ full => x.pos < x.len

-----------------------------------------------------------------------------
(* The kinds of change.  x is the slot before the step and y after it.     *)

\* The client and its query stay.
UStays(x, y) ==
  /\ y.active = x.active /\ y.start = x.start /\ y.peer = x.peer
  /\ y.id = x.id /\ y.q = x.q
TStays(x, y) ==
  /\ UStays(x, y)
  /\ y.fd = x.fd
  /\ x.state = 0 <=> y.state = 0
  /\ BufOK(x) => BufOK(y)

Quiet ==
  /\ u' \in [UDP -> USlot] /\ t' \in [TCP -> TSlot]
  /\ \A j \in UDP : UStays(u[j], u'[j])
  /\ \A j \in TCP : TStays(t[j], t'[j])
  /\ pc # "top" => /\ \A j \in UDP : u'[j].io = u[j].io
                   /\ \A j \in TCP : t'[j].io = t[j].io
  /\ UNCHANGED <<uactive, tactive, numqueries, fds, packets, calls, asked, ends>>
  /\ reply' \in {reply, NoReply}

\* One slot of a table changes.
USet(j, y) == j \in UDP /\ y \in USlot /\ u' = [u EXCEPT ![j] = y]
              /\ UNCHANGED <<t, tactive, fds>>
TSet(j, y) == j \in TCP /\ y \in TSlot /\ t' = [t EXCEPT ![j] = y]
              /\ UNCHANGED <<u, uactive>> /\ (BufOK(t[j]) => BufOK(y))

\* A UDP query is answered or given up.
UEnd(j, y) ==
  /\ USet(j, y)
  /\ pc = "udp"
  /\ u[j].active # 0 /\ y = [u[j] EXCEPT !.active = 0, !.run = 0]
  /\ uactive' = uactive - 1
  /\ End(u[j].active)
  /\ reply' \in {reply, Response(u[j])}
  /\ UNCHANGED <<numqueries, packets, calls, asked>>

\* A packet takes a slot of the UDP table.
UTake(j, y) ==
  /\ USet(j, y)
  /\ pc = "udp_new"
  /\ j = Slot(u)
  /\ packets' = packets + 1 /\ calls' = calls

URefuse(j, y) ==
  /\ UTake(j, y)
  /\ y.active = 0
  /\ uactive' = uactive - One(u[j])
  /\ ends' = Ended(u[j], TRUE)
  /\ UNCHANGED <<numqueries, asked, reply>>

UAnswer(j, y) ==
  /\ UTake(j, y)
  /\ y.active = 0
  /\ uactive' = uactive - One(u[j])
  /\ ends' = Append(Ended(u[j], TRUE), 1)
  /\ numqueries' = numqueries + 1 /\ asked' = Append(asked, arrivals + 1)
  /\ reply' \in {reply, [num |-> numqueries + 1, to |-> arrivals + 1,
                         id |-> numqueries + 1, q |-> numqueries + 1]}

UBegin(j, y) ==
  /\ UTake(j, y)
  /\ y.active = numqueries + 1 /\ y.id = numqueries + 1 /\ y.q = numqueries + 1
  /\ y.peer = arrivals + 1
  /\ uactive' = uactive - One(u[j]) + 1
  /\ ends' = Append(Ended(u[j], TRUE), 0)
  /\ numqueries' = numqueries + 1 /\ asked' = Append(asked, arrivals + 1)
  /\ reply' = reply

\* A TCP client is closed.
TClose(j, y) ==
  /\ TSet(j, y)
  /\ t[j].active # 0 /\ y.active = 0
  /\ tactive' = tactive - 1
  /\ fds' = fds \ {t[j].fd}
  /\ reply' = reply
  /\ UNCHANGED <<packets, calls>>

\* The client was closed while its query was under way, or before it had a
\* query, or its query is refused at once.
TDrop(j, y) == TClose(j, y) /\ t[j].state = 0 /\ End(t[j].active)
               /\ UNCHANGED <<numqueries, asked>>
TBreak(j, y) == TClose(j, y) /\ t[j].state # 0
                /\ UNCHANGED <<numqueries, asked, ends>>
TDeny(j, y) == TClose(j, y) /\ t[j].state # 0 /\ ends' = Append(ends, 1)
               /\ numqueries' = numqueries + 1
               /\ asked' = Append(asked, t[j].peer)

\* A TCP client gets its response, after a while or at once.
TReply(j, y) ==
  /\ TSet(j, y)
  /\ t[j].active # 0 /\ y.active # 0 /\ y.fd = t[j].fd /\ y.state = -1
  /\ y.io = t[j].io
  /\ UNCHANGED <<tactive, fds, packets, calls>>
TRespond(j, y) ==
  /\ TReply(j, y)
  /\ t[j].state = 0
  /\ reply' = Response(t[j])
  /\ End(t[j].active)
  /\ UNCHANGED <<numqueries, asked>>
TAnswer(j, y) ==
  /\ TReply(j, y)
  /\ t[j].state # 0
  /\ ends' = Append(ends, 1)
  /\ numqueries' = numqueries + 1 /\ asked' = Append(asked, t[j].peer)
  /\ reply' = [num |-> numqueries + 1, to |-> t[j].peer,
               id |-> numqueries + 1, q |-> numqueries + 1]

\* The query of a TCP client is under way.
TBegin(j, y) ==
  /\ TSet(j, y)
  /\ t[j].active # 0 /\ t[j].state # 0
  /\ y.active = numqueries + 1 /\ y.id = numqueries + 1 /\ y.q = numqueries + 1
  /\ y.fd = t[j].fd /\ y.peer = t[j].peer /\ y.state = 0 /\ y.io = t[j].io
  /\ ends' = Append(ends, 0)
  /\ numqueries' = numqueries + 1 /\ asked' = Append(asked, t[j].peer)
  /\ UNCHANGED <<tactive, fds, packets, calls, reply>>

\* A connection takes a slot of the TCP table.
TTake(j, y) ==
  /\ TSet(j, y)
  /\ pc = "tcp_new"
  /\ j = Slot(t)
  /\ ends' = Ended(t[j], t[j].state = 0)
  /\ packets' = packets /\ calls' = calls + 1
  /\ UNCHANGED <<numqueries, asked, reply>>
TRefuse(j, y) ==
  /\ TTake(j, y)
  /\ y.active = 0
  /\ tactive' = tactive - One(t[j])
  /\ fds' = Others(j)
TAccept(j, y) ==
  /\ TTake(j, y)
  /\ y.active = 1 /\ y.state = 1
  /\ y.fd \in Fds \ Others(j)
  /\ tactive' = tactive - One(t[j]) + 1
  /\ fds' = Others(j) \cup {y.fd}

Kinds(j, y) ==
  \/ UEnd(j, y) \/ URefuse(j, y) \/ UAnswer(j, y) \/ UBegin(j, y)
  \/ TDrop(j, y) \/ TBreak(j, y) \/ TDeny(j, y)
  \/ TRespond(j, y) \/ TAnswer(j, y) \/ TBegin(j, y)
  \/ TRefuse(j, y) \/ TAccept(j, y)

Step == Quiet \/ \E j, y : Kinds(j, y)

-----------------------------------------------------------------------------
(* What the choices of a slot and of a descriptor find.                    *)

LEMMA Least ==
  ASSUME NEW S, S \subseteq Nat, S # {}
  PROVE  Min(S) \in S /\ \A y \in S : Min(S) <= y
<1>1. PICK x \in S : \A y \in S : ~(<<y, x>> \in OpToRel(<, Nat))
  BY NatLessThanWellFounded, WFMin, Zenon
<1>2. \A y \in S : x <= y
  <2>1. SUFFICES ASSUME NEW y \in S PROVE x <= y
    OBVIOUS
  <2>2. ~(y < x)
    BY <1>1 DEF OpToRel
  <2> QED BY <2>2
<1> QED BY <1>2 DEF Min

\* The first free slot, or the first of those that began earliest.
First(table, j) ==
  \A i \in DOMAIN table :
    IF Busy(table) # DOMAIN table
      THEN table[j].active = 0 /\ (table[i].active = 0 => j <= i)
      ELSE \/ table[j].start < table[i].start
           \/ table[j].start = table[i].start /\ j <= i

LEMMA SlotFound ==
  ASSUME NEW table, DOMAIN table \subseteq Nat, DOMAIN table # {},
         \A j \in DOMAIN table : table[j].start \in Nat
  PROVE  Slot(table) \in DOMAIN table /\ First(table, Slot(table))
<1> DEFINE D == DOMAIN table
<1>1. CASE Busy(table) # D
  <2> DEFINE F == D \ Busy(table)
  <2>1. F \subseteq Nat /\ F # {} /\ \A j \in D : j \in F <=> table[j].active = 0
    BY <1>1 DEF Busy
  <2> HIDE DEF F
  <2>2. Min(F) \in F /\ \A i \in F : Min(F) <= i
    BY <2>1, Least
  <2>3. Min(F) \in D /\ First(table, Min(F))
    <3>1. F \subseteq D
      BY DEF F
    <3> QED BY <1>1, <2>1, <2>2, <3>1 DEF First
  <2> QED BY <2>3 DEF Slot, First
<1>2. CASE Busy(table) = D
  <2> DEFINE T == {table[j].start : j \in D}
             m == Min(T)
             E == {j \in D : table[j].start = m}
  <2>1. T \subseteq Nat /\ T # {}
    OBVIOUS
  <2> HIDE DEF T
  <2>2. m \in T /\ \A n \in T : m <= n
    BY <2>1, Least
  <2> HIDE DEF m
  <2>3. E \subseteq Nat /\ E # {}
    BY <2>2 DEF T
  <2> HIDE DEF E
  <2>4. Min(E) \in E /\ \A i \in E : Min(E) <= i
    BY <2>3, Least
  <2> DEFINE a == Min(E)
  <2> HIDE DEF a
  <2>5. a \in D /\ table[a].start = m /\ m \in Nat /\ a \in Nat
    BY <2>1, <2>2, <2>4 DEF E, a
  <2>6. \A i \in D : m <= table[i].start
    BY <2>2 DEF T
  <2>7. \A i \in D : table[i].start = m => a <= i
    BY <2>4 DEF E, a
  <2>8. First(table, a)
    BY <1>2, <2>5, <2>6, <2>7 DEF First
  <2> QED BY <2>5, <2>8 DEF Slot, First
<1> QED BY <1>1, <1>2

LEMMA Tables ==
  /\ UDP \subseteq Nat /\ UDP # {} /\ TCP \subseteq Nat /\ TCP # {}
  /\ IsFiniteSet(UDP) /\ IsFiniteSet(TCP)
<1>1. MAXUDP - 1 \in Int /\ MAXTCP - 1 \in Int /\ 0 \in UDP /\ 0 \in TCP
  BY TableAssumption DEF UDP, TCP
<1>2. IsFiniteSet(UDP) /\ IsFiniteSet(TCP)
  BY <1>1, FS_Interval DEF UDP, TCP
<1> QED BY <1>1, <1>2 DEF UDP, TCP

LEMMA Slots_u ==
  ASSUME Shape
  PROVE  Slot(u) \in UDP /\ First(u, Slot(u))
<1>1. DOMAIN u = UDP /\ \A j \in UDP : u[j].start \in Nat
  BY DEF Shape, USlot
<1> QED BY <1>1, Tables, SlotFound

LEMMA Slots_t ==
  ASSUME Shape
  PROVE  Slot(t) \in TCP /\ First(t, Slot(t))
<1>1. DOMAIN t = TCP /\ \A j \in TCP : t[j].start \in Nat
  BY DEF Shape, TSlot
<1> QED BY <1>1, Tables, SlotFound

LEMMA FreeFd ==
  ASSUME NEW S, Fds \ S # {}
  PROVE  NextFd(S) \in Fds \ S
BY Least, DataAssumption DEF NextFd

-----------------------------------------------------------------------------
(* Every step is of one of the kinds.                                      *)

\* Nothing happens to a table.
LEMMA NothingHappens ==
  ASSUME Shape,
         UNCHANGED <<u, t, uactive, tactive, numqueries, fds, packets, calls,
                     asked, ends>>,
         reply' \in {reply, NoReply}
  PROVE  Quiet
<1>1. u' = u /\ t' = t
  OBVIOUS
<1>2. \A j \in UDP : UStays(u[j], u'[j])
  BY <1>1 DEF UStays
<1>3. \A j \in TCP : TStays(t[j], t'[j])
  BY <1>1 DEF TStays, UStays
<1> QED BY <1>1, <1>2, <1>3 DEF Quiet, Shape

\* One TCP client's slot changes, and the client and its query stay.
LEMMA ClientStays ==
  ASSUME Shape, NEW j \in TCP, NEW y \in TSlot,
         t' = [t EXCEPT ![j] = y], TStays(t[j], y), y.io = t[j].io,
         UNCHANGED <<u, uactive, tactive, numqueries, fds, packets, calls,
                     asked, ends, reply>>
  PROVE  Quiet
<1>1. u' = u /\ t' \in [TCP -> TSlot] /\ u' \in [UDP -> USlot]
  BY DEF Shape
<1>2. \A i \in UDP : UStays(u[i], u'[i])
  BY <1>1 DEF UStays
<1>3. \A i \in TCP : TStays(t[i], t'[i])
  <2>1. SUFFICES ASSUME NEW i \in TCP PROVE TStays(t[i], t'[i])
    OBVIOUS
  <2>2. CASE i = j
    <3>1. t'[i] = y
      BY <2>2 DEF Shape
    <3> QED BY <2>2, <3>1
  <2>3. CASE i # j
    <3>1. t'[i] = t[i]
      BY <2>3 DEF Shape
    <3> QED BY <3>1 DEF TStays, UStays
  <2> QED BY <2>2, <2>3
<1>4. \A i \in TCP : t'[i].io = t[i].io
  BY DEF Shape
<1> QED BY <1>1, <1>2, <1>3, <1>4 DEF Quiet

LEMMA StepTop ==
  ASSUME Shape, Top
  PROVE  Step
<1>1. u \in [UDP -> USlot] /\ t \in [TCP -> TSlot]
  BY DEF Shape
<1>2. \A S : \A j : IsFiniteSet(S) => Below(S, j) \in Nat
  BY FS_Subset, FS_CardinalityType DEF Below
<1>3. IsFiniteSet(Busy(u)) /\ IsFiniteSet(Busy(t)) /\ Cardinality(Busy(u)) \in Nat
  <2>1. Busy(u) \subseteq UDP /\ Busy(t) \subseteq TCP
    BY <1>1 DEF Busy
  <2> QED BY <2>1, Tables, FS_Subset, FS_CardinalityType
<1>4. \A j \in UDP : /\ u'[j] \in USlot
                     /\ UStays(u[j], u'[j])
  <2>1. SUFFICES ASSUME NEW j \in UDP
                 PROVE  u'[j] \in USlot /\ UStays(u[j], u'[j])
    OBVIOUS
  <2> DEFINE b == 3 + Below(Busy(u), j)
  <2>2. b \in Nat
    BY <1>2, <1>3
  <2>3. u'[j] = IF u[j].active # 0 THEN [u[j] EXCEPT !.io = b] ELSE u[j]
    BY DEF Top
  <2> HIDE DEF b
  <2> QED BY <1>1, <2>2, <2>3 DEF USlot, UStays
<1>5. \A j \in TCP : /\ t'[j] \in TSlot
                     /\ TStays(t[j], t'[j])
  <2>1. SUFFICES ASSUME NEW j \in TCP
                 PROVE  t'[j] \in TSlot /\ TStays(t[j], t'[j])
    OBVIOUS
  <2> DEFINE b == 3 + Cardinality(Busy(u)) + Below(Busy(t), j)
  <2>2. b \in Nat
    BY <1>2, <1>3
  <2>3. t'[j] = IF t[j].active # 0 THEN [t[j] EXCEPT !.io = b] ELSE t[j]
    BY DEF Top
  <2> HIDE DEF b
  <2> QED BY <1>1, <2>2, <2>3 DEF TSlot, TStays, UStays, BufOK
<1>6. u' \in [UDP -> USlot] /\ t' \in [TCP -> TSlot]
  BY <1>4, <1>5 DEF Top
<1> QED BY <1>4, <1>5, <1>6 DEF Step, Quiet, Top, kernel

LEMMA StepTick ==
  ASSUME Shape, Tick
  PROVE  Step
<1>1. u' = u /\ u' \in [UDP -> USlot] /\ t \in [TCP -> TSlot]
  BY DEF Shape, Tick
<1>2. \A j \in UDP : UStays(u[j], u'[j])
  BY <1>1 DEF UStays
<1>3. \A j \in TCP : /\ t'[j] \in TSlot
                     /\ TStays(t[j], t'[j])
  BY <1>1 DEF Tick, TSlot, TStays, UStays, BufOK
<1>4. t' \in [TCP -> TSlot]
  BY <1>3 DEF Tick
<1> QED BY <1>1, <1>2, <1>3, <1>4 DEF Step, Quiet, Tick, kernel, history

LEMMA StepNothing ==
  ASSUME Shape,
         \/ iopause \/ UdpPass \/ NoClient \/ ClientSends \/ ClientLeaves
         \/ UNCHANGED vars
  PROVE  Step
<1>1. UNCHANGED <<u, t, uactive, tactive, numqueries, fds, packets, calls,
                  asked, ends, reply>>
  BY DEF iopause, UdpPass, NoClient, ClientSends, ClientLeaves, vars, kernel,
         history
<1> QED BY <1>1, NothingHappens DEF Step

LEMMA StepUdp ==
  ASSUME Shape, udp_drop \/ udp_respond
  PROVE  Step
<1> DEFINE y == [u[at] EXCEPT !.active = 0, !.run = 0]
<1>1. at \in UDP /\ u[at] \in USlot /\ u \in [UDP -> USlot]
  BY DEF Shape, udp_drop, udp_respond
<1>2. y \in USlot
  BY <1>1 DEF USlot
<1>3. u' = [u EXCEPT ![at] = y]
  BY <1>1 DEF udp_drop, udp_respond, USlot
<1>4. USet(at, y)
  BY <1>1, <1>2, <1>3 DEF USet, udp_drop, udp_respond, kernel
<1>5. UEnd(at, y)
  BY <1>1, <1>4 DEF UEnd, udp_drop, udp_respond, kernel, Response
<1> QED BY <1>5 DEF Step, Kinds

LEMMA TakenSlot ==
  ASSUME NEW x \in USlot, NEW now \in Times
  PROVE  Taken(x, now) \in USlot /\ Taken(x, now).active = 0
<1>1. now \in Nat
  BY TimeAssumption
<1> QED BY <1>1 DEF Taken, USlot

LEMMA StepUdpRefused ==
  ASSUME Shape, NEW now \in Times, UdpRefused(now)
  PROVE  Step
<1> DEFINE j == Slot(u)
<1>1. j \in UDP /\ u[j] \in USlot
  BY Slots_u DEF Shape
<1>2. arrivals \in Nat
  BY DEF Shape, arrivals
<1>3. PICK peer \in {u[j].peer, arrivals + 1} :
        u' = [u EXCEPT ![j] = [Taken(u[j], now) EXCEPT !.peer = peer]]
  BY <1>1 DEF UdpRefused, Shape
<1> DEFINE y == [Taken(u[j], now) EXCEPT !.peer = peer]
<1>4. y \in USlot /\ y.active = 0
  <2>1. peer \in Nat
    BY <1>1, <1>2, <1>3 DEF USlot
  <2>2. /\ Taken(u[j], now) \in USlot
        /\ Taken(u[j], now).active = 0
    BY <1>1, TakenSlot
  <2> QED BY <2>1, <2>2 DEF USlot
<1>5. u' = [u EXCEPT ![j] = y]
  BY <1>3
<1> HIDE DEF y
<1>6. UTake(j, y)
  BY <1>1, <1>4, <1>5 DEF UTake, USet, UdpRefused, Packet
<1>7. URefuse(j, y)
  BY <1>4, <1>6 DEF URefuse, UdpRefused
<1> QED BY <1>7 DEF Step, Kinds

Asked(w, p, n) == [w EXCEPT !.peer = p, !.id = n, !.q = n]

LEMMA AskedSlot ==
  ASSUME NEW w \in USlot, NEW p \in Nat, NEW n \in Nat,
         NEW x, x = Asked(w, p, n)
  PROVE  /\ x \in USlot /\ x.active = w.active
         /\ x.peer = p /\ x.id = n /\ x.q = n
BY DEF USlot, Asked

LEMMA StepUdpQuery ==
  ASSUME Shape, NEW now \in Times, UdpQuery(now)
  PROVE  Step
<1> DEFINE j == Slot(u)
           n == numqueries + 1
           x == [Taken(u[j], now) EXCEPT !.peer = arrivals + 1, !.id = n, !.q = n]
           a == [x EXCEPT !.active = n]
<1>1. j \in UDP /\ u[j] \in USlot
  BY Slots_u DEF Shape
<1>2. arrivals \in Nat /\ n \in Nat
  BY DEF Shape, arrivals
<1> HIDE DEF n
<1>3. /\ x \in USlot /\ x.active = 0
      /\ x.peer = arrivals + 1 /\ x.id = n /\ x.q = n
  <2>1. PICK w \in USlot : w = Taken(u[j], now) /\ w.active = 0
    BY <1>1, TakenSlot
  <2>2. x = Asked(w, arrivals + 1, n)
    BY <2>1 DEF Asked
  <2>3. arrivals + 1 \in Nat
    BY <1>2
  <2> HIDE DEF x
  <2> QED BY <1>2, <2>1, <2>2, <2>3, AskedSlot
<1>4. /\ a \in USlot /\ a.active = n
      /\ a.peer = arrivals + 1 /\ a.id = n /\ a.q = n
  BY <1>2, <1>3 DEF USlot
<1>5. \A r \in Nat : /\ [x EXCEPT !.run = r] \in USlot
                        /\ [x EXCEPT !.run = r].active = 0
  BY <1>3 DEF USlot
<1>6. [a EXCEPT !.run = 1] \in USlot
      /\ [a EXCEPT !.run = 1].active = n /\ [a EXCEPT !.run = 1].id = n
      /\ [a EXCEPT !.run = 1].q = n /\ [a EXCEPT !.run = 1].peer = arrivals + 1
  BY <1>4 DEF USlot
<1>7. Response(a) = [num |-> n, to |-> arrivals + 1, id |-> n, q |-> n]
  BY <1>4 DEF Response
<1>8. /\ Packet /\ numqueries' = n /\ asked' = Append(asked, arrivals + 1)
      /\ UNCHANGED <<t, tactive, fds, gone>>
      /\ \/ /\ \E z \in Failed(x) : u' = [u EXCEPT ![j] = z]
            /\ uactive' = uactive - One(u[j])
            /\ ends' = Append(Ended(u[j], TRUE), 1)
            /\ reply' = reply
         \/ /\ u' = [u EXCEPT ![j] = [x EXCEPT !.run = 0]]
            /\ uactive' = uactive - One(u[j])
            /\ ends' = Append(Ended(u[j], TRUE), 1)
            /\ reply' = Response(a)
         \/ /\ u' = [u EXCEPT ![j] = [a EXCEPT !.run = 1]]
            /\ uactive' = uactive - One(u[j]) + 1
            /\ ends' = Append(Ended(u[j], TRUE), 0)
            /\ reply' = reply
  BY DEF UdpQuery, n
<1> HIDE DEF a, x
<1>9. ASSUME NEW y \in USlot, u' = [u EXCEPT ![j] = y]
      PROVE  UTake(j, y)
  BY <1>1, <1>8, <1>9 DEF UTake, USet, Packet
<1>10. CASE /\ \E z \in Failed(x) : u' = [u EXCEPT ![j] = z]
            /\ uactive' = uactive - One(u[j])
            /\ ends' = Append(Ended(u[j], TRUE), 1)
            /\ reply' = reply
  <2>1. PICK z \in Failed(x) : u' = [u EXCEPT ![j] = z]
    BY <1>10
  <2>2. z \in USlot /\ z.active = 0
    BY <1>3, <2>1 DEF Failed, USlot
  <2>3. UTake(j, z)
    BY <1>9, <2>1, <2>2
  <2>4. UAnswer(j, z)
    BY <1>8, <1>10, <2>2, <2>3 DEF UAnswer, n
  <2> QED BY <2>4 DEF Step, Kinds
<1>11. CASE /\ u' = [u EXCEPT ![j] = [x EXCEPT !.run = 0]]
            /\ uactive' = uactive - One(u[j])
            /\ ends' = Append(Ended(u[j], TRUE), 1)
            /\ reply' = Response(a)
  <2> DEFINE z == [x EXCEPT !.run = 0]
  <2>2. z \in USlot /\ z.active = 0
    BY <1>5
  <2>3. u' = [u EXCEPT ![j] = z]
    BY <1>11
  <2> HIDE DEF z
  <2>4. UTake(j, z)
    BY <1>9, <2>2, <2>3
  <2>5. UAnswer(j, z)
    BY <1>7, <1>8, <1>11, <2>2, <2>4 DEF UAnswer, n
  <2> QED BY <2>5 DEF Step, Kinds
<1>12. CASE /\ u' = [u EXCEPT ![j] = [a EXCEPT !.run = 1]]
            /\ uactive' = uactive - One(u[j]) + 1
            /\ ends' = Append(Ended(u[j], TRUE), 0)
            /\ reply' = reply
  <2> DEFINE z == [a EXCEPT !.run = 1]
  <2>2. z \in USlot /\ z.active = n
        /\ z.peer = arrivals + 1 /\ z.id = n /\ z.q = n
    BY <1>6
  <2>3. u' = [u EXCEPT ![j] = z]
    BY <1>12
  <2> HIDE DEF z
  <2>4. UTake(j, z)
    BY <1>9, <2>2, <2>3
  <2>5. UBegin(j, z)
    BY <1>8, <1>12, <2>2, <2>4 DEF UBegin, n
  <2> QED BY <2>5 DEF Step, Kinds
<1> QED BY <1>8, <1>10, <1>11, <1>12

\* What the timeout of a client that is seen again leaves as it was.
LEMMA Timeout ==
  ASSUME NEW x \in TSlot, NEW z, z = tcp_timeout(x)
  PROVE  /\ z \in TSlot
         /\ z.active = x.active /\ z.start = x.start /\ z.io = x.io
         /\ z.run = x.run /\ z.peer = x.peer /\ z.id = x.id /\ z.q = x.q
         /\ z.fd = x.fd /\ z.state = x.state /\ z.buf = x.buf
         /\ z.len = x.len /\ z.pos = x.pos
BY TimeAssumption DEF tcp_timeout, TSlot

\* What the changes make of a slot.
Responded(x, n) == [x EXCEPT !.len = n, !.buf = 1, !.pos = 0, !.state = -1]

LEMMA RespondSlot ==
  ASSUME NEW x \in TSlot, NEW n \in Nat, NEW y, y = Responded(x, n)
  PROVE  /\ y \in TSlot /\ y.active = x.active /\ y.fd = x.fd /\ y.io = x.io
         /\ y.state = -1 /\ y.len = n /\ y.buf = 1 /\ y.pos = 0
<1>1. y = [active |-> x.active, start |-> x.start, io |-> x.io, run |-> x.run,
           peer |-> x.peer, id |-> x.id, q |-> x.q, fd |-> x.fd, state |-> -1,
           buf |-> 1, len |-> n, pos |-> 0, left |-> x.left]
  BY DEF TSlot, Responded
<1> QED BY <1>1 DEF TSlot

InState(x, b, n) == [x EXCEPT !.buf = b, !.state = n]

LEMMA StateSlot ==
  ASSUME NEW x \in TSlot, NEW b \in Nat, NEW n \in Int,
         NEW y, y = InState(x, b, n)
  PROVE  /\ y \in TSlot /\ y.buf = b /\ y.state = n /\ y.io = x.io
         /\ y.active = x.active /\ y.start = x.start /\ y.peer = x.peer
         /\ y.id = x.id /\ y.q = x.q /\ y.fd = x.fd
         /\ y.len = x.len /\ y.pos = x.pos
<1>1. y = [active |-> x.active, start |-> x.start, io |-> x.io, run |-> x.run,
           peer |-> x.peer, id |-> x.id, q |-> x.q, fd |-> x.fd, state |-> n,
           buf |-> b, len |-> x.len, pos |-> x.pos, left |-> x.left]
  BY DEF TSlot, InState
<1> QED BY <1>1 DEF TSlot

LEMMA ClosesClient ==
  ASSUME Shape, NEW j \in TCP, NEW x \in TSlot, x.fd = t[j].fd,
         t[j].active # 0, tcp_close(j, x),
         UNCHANGED <<u, uactive, packets, calls, reply>>
  PROVE  \E y : TClose(j, y)
<1> DEFINE y == [tcp_free(x) EXCEPT !.active = 0]
<1>1. y \in TSlot /\ y.active = 0 /\ BufOK(y)
  BY DEF tcp_free, TSlot, BufOK
<1>2. t' = [t EXCEPT ![j] = y]
  BY DEF tcp_close
<1> HIDE DEF y
<1>3. TSet(j, y)
  BY <1>1, <1>2 DEF TSet
<1>4. TClose(j, y)
  BY <1>1, <1>3 DEF TClose, tcp_close
<1> QED BY <1>4

LEMMA RespondsClient ==
  ASSUME Shape, NEW j \in TCP, NEW x \in TSlot, x.fd = t[j].fd, x.io = t[j].io,
         t[j].active # 0, x.active # 0, NEW n \in Lengths,
         t' = [t EXCEPT ![j] = [x EXCEPT !.len = n + 2, !.buf = 1, !.pos = 0,
                                         !.state = -1]],
         UNCHANGED <<u, uactive, tactive, fds, packets, calls>>
  PROVE  \E y : TReply(j, y)
<1>0. PICK y : y = Responded(x, n + 2)
  OBVIOUS
<1>1. n + 2 \in Nat /\ 0 < n + 2
  BY DataAssumption
<1>2. y \in TSlot /\ y.active # 0 /\ y.fd = t[j].fd /\ y.state = -1
      /\ y.io = t[j].io /\ y.len = n + 2 /\ y.buf = 1 /\ y.pos = 0
  BY <1>0, <1>1, RespondSlot
<1>3. t' = [t EXCEPT ![j] = y]
  BY <1>0 DEF Responded
<1>4. BufOK(y)
  BY <1>1, <1>2 DEF BufOK
<1>5. TSet(j, y)
  BY <1>2, <1>3, <1>4 DEF TSet
<1>6. TReply(j, y)
  BY <1>2, <1>5 DEF TReply
<1> QED BY <1>6

LEMMA StepTcpPass ==
  ASSUME Shape, NEW j \in TCP, TcpPass(j)
  PROVE  Step
<1>1. UNCHANGED <<u, uactive, tactive, numqueries, fds, packets, calls, asked,
                  ends, reply>>
  BY DEF TcpPass, kernel, history
<1>2. CASE t' = t
  BY <1>1, <1>2, NothingHappens DEF Step
<1>3. CASE t' = [t EXCEPT ![j] = tcp_timeout(t[j])]
  <2>1. t[j] \in TSlot
    BY DEF Shape
  <2> DEFINE z == tcp_timeout(t[j])
  <2>2. t' = [t EXCEPT ![j] = z]
    BY <1>3
  <2>3. z = tcp_timeout(t[j])
    OBVIOUS
  <2> HIDE DEF z
  <2>4. z \in TSlot /\ TStays(t[j], z) /\ z.io = t[j].io
    BY <2>1, <2>3, Timeout DEF TStays, UStays, BufOK
  <2> QED BY <1>1, <2>2, <2>4, ClientStays DEF Step
<1> QED BY <1>2, <1>3 DEF TcpPass, Shape

LEMMA StepTcpDrop ==
  ASSUME Shape, NEW j \in TCP, TcpDrop(j)
  PROVE  Step
<1>1. t[j] \in TSlot /\ t[j].active # 0 /\ t[j].state = 0
  BY DEF Shape, TcpDrop, Turn
<1> DEFINE z == tcp_timeout(t[j])
           x == [z EXCEPT !.run = 0]
<1>2. z = tcp_timeout(t[j])
  OBVIOUS
<1>3. tcp_close(j, x)
  BY DEF TcpDrop
<1> HIDE DEF z
<1>4. z \in TSlot /\ z.fd = t[j].fd
  BY <1>1, <1>2, Timeout
<1>5. x \in TSlot /\ x.fd = t[j].fd
  BY <1>4 DEF TSlot
<1> HIDE DEF x
<1>6. \E y : TClose(j, y)
  BY <1>1, <1>3, <1>5, ClosesClient DEF TcpDrop
<1>7. \E y : TDrop(j, y)
  BY <1>1, <1>6 DEF TDrop, TcpDrop
<1> QED BY <1>7 DEF Step, Kinds

LEMMA StepTcpRespond ==
  ASSUME Shape, NEW j \in TCP, TcpRespond(j)
  PROVE  Step
<1>1. t[j] \in TSlot /\ t[j].active # 0 /\ t[j].state = 0
  BY DEF Shape, TcpRespond, Turn
<1> DEFINE z == tcp_timeout(t[j])
           x == [z EXCEPT !.run = 0]
<1>2. z = tcp_timeout(t[j])
  OBVIOUS
<1>3. tcp_respond(j, x)
  BY DEF TcpRespond
<1> HIDE DEF z
<1>4. z \in TSlot /\ z.fd = t[j].fd /\ z.io = t[j].io /\ Response(z) = Response(t[j])
      /\ z.active = t[j].active
  BY <1>1, <1>2, Timeout DEF Response
<1>5. x \in TSlot /\ x.fd = t[j].fd /\ x.io = t[j].io /\ Response(x) = Response(t[j])
      /\ x.active = t[j].active
  BY <1>4 DEF TSlot, Response
<1> HIDE DEF x
<1>6. UNCHANGED <<u, uactive, packets, calls, numqueries, asked>>
      /\ End(t[j].active)
  BY DEF TcpRespond
<1>7. CASE tcp_close(j, x) /\ UNCHANGED reply
  <2>1. \E y : TClose(j, y)
    BY <1>1, <1>5, <1>6, <1>7, ClosesClient
  <2>2. \E y : TDrop(j, y)
    BY <1>1, <1>6, <2>1 DEF TDrop
  <2> QED BY <2>2 DEF Step, Kinds
<1>8. ASSUME NEW n \in Lengths,
             t' = [t EXCEPT ![j] = [x EXCEPT !.len = n + 2, !.buf = 1, !.pos = 0,
                                             !.state = -1]],
             reply' = Response(x),
             UNCHANGED <<tactive, fds>>
      PROVE  Step
  <2>1. \E y : TReply(j, y)
    BY <1>1, <1>5, <1>6, <1>8, RespondsClient
  <2>2. \E y : TRespond(j, y)
    BY <1>1, <1>5, <1>6, <1>8, <2>1 DEF TRespond
  <2> QED BY <2>2 DEF Step, Kinds
<1> QED BY <1>3, <1>7, <1>8 DEF tcp_respond

LEMMA StepTcpWrite ==
  ASSUME Shape, NEW j \in TCP, TcpWrite(j)
  PROVE  Step
<1>1. t[j] \in TSlot /\ t[j].active # 0 /\ t[j].state = -1
  BY DEF Shape, TcpWrite, Served, Turn
<1>2. UNCHANGED <<u, uactive, tactive, numqueries, fds, packets, calls, asked,
                  ends, reply>>
  BY DEF TcpWrite, ReadFrame, history
<1>3. PICK z : z = tcp_timeout(t[j])
  OBVIOUS
<1>4. PICK r :
        /\ r \in 1 .. t[j].len - t[j].pos
        /\ LET x == [z EXCEPT !.pos = @ + r]
           IN  t' = [t EXCEPT ![j] = IF x.pos = x.len
                                    THEN [tcp_free(x) EXCEPT !.state = 1]
                                    ELSE x]
  BY <1>3 DEF TcpWrite
<1>5. PICK x : x = [z EXCEPT !.pos = @ + r]
  OBVIOUS
<1>6. z \in TSlot /\ UStays(t[j], z) /\ z.fd = t[j].fd /\ z.state = -1
      /\ z.io = t[j].io /\ z.buf = t[j].buf /\ z.pos = t[j].pos /\ z.len = t[j].len
  BY <1>1, <1>3, Timeout DEF UStays
<1>7. r \in Nat /\ t[j].pos + r <= t[j].len
  BY <1>1, <1>4 DEF TSlot
<1>8. x \in TSlot /\ UStays(t[j], x) /\ x.fd = t[j].fd /\ x.state = -1
      /\ x.io = t[j].io /\ x.buf = t[j].buf /\ x.pos = t[j].pos + r /\ x.len = t[j].len
  BY <1>5, <1>6, <1>7 DEF TSlot, UStays
<1>9. t' = [t EXCEPT ![j] = IF x.pos = x.len
                              THEN [tcp_free(x) EXCEPT !.state = 1]
                              ELSE x]
  BY <1>4, <1>5
<1>10. CASE x.pos = x.len
  <2>1. PICK y : y = InState(x, 0, 1)
    OBVIOUS
  <2>2. t' = [t EXCEPT ![j] = y]
    BY <1>9, <1>10, <2>1 DEF tcp_free, InState
  <2>3. y \in TSlot /\ UStays(x, y) /\ y.fd = x.fd /\ y.state = 1 /\ y.buf = 0
        /\ y.io = x.io
    <3>1. x \in TSlot
      BY <1>8
    <3> QED BY <2>1, <3>1, StateSlot DEF UStays
  <2>4. UStays(t[j], y)
    BY <1>8, <2>3 DEF UStays
  <2>5. BufOK(y)
    BY <2>3 DEF BufOK
  <2>6. TStays(t[j], y) /\ y.io = t[j].io
    BY <1>1, <1>8, <2>3, <2>4, <2>5 DEF TStays
  <2> QED BY <1>2, <2>2, <2>3, <2>6, ClientStays DEF Step
<1>11. CASE x.pos # x.len
  <2>1. t' = [t EXCEPT ![j] = x]
    BY <1>9, <1>11
  <2>2. BufOK(t[j]) => BufOK(x)
    BY <1>1, <1>7, <1>8, <1>11 DEF BufOK, UStays, TSlot
  <2>3. TStays(t[j], x)
    BY <1>1, <1>8, <2>2 DEF TStays
  <2> QED BY <1>2, <1>8, <2>1, <2>3, ClientStays DEF Step
<1> QED BY <1>10, <1>11

LEMMA ReadsFacts ==
  ASSUME Shape, NEW j \in TCP, NEW s, Reads(j, s)
  PROVE  /\ t[j] \in TSlot /\ t[j].active # 0 /\ t[j].state = s
         /\ UNCHANGED <<u, uactive, packets, calls>>
BY DEF Shape, Reads, Served, Turn, ReadFrame

LEMMA StepTcpBroken ==
  ASSUME Shape, NEW j \in TCP, TcpBroken(j)
  PROVE  Step
<1>1. t[j] \in TSlot /\ t[j].active # 0 /\ t[j].state # 0
  BY DEF Shape, TcpBroken, Served, Turn
<1>2. UNCHANGED <<u, uactive, packets, calls, numqueries, asked, ends, reply>>
  BY DEF TcpBroken, ReadFrame, history
<1>3. PICK z : z = tcp_timeout(t[j])
  OBVIOUS
<1>4. z \in TSlot /\ z.fd = t[j].fd
  BY <1>1, <1>3, Timeout
<1>5. \E y : TClose(j, y)
  BY <1>1, <1>2, <1>3, <1>4, ClosesClient DEF TcpBroken
<1>6. \E y : TBreak(j, y)
  BY <1>1, <1>2, <1>5 DEF TBreak
<1> QED BY <1>6 DEF Step, Kinds

LEMMA StepTcpBadRequest ==
  ASSUME Shape, NEW j \in TCP, TcpBadRequest(j)
  PROVE  Step
<1>1. /\ t[j] \in TSlot /\ t[j].active # 0 /\ t[j].state = 3
      /\ UNCHANGED <<u, uactive, packets, calls>>
  BY ReadsFacts DEF TcpBadRequest
<1>2. UNCHANGED <<numqueries, asked, ends, reply>>
  BY DEF TcpBadRequest, history
<1>3. PICK z : z = tcp_timeout(t[j])
  OBVIOUS
<1>4. z \in TSlot /\ z.fd = t[j].fd
  BY <1>1, <1>3, Timeout
<1>5. \E y : TClose(j, y)
  BY <1>1, <1>2, <1>3, <1>4, ClosesClient DEF TcpBadRequest
<1>6. \E y : TBreak(j, y)
  BY <1>1, <1>2, <1>5 DEF TBreak
<1> QED BY <1>6 DEF Step, Kinds

HighRead(x, n) == [x EXCEPT !.len = n, !.state = 2]

LEMMA HighSlot ==
  ASSUME NEW x \in TSlot, NEW n \in Nat, NEW y, y = HighRead(x, n)
  PROVE  /\ y \in TSlot /\ UStays(x, y) /\ y.fd = x.fd /\ y.io = x.io
         /\ y.state = 2 /\ y.buf = x.buf
<1>1. y = [active |-> x.active, start |-> x.start, io |-> x.io, run |-> x.run,
           peer |-> x.peer, id |-> x.id, q |-> x.q, fd |-> x.fd, state |-> 2,
           buf |-> x.buf, len |-> n, pos |-> x.pos, left |-> x.left]
  BY DEF TSlot, HighRead
<1> QED BY <1>1 DEF TSlot, UStays

LEMMA Bytes ==
  ASSUME NEW ch \in 0 .. Base - 1
  PROVE  ch \in Nat /\ ch * Base \in Nat
BY DataAssumption

LEMMA StepTcpLengthHigh ==
  ASSUME Shape, NEW j \in TCP, TcpLengthHigh(j)
  PROVE  Step
<1>1. /\ t[j] \in TSlot /\ t[j].active # 0 /\ t[j].state = 1
      /\ UNCHANGED <<u, uactive, packets, calls>>
  BY ReadsFacts DEF TcpLengthHigh
<1>2. UNCHANGED <<tactive, numqueries, fds, asked, ends, reply>>
  BY DEF TcpLengthHigh, history
<1>3. PICK z : z = tcp_timeout(t[j])
  OBVIOUS
<1>4. z \in TSlot /\ UStays(t[j], z) /\ z.fd = t[j].fd /\ z.buf = t[j].buf
      /\ z.io = t[j].io
  BY <1>1, <1>3, Timeout DEF UStays
<1>5. PICK n : n \in Nat /\ t' = [t EXCEPT ![j] = HighRead(z, n)]
  <2>1. PICK ch \in 0 .. Base - 1 :
          t' = [t EXCEPT ![j] = [tcp_timeout(t[j]) EXCEPT !.len = ch * Base,
                                                          !.state = 2]]
    BY DEF TcpLengthHigh, Shape
  <2>2. ch * Base \in Nat
    BY Bytes
  <2>3. t' = [t EXCEPT ![j] = HighRead(z, ch * Base)]
    BY <1>3, <2>1 DEF HighRead
  <2> QED BY <2>2, <2>3
<1>6. PICK y : y = HighRead(z, n)
  OBVIOUS
<1>7. y \in TSlot /\ UStays(z, y) /\ y.fd = z.fd /\ y.state = 2 /\ y.buf = z.buf
      /\ y.io = z.io
  <2>1. z \in TSlot
    BY <1>4
  <2>2. n \in Nat
    BY <1>5
  <2> QED BY <1>6, <2>1, <2>2, HighSlot
<1>8. UStays(t[j], y) /\ y.fd = t[j].fd /\ y.buf = t[j].buf /\ y.io = t[j].io
  BY <1>4, <1>7 DEF UStays
<1>9. TStays(t[j], y)
  BY <1>1, <1>7, <1>8 DEF TStays, BufOK
<1>10. t' = [t EXCEPT ![j] = y]
  BY <1>5, <1>6
<1> QED BY <1>1, <1>2, <1>7, <1>8, <1>9, <1>10, ClientStays DEF Step

Reading(x) == [x EXCEPT !.buf = 1, !.pos = 0, !.state = 3]

LEMMA ReadingSlot ==
  ASSUME NEW x \in TSlot, NEW y, y = Reading(x)
  PROVE  /\ y \in TSlot /\ UStays(x, y) /\ y.fd = x.fd /\ y.io = x.io
         /\ y.state = 3 /\ y.buf = 1 /\ y.pos = 0 /\ y.len = x.len
<1>1. y = [active |-> x.active, start |-> x.start, io |-> x.io, run |-> x.run,
           peer |-> x.peer, id |-> x.id, q |-> x.q, fd |-> x.fd, state |-> 3,
           buf |-> 1, len |-> x.len, pos |-> 0, left |-> x.left]
  BY DEF TSlot, Reading
<1> QED BY <1>1 DEF TSlot, UStays

LEMMA StepTcpLengthLow ==
  ASSUME Shape, NEW j \in TCP, TcpLengthLow(j)
  PROVE  Step
<1>1. /\ t[j] \in TSlot /\ t[j].active # 0 /\ t[j].state = 2
      /\ UNCHANGED <<u, uactive, packets, calls>>
  BY ReadsFacts DEF TcpLengthLow
<1>2. UNCHANGED <<numqueries, asked, ends, reply>>
  BY DEF TcpLengthLow, history
<1>3. PICK z : z = tcp_timeout(t[j])
  OBVIOUS
<1>4. z \in TSlot /\ UStays(t[j], z) /\ z.fd = t[j].fd /\ z.io = t[j].io
  BY <1>1, <1>3, Timeout DEF UStays
<1>5. PICK x : /\ x \in TSlot /\ UStays(z, x) /\ x.fd = z.fd /\ x.io = z.io
               /\ \/ /\ x.len # 0
                     /\ t' = [t EXCEPT ![j] = Reading(x)]
                     /\ UNCHANGED <<tactive, fds>>
                  \/ tcp_close(j, x)
  <2>1. PICK ch \in 0 .. Base - 1 :
          LET x == [tcp_timeout(t[j]) EXCEPT !.len = @ + ch]
          IN  \/ /\ x.len # 0
                 /\ t' = [t EXCEPT ![j] = [x EXCEPT !.buf = 1, !.pos = 0, !.state = 3]]
                 /\ UNCHANGED <<tactive, fds>>
              \/ tcp_close(j, x)
    BY DEF TcpLengthLow
  <2>2. ch \in Nat
    BY Bytes
  <2>3. PICK x : x = [z EXCEPT !.len = @ + ch]
    OBVIOUS
  <2>4. x \in TSlot /\ UStays(z, x) /\ x.fd = z.fd /\ x.io = z.io
    BY <1>4, <2>2, <2>3 DEF TSlot, UStays
  <2>5. \/ /\ x.len # 0
           /\ t' = [t EXCEPT ![j] = Reading(x)]
           /\ UNCHANGED <<tactive, fds>>
        \/ tcp_close(j, x)
    BY <1>3, <2>1, <2>3 DEF Reading
  <2> QED BY <2>4, <2>5
<1>6. CASE tcp_close(j, x)
  <2>1. \E y : TClose(j, y)
    BY <1>1, <1>2, <1>4, <1>5, <1>6, ClosesClient
  <2>2. \E y : TBreak(j, y)
    BY <1>1, <1>2, <2>1 DEF TBreak
  <2> QED BY <2>2 DEF Step, Kinds
<1>7. CASE /\ x.len # 0
           /\ t' = [t EXCEPT ![j] = Reading(x)]
           /\ UNCHANGED <<tactive, fds>>
  <2>1. PICK y : y = Reading(x)
    OBVIOUS
  <2>2. /\ y \in TSlot /\ UStays(x, y) /\ y.fd = x.fd /\ y.io = x.io
        /\ y.state = 3 /\ y.buf = 1 /\ y.pos = 0 /\ y.len = x.len
    BY <1>5, <2>1, ReadingSlot
  <2>3. UStays(t[j], y) /\ y.fd = t[j].fd /\ y.io = t[j].io
    BY <1>4, <1>5, <2>2 DEF UStays
  <2>4. y.pos < y.len
    BY <1>5, <1>7, <2>2 DEF TSlot
  <2>5. BufOK(y)
    BY <1>1, <2>2, <2>3, <2>4 DEF BufOK, UStays
  <2>6. TStays(t[j], y)
    BY <1>1, <2>2, <2>3, <2>5 DEF TStays
  <2>7. t' = [t EXCEPT ![j] = y]
    BY <1>7, <2>1
  <2> QED BY <1>1, <1>2, <1>7, <2>2, <2>3, <2>6, <2>7, ClientStays DEF Step
<1> QED BY <1>5, <1>6, <1>7

LEMMA StepTcpByte ==
  ASSUME Shape, NEW j \in TCP, TcpByte(j)
  PROVE  Step
<1>1. /\ t[j] \in TSlot /\ t[j].active # 0 /\ t[j].state = 3
      /\ UNCHANGED <<u, uactive, packets, calls>>
  BY ReadsFacts DEF TcpByte
<1>2. UNCHANGED <<tactive, numqueries, fds, asked, ends, reply>>
  BY DEF TcpByte, history
<1>3. PICK z : z = tcp_timeout(t[j])
  OBVIOUS
<1>4. /\ z \in TSlot /\ UStays(t[j], z) /\ z.fd = t[j].fd /\ z.buf = t[j].buf
      /\ z.pos = t[j].pos /\ z.len = t[j].len /\ z.state = 3 /\ z.io = t[j].io
  BY <1>1, <1>3, Timeout DEF UStays
<1>5. PICK y : y = [z EXCEPT !.pos = @ + 1]
  OBVIOUS
<1>6. t' = [t EXCEPT ![j] = y]
  <2>1. t' = [t EXCEPT ![j] = [tcp_timeout(t[j]) EXCEPT !.pos = @ + 1]]
    BY DEF TcpByte
  <2> QED BY <1>3, <1>5, <2>1
<1>7. /\ y \in TSlot /\ UStays(z, y) /\ y.fd = z.fd /\ y.buf = z.buf
      /\ y.pos = z.pos + 1 /\ y.len = z.len /\ y.state = 3 /\ y.io = z.io
  BY <1>4, <1>5 DEF TSlot, UStays
<1>8. UStays(t[j], y)
  BY <1>4, <1>7 DEF UStays
<1>9. t[j].pos + 1 < t[j].len
  BY DEF TcpByte
<1>10. BufOK(t[j]) => BufOK(y)
  BY <1>1, <1>4, <1>7, <1>8, <1>9 DEF BufOK, UStays
<1>11. TStays(t[j], y)
  BY <1>1, <1>4, <1>7, <1>8, <1>10 DEF TStays
<1>12. y.io = t[j].io
  BY <1>4, <1>7
<1> QED BY <1>1, <1>2, <1>6, <1>7, <1>11, <1>12, ClientStays DEF Step

Asks(x, n) == [x EXCEPT !.active = n, !.id = n, !.q = n, !.pos = @ + 1]

LEMMA AskSlot ==
  ASSUME NEW x \in TSlot, NEW n \in Nat, NEW y, y = Asks(x, n)
  PROVE  /\ y \in TSlot /\ y.active = n /\ y.id = n /\ y.q = n
         /\ y.peer = x.peer /\ y.fd = x.fd /\ y.io = x.io
<1>1. PICK p : p \in Nat /\ p = x.pos + 1
  BY DEF TSlot
<1>2. y = [active |-> n, start |-> x.start, io |-> x.io, run |-> x.run,
           peer |-> x.peer, id |-> n, q |-> n, fd |-> x.fd, state |-> x.state,
           buf |-> x.buf, len |-> x.len, pos |-> p, left |-> x.left]
  BY <1>1 DEF TSlot, Asks
<1>3. p \in Nat
  BY <1>1
<1> QED BY <1>2, <1>3 DEF TSlot

Waiting(x) == [x EXCEPT !.buf = 0, !.run = 1, !.state = 0]

LEMMA WaitingSlot ==
  ASSUME NEW x \in TSlot, NEW y, y = Waiting(x)
  PROVE  /\ y \in TSlot /\ y.active = x.active /\ y.id = x.id /\ y.q = x.q
         /\ y.peer = x.peer /\ y.fd = x.fd /\ y.state = 0 /\ y.buf = 0
         /\ y.io = x.io
<1>1. y = [active |-> x.active, start |-> x.start, io |-> x.io, run |-> 1,
           peer |-> x.peer, id |-> x.id, q |-> x.q, fd |-> x.fd, state |-> 0,
           buf |-> 0, len |-> x.len, pos |-> x.pos, left |-> x.left]
  BY DEF TSlot, Waiting
<1> QED BY <1>1 DEF TSlot

LEMMA StepTcpRequest ==
  ASSUME Shape, NEW j \in TCP, TcpRequest(j)
  PROVE  Step
<1>1. /\ t[j] \in TSlot /\ t[j].active # 0 /\ t[j].state = 3
      /\ UNCHANGED <<u, uactive, packets, calls>>
  BY ReadsFacts DEF TcpRequest
<1>2. PICK n : n = numqueries + 1
  OBVIOUS
<1>3. n \in Nat /\ n # 0
  BY <1>2 DEF Shape
<1>4. numqueries' = n /\ asked' = Append(asked, t[j].peer)
  BY <1>2 DEF TcpRequest
<1>5. PICK z : z = tcp_timeout(t[j])
  OBVIOUS
<1>6. z \in TSlot /\ z.peer = t[j].peer /\ z.fd = t[j].fd /\ z.io = t[j].io
  BY <1>1, <1>5, Timeout
<1>7. PICK x : x = Asks(z, n)
  OBVIOUS
<1>8. \/ /\ \E y \in Failed(x) : tcp_close(j, y)
         /\ ends' = Append(ends, 1)
         /\ reply' = reply
      \/ /\ tcp_respond(j, [x EXCEPT !.run = 0])
         /\ ends' = Append(ends, 1)
      \/ /\ t' = [t EXCEPT ![j] = Waiting(x)]
         /\ ends' = Append(ends, 0)
         /\ UNCHANGED <<tactive, fds, reply>>
  <2>1. x = [tcp_timeout(t[j]) EXCEPT !.active = numqueries + 1,
                !.id = numqueries + 1, !.q = numqueries + 1, !.pos = @ + 1]
    BY <1>2, <1>5, <1>7 DEF Asks
  <2>2. Waiting(x) = [tcp_free(x) EXCEPT !.run = 1, !.state = 0]
    BY DEF Waiting, tcp_free
  <2> QED BY <2>1, <2>2 DEF TcpRequest
<1>9. /\ x \in TSlot /\ x.active = n /\ x.id = n /\ x.q = n
      /\ x.peer = t[j].peer /\ x.fd = t[j].fd /\ x.io = t[j].io
  <2>1. /\ x \in TSlot /\ x.active = n /\ x.id = n /\ x.q = n
        /\ x.peer = z.peer /\ x.fd = z.fd /\ x.io = z.io
    <3>1. z \in TSlot /\ n \in Nat
      BY <1>3, <1>6
    <3> QED BY <1>7, <3>1, AskSlot
  <2> QED BY <1>6, <2>1
<1>10. PICK w : w = [x EXCEPT !.run = 0]
  OBVIOUS
<1>11. /\ w \in TSlot /\ w.active = n /\ w.id = n /\ w.q = n
       /\ w.peer = t[j].peer /\ w.fd = t[j].fd /\ w.io = t[j].io
  BY <1>9, <1>10 DEF TSlot
<1>12. ASSUME NEW y, y \in TSlot, y.fd = t[j].fd, tcp_close(j, y),
              ends' = Append(ends, 1), reply' = reply
       PROVE  Step
  <2>1. \E v : TClose(j, v)
    BY <1>1, <1>12, ClosesClient
  <2>2. \E v : TDeny(j, v)
    BY <1>1, <1>2, <1>4, <1>12, <2>1 DEF TDeny
  <2> QED BY <2>2 DEF Step, Kinds
<1>13. CASE /\ \E y \in Failed(x) : tcp_close(j, y)
            /\ ends' = Append(ends, 1)
            /\ reply' = reply
  <2>1. PICK y : y \in {w, x} /\ tcp_close(j, y)
    BY <1>10, <1>13 DEF Failed
  <2>2. y \in TSlot /\ y.fd = t[j].fd
    BY <1>9, <1>11, <2>1
  <2> QED BY <1>12, <1>13, <2>1, <2>2
<1>14. CASE /\ tcp_respond(j, w)
            /\ ends' = Append(ends, 1)
  <2>1. CASE tcp_close(j, w) /\ UNCHANGED reply
    BY <1>11, <1>12, <1>14, <2>1
  <2>2. ASSUME NEW k \in Lengths,
               t' = [t EXCEPT ![j] = [w EXCEPT !.len = k + 2, !.buf = 1, !.pos = 0,
                                               !.state = -1]],
               reply' = Response(w),
               UNCHANGED <<tactive, fds>>
        PROVE  Step
    <3>1. \E y : TReply(j, y)
      BY <1>1, <1>3, <1>11, <2>2, RespondsClient
    <3>2. Response(w) = [num |-> n, to |-> t[j].peer, id |-> n, q |-> n]
      BY <1>11 DEF Response
    <3>3. \E y : TAnswer(j, y)
      BY <1>1, <1>2, <1>4, <1>14, <2>2, <3>1, <3>2 DEF TAnswer
    <3> QED BY <3>3 DEF Step, Kinds
  <2> QED BY <1>14, <2>1, <2>2 DEF tcp_respond
<1>15. CASE /\ t' = [t EXCEPT ![j] = Waiting(x)]
            /\ ends' = Append(ends, 0)
            /\ UNCHANGED <<tactive, fds, reply>>
  <2>1. PICK y : y = Waiting(x)
    OBVIOUS
  <2>2. /\ y \in TSlot /\ y.active = x.active /\ y.id = x.id /\ y.q = x.q
        /\ y.peer = x.peer /\ y.fd = x.fd /\ y.state = 0 /\ y.buf = 0
        /\ y.io = x.io
    BY <1>9, <2>1, WaitingSlot
  <2>3. BufOK(y)
    BY <2>2 DEF BufOK
  <2>4. TSet(j, y)
    BY <1>1, <1>15, <2>1, <2>2, <2>3 DEF TSet
  <2>5. TBegin(j, y)
    BY <1>1, <1>2, <1>4, <1>9, <1>15, <2>2, <2>4 DEF TBegin
  <2> QED BY <2>5 DEF Step, Kinds
<1> QED BY <1>8, <1>10, <1>13, <1>14, <1>15

\* The slot that a connection takes, before and after accept.
Emptied(x, s) == [x EXCEPT !.active = 0, !.start = s, !.buf = 0]
Refuses(x, f, p) == [x EXCEPT !.fd = f, !.peer = p]
Accepts(x, f, p) == [x EXCEPT !.active = 1, !.fd = f, !.peer = p, !.state = 1,
                              !.left = Idle]

LEMMA EmptiedSlot ==
  ASSUME NEW x \in TSlot, NEW s \in Nat, NEW y, y = Emptied(x, s)
  PROVE  y \in TSlot /\ y.active = 0 /\ y.buf = 0 /\ y.peer = x.peer
<1>1. y = [active |-> 0, start |-> s, io |-> x.io, run |-> x.run,
           peer |-> x.peer, id |-> x.id, q |-> x.q, fd |-> x.fd, state |-> x.state,
           buf |-> 0, len |-> x.len, pos |-> x.pos, left |-> x.left]
  BY DEF TSlot, Emptied
<1> QED BY <1>1 DEF TSlot

LEMMA RefusesSlot ==
  ASSUME NEW x \in TSlot, NEW f \in Int, NEW p \in Nat, NEW y, y = Refuses(x, f, p)
  PROVE  y \in TSlot /\ y.active = x.active /\ y.buf = x.buf
<1>1. y = [active |-> x.active, start |-> x.start, io |-> x.io, run |-> x.run,
           peer |-> p, id |-> x.id, q |-> x.q, fd |-> f, state |-> x.state,
           buf |-> x.buf, len |-> x.len, pos |-> x.pos, left |-> x.left]
  BY DEF TSlot, Refuses
<1> QED BY <1>1 DEF TSlot

LEMMA AcceptsSlot ==
  ASSUME NEW x \in TSlot, NEW f \in Int, NEW p \in Nat, NEW y, y = Accepts(x, f, p)
  PROVE  /\ y \in TSlot /\ y.active = 1 /\ y.buf = x.buf
         /\ y.fd = f /\ y.state = 1
<1>1. Idle \in Nat
  BY TimeAssumption
<1>2. y = [active |-> 1, start |-> x.start, io |-> x.io, run |-> x.run,
           peer |-> p, id |-> x.id, q |-> x.q, fd |-> f, state |-> 1,
           buf |-> x.buf, len |-> x.len, pos |-> x.pos, left |-> Idle]
  BY DEF TSlot, Accepts
<1> QED BY <1>1, <1>2 DEF TSlot

LEMMA StepTcpRefused ==
  ASSUME Shape, NEW now \in Times, TcpRefused(now)
  PROVE  Step
<1>1. PICK j : j = Slot(t)
  OBVIOUS
<1>2. j \in TCP /\ t[j] \in TSlot
  BY <1>1, Slots_t DEF Shape
<1>3. PICK s : s \in Nat /\ s = arrivals + 1
  BY DEF Shape, arrivals
<1>4. PICK x : x = Emptied(t[j], now)
  OBVIOUS
<1>5. x \in TSlot /\ x.active = 0 /\ x.buf = 0
  <2>1. now \in Nat
    BY TimeAssumption
  <2> QED BY <1>2, <1>4, <2>1, EmptiedSlot
<1>6. x = tcp_free(Taken(t[j], now))
  BY <1>4 DEF tcp_free, Taken, Emptied
<1>7. PICK y : /\ y \in TSlot /\ y.active = 0 /\ y.buf = 0
               /\ t' = [t EXCEPT ![j] = y]
  <2>1. CASE t' = [t EXCEPT ![j] = [tcp_free(Taken(t[j], now)) EXCEPT !.fd = -1]]
    <3>1. PICK y : y = [x EXCEPT !.fd = -1]
      OBVIOUS
    <3>2. y \in TSlot /\ y.active = 0 /\ y.buf = 0
      BY <1>5, <3>1 DEF TSlot
    <3> QED BY <1>6, <2>1, <3>1, <3>2
  <2>2. CASE /\ Fds \ Others(j) # {}
             /\ t' = [t EXCEPT ![j] = [tcp_free(Taken(t[j], now)) EXCEPT
                                         !.fd = NextFd(Others(j)), !.peer = arrivals + 1]]
    <3>1. PICK f : f = NextFd(Others(j))
      OBVIOUS
    <3>2. f \in Int
      BY <2>2, <3>1, FreeFd, DataAssumption
    <3>3. PICK y : y = Refuses(x, f, s)
      OBVIOUS
    <3>4. s \in Nat
      BY <1>3
    <3>5. y \in TSlot /\ y.active = x.active /\ y.buf = x.buf
      BY <1>5, <3>2, <3>3, <3>4, RefusesSlot
    <3>6. t' = [t EXCEPT ![j] = y]
      BY <1>3, <1>6, <2>2, <3>1, <3>3 DEF Refuses
    <3> QED BY <1>5, <3>5, <3>6
  <2> QED BY <1>1, <2>1, <2>2 DEF TcpRefused
<1>8. BufOK(y)
  BY <1>7 DEF BufOK
<1>9. TSet(j, y)
  BY <1>2, <1>7, <1>8 DEF TSet, TcpRefused
<1>10. TTake(j, y)
  BY <1>1, <1>9 DEF TTake, TcpRefused, TcpRoom, Call
<1>11. tactive' = tactive - One(t[j])
  <2>1. tactive' = tactive - One(t[j]) + 0
    BY <1>1 DEF TcpRefused, TcpRoom
  <2> QED BY <2>1 DEF Shape, One
<1>12. TRefuse(j, y)
  BY <1>1, <1>7, <1>10, <1>11 DEF TRefuse, TcpRefused
<1> QED BY <1>12 DEF Step, Kinds

LEMMA StepTcpAccept ==
  ASSUME Shape, NEW now \in Times, TcpAccept(now)
  PROVE  Step
<1>1. PICK j : j = Slot(t)
  OBVIOUS
<1>2. j \in TCP /\ t[j] \in TSlot
  BY <1>1, Slots_t DEF Shape
<1>3. PICK s : s \in Nat /\ s = arrivals + 1
  BY DEF Shape, arrivals
<1>4. PICK x : x = Emptied(t[j], now)
  OBVIOUS
<1>5. x \in TSlot /\ x.active = 0 /\ x.buf = 0
  <2>1. now \in Nat
    BY TimeAssumption
  <2> QED BY <1>2, <1>4, <2>1, EmptiedSlot
<1>6. x = tcp_free(Taken(t[j], now))
  BY <1>4 DEF tcp_free, Taken, Emptied
<1>7. PICK f : f = NextFd(Others(j))
  OBVIOUS
<1>8. f \in Fds \ Others(j) /\ f \in Int
  BY <1>1, <1>7, FreeFd, DataAssumption DEF TcpAccept
<1>9. PICK y : y = Accepts(x, f, s)
  OBVIOUS
<1>10. y \in TSlot /\ y.active = 1 /\ y.buf = 0 /\ y.fd = f /\ y.state = 1
  <2>1. s \in Nat /\ f \in Int
    BY <1>3, <1>8
  <2>2. y \in TSlot /\ y.active = 1 /\ y.buf = x.buf /\ y.fd = f /\ y.state = 1
    BY <1>5, <1>9, <2>1, AcceptsSlot
  <2> QED BY <1>5, <2>2
<1>11. t' = [t EXCEPT ![j] = y]
  <2>1. t' = [t EXCEPT ![j] = [tcp_free(Taken(t[j], now)) EXCEPT
                !.active = 1, !.fd = NextFd(Others(j)), !.peer = arrivals + 1,
                !.state = 1, !.left = Idle]]
    BY <1>1 DEF TcpAccept
  <2> QED BY <1>3, <1>6, <1>7, <1>9, <2>1 DEF Accepts
<1>12. BufOK(y)
  BY <1>10 DEF BufOK
<1>13. TSet(j, y)
  BY <1>2, <1>10, <1>11, <1>12 DEF TSet, TcpAccept
<1>14. TTake(j, y)
  BY <1>1, <1>13 DEF TTake, TcpAccept, TcpRoom, Call
<1>15. TAccept(j, y)
  BY <1>1, <1>7, <1>8, <1>10, <1>14 DEF TAccept, TcpAccept, TcpRoom
<1> QED BY <1>15 DEF Step, Kinds

LEMMA Steps ==
  ASSUME Shape, [Next]_vars
  PROVE  Step
<1>1. ASSUME NEW j \in TCP, TcpPass(j) \/ TcpServe(j)
      PROVE  Step
  BY <1>1, StepTcpPass, StepTcpDrop, StepTcpRespond, StepTcpWrite,
     StepTcpBroken, StepTcpLengthHigh, StepTcpLengthLow, StepTcpByte,
     StepTcpBadRequest, StepTcpRequest DEF TcpServe
<1>2. CASE nscache_run
  BY <1>1, <1>2, StepTop, StepNothing, StepUdp, StepUdpRefused, StepUdpQuery,
     StepTcpRefused, StepTcpAccept DEF nscache_run
<1>3. CASE Tick
  BY <1>3, StepTick
<1>4. CASE ClientSends \/ ClientLeaves \/ UNCHANGED vars
  BY <1>4, StepNothing
<1> QED BY <1>2, <1>3, <1>4 DEF Next

-----------------------------------------------------------------------------
(* The types, and the buffers.                                             *)

\* Where the loop goes.
LEMMA Places ==
  ASSUME Shape, [Next]_vars
  PROVE  at' \in Nat /\ (pc' = "udp" => at' \in UDP)
<1> USE DEF Shape
<1>1. CASE \/ Top \/ NoClient \/ Tick \/ ClientSends \/ ClientLeaves
           \/ \E now \in Times : \/ UdpRefused(now) \/ UdpQuery(now)
                                \/ TcpRefused(now) \/ TcpAccept(now)
           \/ UNCHANGED vars
  BY <1>1 DEF Top, NoClient, Tick, ClientSends, ClientLeaves, UdpRefused,
              UdpQuery, TcpRefused, TcpAccept, Packet, Call, vars, loop
<1>2. CASE iopause
  BY <1>2, TableAssumption DEF iopause, UDP
<1>3. CASE UdpPass \/ udp_drop \/ udp_respond
  <2>1. pc = "udp" /\ UdpAdvance
    BY <1>3 DEF UdpPass, udp_drop, udp_respond
  <2> QED BY <2>1, TableAssumption DEF UdpAdvance, UDP
<1>4. CASE \E j \in TCP : TcpPass(j) \/ TcpServe(j)
  <2>1. PICK j \in TCP : TcpPass(j) \/ TcpServe(j)
    BY <1>4
  <2>2. pc = "tcp" /\ TcpAdvance
    BY <2>1 DEF TcpPass, TcpServe, TcpDrop, TcpRespond, TcpWrite, TcpBroken,
                TcpLengthHigh, TcpLengthLow, TcpByte, TcpBadRequest,
                TcpRequest, Reads, Served, Turn
  <2> QED BY <2>2, TableAssumption DEF TcpAdvance
<1> QED BY <1>1, <1>2, <1>3, <1>4 DEF Next, nscache_run

LEMMA ShapeInit == Init => Shape
<1> SUFFICES ASSUME Init PROVE Shape
  OBVIOUS
<1>1. u \in [UDP -> USlot]
  BY DEF Init, USlot
<1>2. t \in [TCP -> TSlot]
  BY DEF Init, TSlot
<1> QED BY <1>1, <1>2 DEF Init, Shape

\* What a kind of change leaves typed.
LEMMA KindShape ==
  ASSUME Shape, NEW j, NEW y, Kinds(j, y)
  PROVE  /\ u' \in [UDP -> USlot] /\ t' \in [TCP -> TSlot]
         /\ uactive' \in Int /\ tactive' \in Int
         /\ numqueries' \in Nat /\ packets' \in Nat /\ calls' \in Nat
         /\ fds' \subseteq Fds
<1>1. One(u[j]) \in Int /\ One(t[j]) \in Int
  BY DEF One
<1>2. Others(j) \subseteq Fds
  BY DEF Others, Shape
<1>3. u' \in [UDP -> USlot] /\ t' \in [TCP -> TSlot]
  BY DEF Shape, Kinds, UEnd, URefuse, UAnswer, UBegin, UTake, USet, TDrop, TBreak,
         TDeny, TClose, TRespond, TAnswer, TReply, TBegin, TRefuse, TAccept, TTake,
         TSet
<1> DEFINE Counts == /\ uactive' \in Int /\ tactive' \in Int
                     /\ numqueries' \in Nat /\ packets' \in Nat /\ calls' \in Nat
<1>4. uactive \in Int /\ tactive \in Int /\ numqueries \in Nat
      /\ packets \in Nat /\ calls \in Nat /\ fds \subseteq Fds
  BY DEF Shape
<1>5. UEnd(j, y) => Counts /\ fds' \subseteq Fds
  BY <1>1, <1>2, <1>4 DEF UEnd, USet
<1>6. URefuse(j, y) => Counts /\ fds' \subseteq Fds
  BY <1>1, <1>2, <1>4 DEF URefuse, UTake, USet
<1>7. UAnswer(j, y) => Counts /\ fds' \subseteq Fds
  BY <1>1, <1>2, <1>4 DEF UAnswer, UTake, USet
<1>8. UBegin(j, y) => Counts /\ fds' \subseteq Fds
  BY <1>1, <1>2, <1>4 DEF UBegin, UTake, USet
<1>9. TDrop(j, y) => Counts /\ fds' \subseteq Fds
  BY <1>1, <1>2, <1>4 DEF TDrop, TClose, TSet
<1>10. TBreak(j, y) => Counts /\ fds' \subseteq Fds
  BY <1>1, <1>2, <1>4 DEF TBreak, TClose, TSet
<1>11. TDeny(j, y) => Counts /\ fds' \subseteq Fds
  BY <1>1, <1>2, <1>4 DEF TDeny, TClose, TSet
<1>12. TRespond(j, y) => Counts /\ fds' \subseteq Fds
  BY <1>1, <1>2, <1>4 DEF TRespond, TReply, TSet
<1>13. TAnswer(j, y) => Counts /\ fds' \subseteq Fds
  BY <1>1, <1>2, <1>4 DEF TAnswer, TReply, TSet
<1>14. TBegin(j, y) => Counts /\ fds' \subseteq Fds
  BY <1>1, <1>2, <1>4 DEF TBegin, TSet
<1>15. TRefuse(j, y) => Counts /\ fds' \subseteq Fds
  BY <1>1, <1>2, <1>4 DEF TRefuse, TTake, TSet
<1>16. TAccept(j, y) => Counts /\ fds' \subseteq Fds
  BY <1>1, <1>2, <1>4 DEF TAccept, TTake, TSet
<1> QED BY <1>3, <1>5, <1>6, <1>7, <1>8, <1>9, <1>10, <1>11, <1>12, <1>13, <1>14, <1>15, <1>16 DEF Kinds

LEMMA ShapeNext ==
  ASSUME Shape, [Next]_vars
  PROVE  Shape'
<1>1. at' \in Nat /\ (pc' = "udp" => at' \in UDP)
  BY Places
<1>2. Step
  BY Steps
<1>3. CASE Quiet
  BY <1>1, <1>3 DEF Quiet, Shape
<1>4. CASE \E j, y : Kinds(j, y)
  <2>1. PICK j, y : Kinds(j, y)
    BY <1>4
  <2> QED BY <1>1, <2>1, KindShape DEF Shape
<1> QED BY <1>2, <1>3, <1>4 DEF Step

\* One slot of a table changes: the others are as they were.
LEMMA OneSlot ==
  ASSUME Shape
  PROVE  /\ \A j, y : USet(j, y) => /\ u'[j] = y
                                    /\ \A i \in UDP \ {j} : u'[i] = u[i]
                                    /\ DOMAIN u' = UDP /\ t' = t
         /\ \A j, y : TSet(j, y) => /\ t'[j] = y
                                    /\ \A i \in TCP \ {j} : t'[i] = t[i]
                                    /\ DOMAIN t' = TCP /\ u' = u
<1>1. ASSUME NEW j, NEW y, USet(j, y)
      PROVE  /\ u'[j] = y /\ \A i \in UDP \ {j} : u'[i] = u[i]
             /\ DOMAIN u' = UDP /\ t' = t
  BY <1>1 DEF USet, Shape
<1>2. ASSUME NEW j, NEW y, TSet(j, y)
      PROVE  /\ t'[j] = y /\ \A i \in TCP \ {j} : t'[i] = t[i]
             /\ DOMAIN t' = TCP /\ u' = u
  BY <1>2 DEF TSet, Shape
<1> QED BY <1>1, <1>2

LEMMA Sets ==
  ASSUME NEW j, NEW y, Kinds(j, y)
  PROVE  USet(j, y) \/ TSet(j, y)
BY DEF Kinds, UEnd, URefuse, UAnswer, UBegin, UTake, TDrop, TBreak, TDeny, TClose,
       TRespond, TAnswer, TReply, TBegin, TRefuse, TAccept, TTake

LEMMA BufferNext ==
  ASSUME Shape, BufferStates, [Next]_vars
  PROVE  BufferStates'
<1>1. \A j \in TCP : BufOK(t[j])
  BY DEF BufferStates, BufOK
<1>2. SUFFICES \A j \in TCP : BufOK(t'[j])
  BY DEF BufferStates, BufOK
<1>3. Step
  BY Steps
<1>4. CASE Quiet
  BY <1>1, <1>4 DEF Quiet, TStays
<1>5. ASSUME NEW j, NEW y, Kinds(j, y)
      PROVE  \A i \in TCP : BufOK(t'[i])
  <2>1. CASE USet(j, y)
    BY <1>1, <2>1, OneSlot
  <2>2. CASE TSet(j, y)
    <3>1. BufOK(y) /\ j \in TCP
      BY <1>1, <2>2 DEF TSet
    <3>2. t'[j] = y /\ \A i \in TCP \ {j} : t'[i] = t[i]
      BY <2>2, OneSlot
    <3> QED BY <1>1, <3>1, <3>2
  <2> QED BY <1>5, <2>1, <2>2, Sets
<1> QED BY <1>3, <1>4, <1>5 DEF Step

\* A TCP client's buffer is there in the states in which it is read into or
\* written from and in no other, and there is always a byte left to go: so
\* tcp_free and the two loops of tcp_rw never meet a buffer that is not
\* theirs, however many clients, bytes and responses there are.
THEOREM BufferStatesHold == Spec => []BufferStates
<1>1. Init => Shape /\ BufferStates
  <2> SUFFICES ASSUME Init PROVE BufferStates
    BY ShapeInit
  <2> QED BY DEF Init, BufferStates
<1>2. Shape /\ BufferStates /\ [Next]_vars => (Shape /\ BufferStates)'
  BY ShapeNext, BufferNext
<1> QED BY <1>1, <1>2, PTL DEF Spec

-----------------------------------------------------------------------------
(* The descriptors and the counters.                                       *)

\* What one slot's change does to the number of active slots.
LEMMA CountSets ==
  ASSUME NEW A, IsFiniteSet(A), NEW B, NEW j, A \ {j} = B \ {j}
  PROVE  Cardinality(B) = Cardinality(A) - (IF j \in A THEN 1 ELSE 0)
                                         + (IF j \in B THEN 1 ELSE 0)
<1>1. PICK S : S = A \ {j}
  OBVIOUS
<1>2. IsFiniteSet(S)
  BY <1>1, FS_RemoveElement
<1>3. j \notin S
  BY <1>1
<1>4. Cardinality(S) \in Nat /\ Cardinality(S \cup {j}) = Cardinality(S) + 1
  BY <1>2, <1>3, FS_AddElement, FS_CardinalityType
<1>5. A = IF j \in A THEN S \cup {j} ELSE S
  BY <1>1
<1>6. B = IF j \in B THEN S \cup {j} ELSE S
  BY <1>1
<1>7. Cardinality(A) = Cardinality(S) + (IF j \in A THEN 1 ELSE 0)
  BY <1>4, <1>5
<1>8. Cardinality(B) = Cardinality(S) + (IF j \in B THEN 1 ELSE 0)
  BY <1>4, <1>6
<1> QED BY <1>4, <1>7, <1>8

LEMMA CountSlot ==
  ASSUME NEW f, NEW g, IsFiniteSet(DOMAIN f), NEW j \in DOMAIN f,
         DOMAIN g = DOMAIN f, \A i \in DOMAIN f \ {j} : g[i] = f[i],
         NEW A, A = Busy(f), NEW B, B = Busy(g)
  PROVE  Cardinality(B) = Cardinality(A) - One(f[j]) + One(g[j])
<1>1. A \subseteq DOMAIN f /\ A \ {j} = B \ {j}
  BY DEF Busy
<1>2. IsFiniteSet(A)
  BY <1>1, FS_Subset
<1>3. Cardinality(B) = Cardinality(A) - (IF j \in A THEN 1 ELSE 0)
                                      + (IF j \in B THEN 1 ELSE 0)
  BY <1>1, <1>2, CountSets
<1>4. One(f[j]) = IF j \in A THEN 1 ELSE 0
  BY DEF One, Busy
<1>5. One(g[j]) = IF j \in B THEN 1 ELSE 0
  BY DEF One, Busy
<1> QED BY <1>3, <1>4, <1>5

\* The first two parts of SlotsOwnSockets, and the last two.
Owned ==
  /\ fds = {t[j].fd : j \in Busy(t)}
  /\ \A i, j \in Busy(t) : t[i].fd = t[j].fd => i = j
Counted ==
  /\ uactive = Cardinality(Busy(u))
  /\ tactive = Cardinality(Busy(t))

LEMMA CountedNext ==
  ASSUME Shape, Counted, [Next]_vars
  PROVE  Counted'
<1>1. Step
  BY Steps
<1>2. CASE Quiet
  <2>1. Busy(u') = Busy(u) /\ Busy(t') = Busy(t)
    BY <1>2 DEF Quiet, Shape, Busy, UStays, TStays
  <2> QED BY <1>2, <2>1 DEF Quiet, Counted, Busy
<1>3. ASSUME NEW j, NEW y, Kinds(j, y)
      PROVE  Counted'
  <2>1. uactive \in Int /\ tactive \in Int /\ DOMAIN u = UDP /\ DOMAIN t = TCP
    BY DEF Shape
  <2>2. ASSUME USet(j, y), uactive' = uactive - One(u[j]) + One(y)
        PROVE  Counted'
    <3>1. u'[j] = y /\ DOMAIN u' = UDP /\ j \in UDP /\ t' = t /\ tactive' = tactive
          /\ \A i \in UDP \ {j} : u'[i] = u[i]
      BY <2>2, OneSlot DEF USet
    <3>2. Cardinality(Busy(u')) = Cardinality(Busy(u)) - One(u[j]) + One(u'[j])
      <4>1. /\ IsFiniteSet(DOMAIN u) /\ DOMAIN u' = DOMAIN u /\ j \in DOMAIN u
            /\ \A i \in DOMAIN u \ {j} : u'[i] = u[i]
        BY <2>1, <3>1, Tables
      <4> QED BY <4>1, CountSlot
    <3> QED BY <2>2, <3>1, <3>2 DEF Counted, Busy
  <2>3. ASSUME TSet(j, y), tactive' = tactive - One(t[j]) + One(y)
        PROVE  Counted'
    <3>1. t'[j] = y /\ DOMAIN t' = TCP /\ j \in TCP /\ u' = u /\ uactive' = uactive
          /\ \A i \in TCP \ {j} : t'[i] = t[i]
      BY <2>3, OneSlot DEF TSet
    <3>2. Cardinality(Busy(t')) = Cardinality(Busy(t)) - One(t[j]) + One(t'[j])
      <4>1. /\ IsFiniteSet(DOMAIN t) /\ DOMAIN t' = DOMAIN t /\ j \in DOMAIN t
            /\ \A i \in DOMAIN t \ {j} : t'[i] = t[i]
        BY <2>1, <3>1, Tables
      <4> QED BY <4>1, CountSlot
    <3> QED BY <2>3, <3>1, <3>2 DEF Counted, Busy
  <2>4. One(u[j]) \in Int /\ One(t[j]) \in Int
    BY DEF One
  <2>5. CASE UEnd(j, y)
    BY <2>1, <2>2, <2>5 DEF UEnd, USlot, One, USet, Shape
  <2>6. CASE URefuse(j, y) \/ UAnswer(j, y)
    <3>1. One(y) = 0 /\ uactive' = uactive - One(u[j]) /\ USet(j, y)
      BY <2>6 DEF URefuse, UAnswer, UTake, One
    <3> QED BY <2>1, <2>2, <2>4, <3>1
  <2>7. CASE UBegin(j, y)
    <3>1. One(y) = 1
      BY <2>7 DEF UBegin, One, Shape
    <3> QED BY <2>1, <2>2, <2>7, <3>1 DEF UBegin, UTake
  <2>8. CASE TDrop(j, y) \/ TBreak(j, y) \/ TDeny(j, y)
    <3>1. TClose(j, y)
      BY <2>8 DEF TDrop, TBreak, TDeny
    <3> QED BY <2>1, <2>3, <3>1 DEF TClose, One
  <2>9. CASE TRespond(j, y) \/ TAnswer(j, y) \/ TBegin(j, y)
    <3>1. TSet(j, y) /\ One(y) = 1 /\ One(t[j]) = 1 /\ tactive' = tactive
      BY <2>9 DEF TRespond, TAnswer, TReply, TBegin, One, Shape
    <3> QED BY <2>1, <2>3, <3>1
  <2>10. CASE TRefuse(j, y)
    <3>1. One(y) = 0
      BY <2>10 DEF TRefuse, One
    <3> QED BY <2>1, <2>3, <2>4, <2>10, <3>1 DEF TRefuse, TTake
  <2>11. CASE TAccept(j, y)
    <3>1. One(y) = 1
      BY <2>11 DEF TAccept, One
    <3> QED BY <2>1, <2>3, <2>11, <3>1 DEF TAccept, TTake
  <2> QED BY <1>3, <2>5, <2>6, <2>7, <2>8, <2>9, <2>10, <2>11 DEF Kinds
<1> QED BY <1>1, <1>2, <1>3 DEF Step

LEMMA OwnedNext ==
  ASSUME Shape, Owned, [Next]_vars
  PROVE  Owned'
<1>1. Step
  BY Steps
<1>2. CASE Quiet
  <2>1. Busy(t') = Busy(t) /\ \A j \in Busy(t) : t'[j].fd = t[j].fd
    BY <1>2 DEF Quiet, Shape, Busy, UStays, TStays
  <2>2. fds' = fds
    BY <1>2 DEF Quiet
  <2>3. Busy(t)' = Busy(t)
    BY <2>1 DEF Busy
  <2> QED BY <2>1, <2>2, <2>3 DEF Owned
<1>3. ASSUME NEW j, NEW y, Kinds(j, y)
      PROVE  Owned'
  <2>1. CASE USet(j, y)
    <3>1. t' = t /\ fds' = fds
      BY <2>1 DEF USet
    <3> QED BY <3>1 DEF Owned, Busy
  <2>2. CASE TSet(j, y)
    <3> DEFINE R == {t[i].fd : i \in Busy(t) \ {j}}
    <3>1. /\ t'[j] = y /\ DOMAIN t' = TCP /\ DOMAIN t = TCP /\ j \in TCP
          /\ \A i \in TCP \ {j} : t'[i] = t[i]
      BY <2>2, OneSlot DEF TSet, Shape
    <3>2. R = Others(j)
      <4>1. CASE t[j].active # 0
        <5>1. j \in Busy(t)
          BY <3>1, <4>1 DEF Busy
        <5>2. Others(j) = fds \ {t[j].fd}
          BY <4>1 DEF Others
        <5> QED BY <5>1, <5>2 DEF Owned
      <4>2. CASE t[j].active = 0
        <5>1. j \notin Busy(t)
          BY <4>2 DEF Busy
        <5>2. Others(j) = fds
          BY <4>2 DEF Others
        <5> QED BY <5>1, <5>2 DEF Owned
      <4> QED BY <4>1, <4>2
    <3>3. Busy(t') \ {j} = Busy(t) \ {j}
      BY <3>1 DEF Busy
    <3>4. \A i \in Busy(t) \ {j} : t'[i].fd = t[i].fd
      BY <3>1 DEF Busy
    <3>5. j \in Busy(t') <=> y.active # 0
      BY <3>1 DEF Busy
    <3>6. ASSUME y.active = 0, fds' = R
          PROVE  Owned'
      <4>1. Busy(t') = Busy(t) \ {j}
        BY <3>3, <3>5, <3>6
      <4>2. Busy(t)' = Busy(t) \ {j}
        BY <4>1 DEF Busy
      <4> QED BY <3>4, <3>6, <4>2 DEF Owned
    <3>7. ASSUME y.active # 0, fds' = R \cup {y.fd}, y.fd \notin R
          PROVE  Owned'
      <4>1. Busy(t') = (Busy(t) \ {j}) \cup {j}
        BY <3>3, <3>5, <3>7
      <4>2. Busy(t)' = (Busy(t) \ {j}) \cup {j}
        BY <4>1 DEF Busy
      <4>3. t'[j].fd = y.fd
        BY <3>1
      <4>4. fds' = {t'[i].fd : i \in Busy(t)'}
        BY <3>4, <3>7, <4>2, <4>3
      <4>5. \A i, k \in Busy(t)' : t'[i].fd = t'[k].fd => i = k
        BY <3>4, <3>7, <4>2, <4>3 DEF Owned
      <4> QED BY <4>4, <4>5 DEF Owned
    <3>8. CASE TDrop(j, y) \/ TBreak(j, y) \/ TDeny(j, y)
      <4>1. TClose(j, y)
        BY <3>8 DEF TDrop, TBreak, TDeny
      <4> HIDE DEF R
      <4> QED BY <3>2, <3>6, <4>1 DEF TClose, Others
    <3>9. CASE TRespond(j, y) \/ TAnswer(j, y) \/ TBegin(j, y)
      <4>1. fds' = fds /\ y.active # 0 /\ t[j].active # 0 /\ y.fd = t[j].fd
        BY <3>9 DEF TRespond, TAnswer, TReply, TBegin, Shape
      <4>2. j \in Busy(t) /\ t[j].fd \in fds
        BY <3>1, <4>1 DEF Busy, Owned
      <4>3. Others(j) = fds \ {t[j].fd}
        BY <4>1 DEF Others
      <4> HIDE DEF R
      <4> QED BY <3>2, <3>7, <4>1, <4>2, <4>3
    <3>10. CASE TRefuse(j, y)
      <4> HIDE DEF R
      <4> QED BY <3>2, <3>6, <3>10 DEF TRefuse
    <3>11. CASE TAccept(j, y)
      <4> HIDE DEF R
      <4>1. y.active # 0 /\ y.fd \notin R /\ fds' = R \cup {y.fd}
        BY <3>2, <3>11 DEF TAccept
      <4> QED BY <3>7, <4>1
    <3>12. CASE USet(j, y)
      BY <2>1, <3>12
    <3> QED BY <1>3, <3>8, <3>9, <3>10, <3>11, <3>12
            DEF Kinds, UEnd, URefuse, UAnswer, UBegin, UTake
  <2> QED BY <1>3, <2>1, <2>2, Sets
<1> QED BY <1>1, <1>2, <1>3 DEF Step

\* The open descriptors of TCP clients are those of the active slots, one
\* each, and uactive and tactive count the active slots, whatever the size
\* of the tables and however clients leave: no descriptor is leaked by
\* tcp_close, tcp_new or an eviction.
THEOREM SlotsOwnSocketsHold == Spec => []SlotsOwnSockets
<1>1. Init => Shape /\ Owned /\ Counted
  <2> SUFFICES ASSUME Init PROVE Owned /\ Counted
    BY ShapeInit
  <2>1. Busy(u) = {} /\ Busy(t) = {}
    BY DEF Init, Busy
  <2>2. fds = {} /\ uactive = 0 /\ tactive = 0
    BY DEF Init
  <2> QED BY <2>1, <2>2, FS_EmptySet DEF Owned, Counted
<1>2. Shape /\ Owned /\ Counted /\ [Next]_vars => (Shape /\ Owned /\ Counted)'
  BY ShapeNext, OwnedNext, CountedNext
<1>3. Owned /\ Counted => SlotsOwnSockets
  BY DEF Owned, Counted, SlotsOwnSockets
<1> QED BY <1>1, <1>2, <1>3, PTL DEF Spec

-----------------------------------------------------------------------------
(* Every query ends once.                                                  *)

\* The slots, and the query each has under way (0: none).
Key == {<<"udp", j>> : j \in UDP} \cup {<<"tcp", j>> : j \in TCP}

Num == [k \in Key |-> IF k[1] = "udp"
                        THEN u[k[2]].active
                        ELSE IF t[k[2]].state = 0 THEN t[k[2]].active ELSE 0]

\* f says which of n queries each slot has under way, e which have ended: no
\* query is in two slots, and it has ended once when it is in none.
Balanced(f, e, n) ==
  /\ n \in Nat
  /\ f \in [Key -> 0 .. n]
  /\ e \in Seq(Nat) /\ Len(e) = n
  /\ \A k, l \in Key : f[k] # 0 /\ f[k] = f[l] => k = l
  /\ \A i \in 1 .. n : e[i] = IF \E k \in Key : f[k] = i THEN 0 ELSE 1

\* f becomes g: the slot k gets v.
Moves(f, g, k, v) ==
  /\ k \in Key /\ g = [l \in Key |-> g[l]] /\ g[k] = v
  /\ \A l \in Key \ {k} : g[l] = f[l]

\* The query m, if any, ends.
Closed(e, m) == IF m # 0 THEN [e EXCEPT ![m] = @ + 1] ELSE e

LEMMA Evict ==
  ASSUME NEW f, NEW e, NEW n, Balanced(f, e, n), NEW k, NEW g, Moves(f, g, k, 0),
         NEW d, d = Closed(e, f[k])
  PROVE  Balanced(g, d, n)
<1>1. n \in Nat /\ f \in [Key -> 0 .. n] /\ e \in Seq(Nat) /\ Len(e) = n
  BY DEF Balanced
<1>2. k \in Key /\ f[k] \in 0 .. n
  BY <1>1 DEF Moves
<1>3. g \in [Key -> 0 .. n]
  <2>1. \A l \in Key : g[l] \in 0 .. n
    BY <1>1 DEF Moves
  <2> QED BY <2>1 DEF Moves
<1>4. CASE f[k] = 0
  <2>1. d = e
    BY <1>4 DEF Closed
  <2>2. \A l \in Key : g[l] = f[l]
    BY <1>4 DEF Moves
  <2> QED BY <1>3, <2>1, <2>2 DEF Balanced
<1>5. CASE f[k] # 0
  <2>1. PICK m : m = f[k]
    OBVIOUS
  <2>2. m \in 1 .. n /\ d = [e EXCEPT ![m] = @ + 1]
    BY <1>1, <1>2, <1>5, <2>1 DEF Closed
  <2>3. e[m] = 0
    BY <1>2, <2>1, <2>2 DEF Balanced
  <2>4. d \in Seq(Nat) /\ Len(d) = n /\ d[m] = 1
        /\ \A i \in 1 .. n : i # m => d[i] = e[i]
    BY <1>1, <2>2, <2>3
  <2>5. \A l, h \in Key : g[l] # 0 /\ g[l] = g[h] => l = h
    BY DEF Moves, Balanced
  <2>6. ASSUME NEW i \in 1 .. n
        PROVE  d[i] = IF \E l \in Key : g[l] = i THEN 0 ELSE 1
    <3>1. CASE i = m
      <4>1. \A l \in Key : g[l] # i
        BY <1>2, <1>5, <2>1, <3>1 DEF Moves, Balanced
      <4> QED BY <2>4, <3>1, <4>1
    <3>2. CASE i # m
      <4>1. (\E l \in Key : g[l] = i) <=> (\E l \in Key : f[l] = i)
        BY <1>2, <2>1, <3>2 DEF Moves
      <4>2. d[i] = e[i]
        BY <2>4, <3>2
      <4>3. e[i] = IF \E l \in Key : f[l] = i THEN 0 ELSE 1
        BY DEF Balanced
      <4> QED BY <4>1, <4>2, <4>3
    <3> QED BY <3>1, <3>2
  <2> QED BY <1>1, <1>3, <2>4, <2>5, <2>6 DEF Balanced
<1> QED BY <1>4, <1>5

LEMMA Begin ==
  ASSUME NEW f, NEW e, NEW n, Balanced(f, e, n), NEW k, NEW g, f[k] = 0,
         Moves(f, g, k, n + 1), NEW d, d = Append(e, 0)
  PROVE  Balanced(g, d, n + 1)
<1>1. n \in Nat /\ f \in [Key -> 0 .. n] /\ e \in Seq(Nat) /\ Len(e) = n
      /\ n + 1 \in Nat
  BY DEF Balanced
<1>2. k \in Key
  BY DEF Moves
<1>3. \A l \in Key \ {k} : g[l] \in 0 .. n /\ g[l] = f[l]
  BY <1>1 DEF Moves
<1>4. g[k] = n + 1
  BY DEF Moves
<1>5. g \in [Key -> 0 .. n + 1]
  <2>1. \A l \in Key : g[l] \in 0 .. n + 1
    BY <1>1, <1>3, <1>4
  <2> QED BY <2>1 DEF Moves
<1>6. d \in Seq(Nat) /\ Len(d) = n + 1 /\ d[n + 1] = 0
      /\ \A i \in 1 .. n : d[i] = e[i]
  BY <1>1
<1>7. \A l, h \in Key : g[l] # 0 /\ g[l] = g[h] => l = h
  <2>1. \A l, h \in Key \ {k} : g[l] # 0 /\ g[l] = g[h] => l = h
    BY <1>3 DEF Balanced
  <2>2. \A l \in Key \ {k} : g[l] # g[k]
    BY <1>1, <1>3, <1>4
  <2> QED BY <2>1, <2>2
<1>8. ASSUME NEW i \in 1 .. n + 1
      PROVE  d[i] = IF \E l \in Key : g[l] = i THEN 0 ELSE 1
  <2>1. CASE i = n + 1
    BY <1>2, <1>4, <1>6, <2>1
  <2>2. CASE i # n + 1
    <3>1. i \in 1 .. n
      BY <1>1, <2>2
    <3>2. (\E l \in Key : g[l] = i) <=> (\E l \in Key : f[l] = i)
      BY <1>3, <1>4, <2>2, <3>1
    <3>3. d[i] = e[i]
      BY <1>6, <3>1
    <3>4. e[i] = IF \E l \in Key : f[l] = i THEN 0 ELSE 1
      BY <3>1 DEF Balanced
    <3> QED BY <3>2, <3>3, <3>4
  <2> QED BY <2>1, <2>2
<1> QED BY <1>1, <1>5, <1>6, <1>7, <1>8 DEF Balanced

LEMMA AtOnce ==
  ASSUME NEW f, NEW e, NEW n, Balanced(f, e, n), NEW d, d = Append(e, 1)
  PROVE  Balanced(f, d, n + 1)
<1>1. n \in Nat /\ f \in [Key -> 0 .. n] /\ e \in Seq(Nat) /\ Len(e) = n
      /\ n + 1 \in Nat
  BY DEF Balanced
<1>2. \A k \in Key : f[k] \in 0 .. n /\ f[k] \in 0 .. n + 1 /\ f[k] # n + 1
  BY <1>1
<1>3. d \in Seq(Nat) /\ Len(d) = n + 1 /\ d[n + 1] = 1
      /\ \A i \in 1 .. n : d[i] = e[i]
  BY <1>1
<1>4. ASSUME NEW i \in 1 .. n + 1
      PROVE  d[i] = IF \E l \in Key : f[l] = i THEN 0 ELSE 1
  <2>1. CASE i = n + 1
    BY <1>2, <1>3, <2>1
  <2>2. CASE i # n + 1
    <3>1. i \in 1 .. n
      BY <1>1, <2>2
    <3>2. d[i] = e[i]
      BY <1>3, <3>1
    <3>3. e[i] = IF \E l \in Key : f[l] = i THEN 0 ELSE 1
      BY <3>1 DEF Balanced
    <3> QED BY <3>2, <3>3
  <2> QED BY <2>1, <2>2
<1>5. f \in [Key -> 0 .. n + 1]
  BY <1>1, <1>2
<1>6. \A k, l \in Key : f[k] # 0 /\ f[k] = f[l] => k = l
  BY DEF Balanced
<1> QED BY <1>1, <1>3, <1>4, <1>5, <1>6 DEF Balanced

\* What a slot's table entry means for Num.
TNum(x) == IF x.state = 0 THEN x.active ELSE 0

LEMMA NumAt ==
  /\ \A j \in UDP : <<"udp", j>> \in Key /\ Num[<<"udp", j>>] = u[j].active
  /\ \A j \in TCP : <<"tcp", j>> \in Key /\ Num[<<"tcp", j>>] = TNum(t[j])
  /\ \A k \in Key : \/ \E j \in UDP : k = <<"udp", j>>
                    \/ \E j \in TCP : k = <<"tcp", j>>
BY DEF Key, Num, TNum

LEMMA NumAtNext ==
  /\ \A j \in UDP : Num'[<<"udp", j>>] = u'[j].active
  /\ \A j \in TCP : Num'[<<"tcp", j>>] = TNum(t'[j])
  /\ Num' = [k \in Key |-> Num'[k]]
BY DEF Key, Num, TNum

LEMMA NumU ==
  ASSUME Shape, NEW j, NEW y, USet(j, y)
  PROVE  Moves(Num, Num', <<"udp", j>>, y.active)
<1>1. j \in UDP /\ u'[j] = y /\ t' = t /\ \A i \in UDP \ {j} : u'[i] = u[i]
  BY OneSlot DEF USet
<1>2. \A l \in Key \ {<<"udp", j>>} : Num'[l] = Num[l]
  <2>1. SUFFICES ASSUME NEW l \in Key, l # <<"udp", j>> PROVE Num'[l] = Num[l]
    OBVIOUS
  <2>2. CASE \E i \in UDP : l = <<"udp", i>>
    <3>1. PICK i \in UDP : l = <<"udp", i>>
      BY <2>2
    <3>2. i # j
      BY <2>1, <3>1
    <3>3. u'[i] = u[i]
      BY <1>1, <3>2
    <3> QED BY <3>1, <3>3, NumAt, NumAtNext
  <2>3. CASE \E i \in TCP : l = <<"tcp", i>>
    <3>1. PICK i \in TCP : l = <<"tcp", i>>
      BY <2>3
    <3>2. t'[i] = t[i]
      BY <1>1
    <3> QED BY <3>1, <3>2, NumAt, NumAtNext
  <2> QED BY <2>2, <2>3, NumAt
<1>3. <<"udp", j>> \in Key /\ Num'[<<"udp", j>>] = y.active
  BY <1>1, NumAt, NumAtNext
<1> QED BY <1>2, <1>3, NumAtNext DEF Moves

LEMMA NumT ==
  ASSUME Shape, NEW j, NEW y, TSet(j, y)
  PROVE  Moves(Num, Num', <<"tcp", j>>, TNum(y))
<1>1. j \in TCP /\ t'[j] = y /\ u' = u /\ \A i \in TCP \ {j} : t'[i] = t[i]
  BY OneSlot DEF TSet
<1>2. \A l \in Key \ {<<"tcp", j>>} : Num'[l] = Num[l]
  <2>1. SUFFICES ASSUME NEW l \in Key, l # <<"tcp", j>> PROVE Num'[l] = Num[l]
    OBVIOUS
  <2>2. CASE \E i \in TCP : l = <<"tcp", i>>
    <3>1. PICK i \in TCP : l = <<"tcp", i>>
      BY <2>2
    <3>2. i # j
      BY <2>1, <3>1
    <3>3. t'[i] = t[i]
      BY <1>1, <3>2
    <3> QED BY <3>1, <3>3, NumAt, NumAtNext
  <2>3. CASE \E i \in UDP : l = <<"udp", i>>
    <3>1. PICK i \in UDP : l = <<"udp", i>>
      BY <2>3
    <3>2. u'[i] = u[i]
      BY <1>1
    <3> QED BY <3>1, <3>2, NumAt, NumAtNext
  <2> QED BY <2>2, <2>3, NumAt
<1>3. <<"tcp", j>> \in Key /\ Num'[<<"tcp", j>>] = TNum(y)
  BY <1>1, NumAt, NumAtNext
<1> QED BY <1>2, <1>3, NumAtNext DEF Moves

\* A move to what the slot has already changes nothing.
LEMMA NoMove ==
  ASSUME NEW f, f = [l \in Key |-> f[l]], NEW g, NEW k, Moves(f, g, k, f[k])
  PROVE  g = f
BY DEF Moves

Tally == Balanced(Num, ends, numqueries)

LEMMA TallyNext ==
  ASSUME Shape, Tally, [Next]_vars
  PROVE  Tally'
<1>1. Step
  BY Steps
<1>2. SUFFICES Balanced(Num', ends', numqueries')
  BY DEF Tally, Balanced
<1>3. Num = [k \in Key |-> Num[k]] /\ numqueries \in Nat
  BY DEF Num, Shape
<1>4. CASE Quiet
  <2>1. \A k \in Key : Num'[k] = Num[k]
    <3>1. SUFFICES ASSUME NEW k \in Key PROVE Num'[k] = Num[k]
      OBVIOUS
    <3>2. CASE \E i \in UDP : k = <<"udp", i>>
      BY <1>4, <3>2, NumAt, NumAtNext DEF Quiet, UStays
    <3>3. CASE \E i \in TCP : k = <<"tcp", i>>
      BY <1>4, <3>3, NumAt, NumAtNext DEF Quiet, TStays, UStays, TNum
    <3> QED BY <3>2, <3>3, NumAt
  <2>2. Num' = Num
    BY <1>3, <2>1, NumAtNext
  <2> QED BY <1>4, <2>2 DEF Quiet, Tally
<1>5. ASSUME NEW j, NEW y, Kinds(j, y)
      PROVE  Balanced(Num', ends', numqueries')
  <2>1. Balanced(Num, ends, numqueries)
    BY DEF Tally
  <2>2. ASSUME NEW k, Moves(Num, Num', k, 0), ends' = Closed(ends, Num[k]),
               numqueries' = numqueries
        PROVE  Balanced(Num', ends', numqueries')
    BY <2>1, <2>2, Evict
  <2>3. ASSUME NEW k, Moves(Num, Num', k, 0), NEW d, d = Closed(ends, Num[k]),
               ends' = Append(d, 1), numqueries' = numqueries + 1
        PROVE  Balanced(Num', ends', numqueries')
    <3>1. Balanced(Num', d, numqueries)
      BY <2>1, <2>3, Evict
    <3> QED BY <2>3, <3>1, AtOnce
  <2>4. ASSUME NEW k, Moves(Num, Num', k, numqueries + 1),
               NEW d, d = Closed(ends, Num[k]),
               ends' = Append(d, 0), numqueries' = numqueries + 1
        PROVE  Balanced(Num', ends', numqueries')
    <3>1. PICK h : h = [l \in Key |-> IF l = k THEN 0 ELSE Num[l]]
      OBVIOUS
    <3>2. Moves(Num, h, k, 0) /\ Moves(h, Num', k, numqueries + 1)
      BY <2>4, <3>1 DEF Moves
    <3>3. Balanced(h, d, numqueries)
      BY <2>1, <2>4, <3>2, Evict
    <3>4. h[k] = 0
      BY <3>2 DEF Moves
    <3> QED BY <2>4, <3>2, <3>3, <3>4, Begin
  <2>5. ASSUME NEW k, Moves(Num, Num', k, Num[k]),
               ends' = Append(ends, 1), numqueries' = numqueries + 1
        PROVE  Balanced(Num', ends', numqueries')
    <3>1. Num' = Num
      BY <1>3, <2>5, NoMove
    <3> QED BY <2>1, <2>5, <3>1, AtOnce
  <2>6. CASE UEnd(j, y) \/ URefuse(j, y) \/ UAnswer(j, y) \/ UBegin(j, y)
    <3>0. USet(j, y)
      BY <2>6 DEF UEnd, URefuse, UAnswer, UBegin, UTake
    <3>1. PICK k : k = <<"udp", j>>
      OBVIOUS
    <3>2. Moves(Num, Num', k, y.active) /\ Num[k] = u[j].active
      BY <3>0, <3>1, NumU, NumAt DEF USet
    <3>3. Ended(u[j], TRUE) = Closed(ends, Num[k])
      BY <3>2 DEF Ended, Closed
    <3>4. CASE UEnd(j, y)
      <4>1. y.active = 0 /\ ends' = Closed(ends, Num[k]) /\ numqueries' = numqueries
        BY <3>2, <3>4 DEF UEnd, End, Closed, USet, Shape, USlot
      <4> QED BY <2>2, <3>2, <4>1
    <3>5. CASE URefuse(j, y)
      BY <2>2, <3>2, <3>3, <3>5 DEF URefuse
    <3>6. CASE UAnswer(j, y)
      BY <2>3, <3>2, <3>3, <3>6 DEF UAnswer
    <3>7. CASE UBegin(j, y)
      BY <2>4, <3>2, <3>3, <3>7 DEF UBegin
    <3> QED BY <2>6, <3>4, <3>5, <3>6, <3>7
  <2>7. CASE \/ TDrop(j, y) \/ TBreak(j, y) \/ TDeny(j, y)
             \/ TRespond(j, y) \/ TAnswer(j, y) \/ TBegin(j, y)
             \/ TRefuse(j, y) \/ TAccept(j, y)
    <3>0. TSet(j, y)
      BY <2>7 DEF TDrop, TBreak, TDeny, TClose, TRespond, TAnswer, TReply, TBegin,
                  TRefuse, TAccept, TTake
    <3>1. PICK k : k = <<"tcp", j>>
      OBVIOUS
    <3>2. Moves(Num, Num', k, TNum(y)) /\ Num[k] = TNum(t[j])
      BY <3>0, <3>1, NumT, NumAt DEF TSet
    <3>3. Ended(t[j], t[j].state = 0) = Closed(ends, Num[k])
      BY <3>2 DEF Ended, Closed, TNum
    <3>4. CASE TDrop(j, y) \/ TRespond(j, y)
      <4>1. TNum(y) = 0 /\ ends' = Closed(ends, Num[k]) /\ numqueries' = numqueries
        BY <3>2, <3>4 DEF TDrop, TClose, TRespond, TReply, End, Closed, TNum
      <4> QED BY <2>2, <3>2, <4>1
    <3>5. CASE TRefuse(j, y) \/ TAccept(j, y)
      <4>1. TNum(y) = 0 /\ ends' = Closed(ends, Num[k]) /\ numqueries' = numqueries
        BY <3>3, <3>5 DEF TRefuse, TAccept, TTake, TNum
      <4> QED BY <2>2, <3>2, <4>1
    <3>6. CASE TBreak(j, y)
      <4>1. TNum(y) = 0 /\ Num[k] = 0 /\ ends' = ends /\ numqueries' = numqueries
        BY <3>2, <3>6 DEF TBreak, TClose, TNum
      <4>2. Num' = Num
        BY <1>3, <3>2, <4>1, NoMove
      <4> QED BY <2>1, <4>1, <4>2
    <3>7. CASE TDeny(j, y) \/ TAnswer(j, y)
      <4>1. /\ TNum(y) = 0 /\ Num[k] = 0 /\ ends' = Append(ends, 1)
            /\ numqueries' = numqueries + 1
        BY <3>2, <3>7 DEF TDeny, TClose, TAnswer, TReply, TNum
      <4> QED BY <2>5, <3>2, <4>1
    <3>8. CASE TBegin(j, y)
      <4>1. /\ TNum(y) = numqueries + 1 /\ Closed(ends, Num[k]) = ends
            /\ ends' = Append(ends, 0) /\ numqueries' = numqueries + 1
        BY <3>2, <3>8 DEF TBegin, TNum, Closed
      <4> QED BY <2>4, <3>2, <4>1
    <3> QED BY <2>7, <3>4, <3>5, <3>6, <3>7, <3>8
  <2> QED BY <1>5, <2>6, <2>7 DEF Kinds
<1> QED BY <1>1, <1>4, <1>5 DEF Step

LEMMA TallyInit == Init => Tally
<1> SUFFICES ASSUME Init PROVE Tally
  OBVIOUS
<1>1. \A k \in Key : Num[k] = 0
  BY NumAt DEF Init, TNum
<1>2. Num \in [Key -> 0 .. 0]
  BY <1>1 DEF Num
<1>3. ends = <<>> /\ numqueries = 0
  BY DEF Init
<1> QED BY <1>1, <1>2, <1>3 DEF Tally, Balanced

LEMMA TallyEnds == Tally => EndsOnce
<1> SUFFICES ASSUME Tally, NEW n \in 1 .. numqueries
             PROVE  \/ ends[n] = 0 /\ Cardinality(Running(n)) = 1
                    \/ ends[n] = 1 /\ Running(n) = {}
  BY DEF EndsOnce
<1>1. /\ numqueries \in Nat
      /\ \A k, l \in Key : Num[k] # 0 /\ Num[k] = Num[l] => k = l
      /\ ends[n] = IF \E k \in Key : Num[k] = n THEN 0 ELSE 1
  BY DEF Tally, Balanced
<1>2. n # 0
  BY <1>1
<1>3. Running(n) = {k \in Key : Num[k] = n}
  <2>1. ASSUME NEW k \in Running(n) PROVE k \in Key /\ Num[k] = n
    BY <2>1, NumAt DEF Running, TNum
  <2>2. ASSUME NEW k \in Key, Num[k] = n PROVE k \in Running(n)
    <3>1. CASE \E j \in UDP : k = <<"udp", j>>
      BY <2>2, <3>1, NumAt DEF Running
    <3>2. CASE \E j \in TCP : k = <<"tcp", j>>
      BY <1>2, <2>2, <3>2, NumAt DEF Running, TNum
    <3> QED BY <3>1, <3>2, NumAt
  <2> QED BY <2>1, <2>2
<1>4. CASE \E k \in Key : Num[k] = n
  <2>1. PICK k \in Key : Num[k] = n
    BY <1>4
  <2>2. Running(n) = {k}
    BY <1>1, <1>2, <1>3, <2>1
  <2> QED BY <1>1, <1>4, <2>2, FS_Singleton
<1>5. CASE ~ \E k \in Key : Num[k] = n
  BY <1>1, <1>3, <1>5
<1> QED BY <1>4, <1>5

\* Every query that was accepted is under way in exactly one slot or has
\* been logged exactly once as sent or dropped, whatever the size of the
\* tables, whichever clients are evicted, time out or leave.
THEOREM EndsOnceHolds == Spec => []EndsOnce
<1>1. Init => Shape /\ Tally
  BY ShapeInit, TallyInit
<1>2. Shape /\ Tally /\ [Next]_vars => (Shape /\ Tally)'
  BY ShapeNext, TallyNext
<1>3. Tally => EndsOnce
  BY TallyEnds
<1> QED BY <1>1, <1>2, <1>3, PTL DEF Spec

-----------------------------------------------------------------------------
(* The response goes to the client that asked.                             *)

\* The number n, the peer p, the id i and the question q belong to one of
\* the queries of a.
Match(n, p, i, q, a) == n \in 1 .. Len(a) /\ i = n /\ q = n /\ a[n] = p

Mine(x, a) == Match(x.active, x.peer, x.id, x.q, a)

Answers ==
  /\ asked \in Seq(Nat) /\ Len(asked) = numqueries
  /\ \A j \in UDP : u[j].active # 0 => Mine(u[j], asked)
  /\ \A j \in TCP : t[j].active # 0 /\ t[j].state = 0 => Mine(t[j], asked)
  /\ reply.num # 0 => Match(reply.num, reply.to, reply.id, reply.q, asked)

LEMMA MatchStays ==
  ASSUME NEW a \in Seq(Nat), NEW b, NEW p \in Nat, b = Append(a, p)
  PROVE  /\ b \in Seq(Nat) /\ Len(b) = Len(a) + 1
         /\ Match(Len(a) + 1, p, Len(a) + 1, Len(a) + 1, b)
         /\ \A n, r, i, q : Match(n, r, i, q, a) => Match(n, r, i, q, b)
BY DEF Match

LEMMA AnswersNext ==
  ASSUME Shape, Answers, [Next]_vars
  PROVE  Answers'
<1>1. Step
  BY Steps
<1> DEFINE M(a) == /\ \A j \in UDP : u[j].active # 0 => Mine(u[j], a)
                   /\ \A j \in TCP : t[j].active # 0 /\ t[j].state = 0 => Mine(t[j], a)
                   /\ reply.num # 0 => Match(reply.num, reply.to, reply.id, reply.q, a)
<1>2. asked \in Seq(Nat) /\ Len(asked) = numqueries /\ numqueries \in Nat /\ M(asked)
  BY DEF Answers, Shape
<1>3. ASSUME NEW p \in Nat, asked' = Append(asked, p), numqueries' = numqueries + 1
      PROVE  /\ asked' \in Seq(Nat) /\ Len(asked') = numqueries'
             /\ Match(numqueries + 1, p, numqueries + 1, numqueries + 1, asked')
             /\ M(asked')
  <2>1. /\ asked' \in Seq(Nat) /\ Len(asked') = Len(asked) + 1
        /\ Match(Len(asked) + 1, p, Len(asked) + 1, Len(asked) + 1, asked')
        /\ \A n, r, i, q : Match(n, r, i, q, asked) => Match(n, r, i, q, asked')
    BY <1>2, <1>3, MatchStays
  <2>2. M(asked')
    BY <1>2, <2>1 DEF Mine
  <2> QED BY <1>2, <1>3, <2>1, <2>2
<1>4. CASE Quiet
  <2>1. asked' = asked /\ numqueries' = numqueries /\ reply' \in {reply, NoReply}
    BY <1>4 DEF Quiet
  <2>2. \A j \in UDP : u'[j].active # 0 => Mine(u'[j], asked')
    BY <1>2, <1>4, <2>1 DEF Quiet, UStays, Mine
  <2>3. \A j \in TCP : t'[j].active # 0 /\ t'[j].state = 0 => Mine(t'[j], asked')
    BY <1>2, <1>4, <2>1 DEF Quiet, TStays, UStays, Mine
  <2>4. reply'.num # 0 => Match(reply'.num, reply'.to, reply'.id, reply'.q, asked')
    BY <1>2, <2>1 DEF NoReply
  <2> QED BY <1>2, <2>1, <2>2, <2>3, <2>4 DEF Answers, Mine, Match
<1>5. ASSUME NEW j, NEW y, Kinds(j, y)
      PROVE  Answers'
  <2>1. ASSUME USet(j, y), M(asked'), y.active # 0 => Mine(y, asked'),
               asked' \in Seq(Nat), Len(asked') = numqueries',
               reply'.num # 0 => Match(reply'.num, reply'.to, reply'.id, reply'.q, asked')
        PROVE  Answers'
    <3>1. u'[j] = y /\ t' = t /\ \A i \in UDP \ {j} : u'[i] = u[i]
      BY <2>1, OneSlot
    <3>2. \A i \in UDP : u'[i].active # 0 => Mine(u'[i], asked')
      BY <2>1, <3>1
    <3>3. \A i \in TCP : t'[i].active # 0 /\ t'[i].state = 0 => Mine(t'[i], asked')
      BY <2>1, <3>1
    <3> QED BY <2>1, <3>2, <3>3 DEF Answers, Mine, Match
  <2>2. ASSUME TSet(j, y), M(asked'), y.active # 0 /\ y.state = 0 => Mine(y, asked'),
               asked' \in Seq(Nat), Len(asked') = numqueries',
               reply'.num # 0 => Match(reply'.num, reply'.to, reply'.id, reply'.q, asked')
        PROVE  Answers'
    <3>1. t'[j] = y /\ u' = u /\ \A i \in TCP \ {j} : t'[i] = t[i]
      BY <2>2, OneSlot
    <3>2. \A i \in UDP : u'[i].active # 0 => Mine(u'[i], asked')
      BY <2>2, <3>1
    <3>3. \A i \in TCP : t'[i].active # 0 /\ t'[i].state = 0 => Mine(t'[i], asked')
      BY <2>2, <3>1
    <3> QED BY <2>2, <3>2, <3>3 DEF Answers, Mine, Match
  <2>3. CASE UEnd(j, y)
    <3>1. /\ USet(j, y) /\ asked' = asked /\ numqueries' = numqueries
          /\ reply' \in {reply, Response(u[j])}
      BY <2>3 DEF UEnd
    <3>2. y.active = 0 /\ u[j].active # 0 /\ j \in UDP
      BY <2>3 DEF UEnd, USet, Shape, USlot
    <3>3. Mine(u[j], asked)
      BY <1>2, <3>2
    <3>4. reply'.num # 0 => Match(reply'.num, reply'.to, reply'.id, reply'.q, asked')
      <4>1. CASE reply' = reply
        BY <1>2, <3>1, <4>1
      <4>2. CASE reply' = Response(u[j])
        BY <3>1, <3>3, <4>2 DEF Response, Mine
      <4> QED BY <3>1, <4>1, <4>2
    <3> QED BY <1>2, <2>1, <3>1, <3>2, <3>4
  <2>4. CASE URefuse(j, y)
    <3>1. /\ USet(j, y) /\ asked' = asked /\ numqueries' = numqueries
          /\ reply' = reply /\ y.active = 0
      BY <2>4 DEF URefuse, UTake
    <3> QED BY <1>2, <2>1, <3>1
  <2>5. PICK c : c \in Nat /\ c = arrivals + 1
    BY DEF Shape, arrivals
  <2>6. CASE UAnswer(j, y)
    <3>1. /\ USet(j, y) /\ y.active = 0
          /\ asked' = Append(asked, c) /\ numqueries' = numqueries + 1
          /\ reply' \in {reply, [num |-> numqueries + 1, to |-> c,
                                 id |-> numqueries + 1, q |-> numqueries + 1]}
      BY <2>5, <2>6 DEF UAnswer, UTake
    <3>2. /\ asked' \in Seq(Nat) /\ Len(asked') = numqueries'
          /\ Match(numqueries + 1, c, numqueries + 1, numqueries + 1, asked')
          /\ M(asked')
      BY <1>3, <2>5, <3>1
    <3>3. reply'.num # 0 => Match(reply'.num, reply'.to, reply'.id, reply'.q, asked')
      BY <3>1, <3>2
    <3> QED BY <2>1, <3>1, <3>2, <3>3
  <2>7. CASE UBegin(j, y)
    <3>1. /\ USet(j, y) /\ y.active = numqueries + 1 /\ y.id = numqueries + 1
          /\ y.q = numqueries + 1 /\ y.peer = c /\ reply' = reply
          /\ asked' = Append(asked, c) /\ numqueries' = numqueries + 1
      BY <2>5, <2>7 DEF UBegin, UTake
    <3>2. /\ asked' \in Seq(Nat) /\ Len(asked') = numqueries'
          /\ Match(numqueries + 1, c, numqueries + 1, numqueries + 1, asked')
          /\ M(asked')
      BY <1>3, <2>5, <3>1
    <3>3. Mine(y, asked')
      BY <3>1, <3>2 DEF Mine
    <3> QED BY <2>1, <3>1, <3>2, <3>3
  <2>8. CASE TDrop(j, y) \/ TBreak(j, y)
    <3>1. /\ TSet(j, y) /\ asked' = asked /\ numqueries' = numqueries
          /\ reply' = reply /\ y.active = 0
      BY <2>8 DEF TDrop, TBreak, TClose
    <3> QED BY <1>2, <2>2, <3>1
  <2>9. j \in TCP => t[j].peer \in Nat
    BY DEF Shape, TSlot
  <2>10. CASE TDeny(j, y)
    <3>1. /\ TSet(j, y) /\ y.active = 0 /\ reply' = reply /\ j \in TCP
          /\ asked' = Append(asked, t[j].peer) /\ numqueries' = numqueries + 1
      BY <2>10 DEF TDeny, TClose, TSet
    <3>2. asked' \in Seq(Nat) /\ Len(asked') = numqueries' /\ M(asked')
      BY <1>3, <2>9, <3>1
    <3> QED BY <2>2, <3>1, <3>2
  <2>11. CASE TRespond(j, y)
    <3>1. /\ TSet(j, y) /\ asked' = asked /\ numqueries' = numqueries /\ j \in TCP
          /\ reply' = Response(t[j]) /\ y.state = -1
      BY <2>11 DEF TRespond, TReply, TSet
    <3>2. Mine(t[j], asked)
      BY <1>2, <2>11, <3>1 DEF TRespond, TReply
    <3>3. reply'.num # 0 => Match(reply'.num, reply'.to, reply'.id, reply'.q, asked')
      BY <3>1, <3>2 DEF Response, Mine
    <3> QED BY <1>2, <2>2, <3>1, <3>3
  <2>12. CASE TAnswer(j, y)
    <3>1. /\ TSet(j, y) /\ y.state = -1 /\ j \in TCP
          /\ asked' = Append(asked, t[j].peer) /\ numqueries' = numqueries + 1
          /\ reply' = [num |-> numqueries + 1, to |-> t[j].peer,
                       id |-> numqueries + 1, q |-> numqueries + 1]
      BY <2>12 DEF TAnswer, TReply, TSet
    <3>2. /\ asked' \in Seq(Nat) /\ Len(asked') = numqueries'
          /\ Match(numqueries + 1, t[j].peer, numqueries + 1, numqueries + 1, asked')
          /\ M(asked')
      BY <1>3, <2>9, <3>1
    <3>3. reply'.num # 0 => Match(reply'.num, reply'.to, reply'.id, reply'.q, asked')
      BY <3>1, <3>2
    <3> QED BY <2>2, <3>1, <3>2, <3>3
  <2>13. CASE TBegin(j, y)
    <3>1. /\ TSet(j, y) /\ y.active = numqueries + 1 /\ y.id = numqueries + 1
          /\ y.q = numqueries + 1 /\ y.peer = t[j].peer /\ reply' = reply /\ j \in TCP
          /\ asked' = Append(asked, t[j].peer) /\ numqueries' = numqueries + 1
      BY <2>13 DEF TBegin, TSet
    <3>2. /\ asked' \in Seq(Nat) /\ Len(asked') = numqueries'
          /\ Match(numqueries + 1, t[j].peer, numqueries + 1, numqueries + 1, asked')
          /\ M(asked')
      BY <1>3, <2>9, <3>1
    <3>3. Mine(y, asked')
      BY <3>1, <3>2 DEF Mine
    <3> QED BY <2>2, <3>1, <3>2, <3>3
  <2>14. CASE TRefuse(j, y) \/ TAccept(j, y)
    <3>1. /\ TSet(j, y) /\ asked' = asked /\ numqueries' = numqueries
          /\ reply' = reply /\ (y.active = 0 \/ y.state = 1)
      BY <2>14 DEF TRefuse, TAccept, TTake
    <3> QED BY <1>2, <2>2, <3>1
  <2> QED BY <1>5, <2>3, <2>4, <2>6, <2>7, <2>8, <2>10, <2>11, <2>12, <2>13, <2>14
          DEF Kinds
<1> QED BY <1>1, <1>4, <1>5 DEF Step

\* A response goes to the peer whose request it answers, with that request's
\* id and question, for tables of every size: although slots are reused and
\* udp_new writes the peer's address before it knows whether there is a query.
THEOREM RightReplyHolds == Spec => []RightReply
<1>1. Init => Shape /\ Answers
  <2> SUFFICES ASSUME Init PROVE Answers
    BY ShapeInit
  <2> QED BY DEF Init, Answers, NoReply
<1>2. Shape /\ Answers /\ [Next]_vars => (Shape /\ Answers)'
  BY ShapeNext, AnswersNext
<1>3. Answers => RightReply
  BY DEF Answers, RightReply, Match
<1> QED BY <1>1, <1>2, <1>3, PTL DEF Spec

-----------------------------------------------------------------------------
(* Every slot looks at its own entry of the array that poll fills.         *)

LEMMA BelowFacts ==
  ASSUME NEW S, S \subseteq Nat, IsFiniteSet(S), NEW j \in S
  PROVE  /\ Below(S, j) \in 0 .. Cardinality(S) - 1
         /\ \A i \in S : i < j => Below(S, i) < Below(S, j)
<1> DEFINE B(i) == {k \in S : k < i}
<1>1. \A i : IsFiniteSet(B(i)) /\ Cardinality(B(i)) \in Nat
  <2>1. \A i : B(i) \subseteq S
    OBVIOUS
  <2> QED BY <2>1, FS_Subset, FS_CardinalityType
<1>2. \A i : Below(S, i) = Cardinality(B(i))
  BY DEF Below
<1>3. ASSUME NEW i \in S, NEW T, IsFiniteSet(T), B(i) \cup {i} \subseteq T
      PROVE  Cardinality(B(i)) < Cardinality(T)
  <2>1. i \notin B(i)
    OBVIOUS
  <2>2. Cardinality(B(i) \cup {i}) = Cardinality(B(i)) + 1
    BY <1>1, <2>1, FS_AddElement
  <2>3. Cardinality(B(i) \cup {i}) <= Cardinality(T) /\ Cardinality(T) \in Nat
    BY <1>3, FS_Subset, FS_CardinalityType
  <2> HIDE DEF B
  <2> QED BY <1>1, <2>2, <2>3
<1>4. Cardinality(B(j)) < Cardinality(S) /\ Cardinality(S) \in Nat
  <2>1. B(j) \cup {j} \subseteq S
    OBVIOUS
  <2> HIDE DEF B
  <2> QED BY <1>3, <2>1, FS_CardinalityType
<1>5. ASSUME NEW i \in S, i < j
      PROVE  Cardinality(B(i)) < Cardinality(B(j))
  <2>1. B(i) \cup {i} \subseteq B(j)
    <3>1. SUFFICES ASSUME NEW k \in B(i) \cup {i} PROVE k \in B(j)
      OBVIOUS
    <3>2. i \in Nat /\ j \in Nat /\ k \in S /\ k \in Nat
      OBVIOUS
    <3>3. k < i \/ k = i
      OBVIOUS
    <3>4. k < j
      BY <1>5, <3>2, <3>3
    <3> QED BY <3>2, <3>4
  <2> HIDE DEF B
  <2> QED BY <1>1, <1>3, <2>1
<1> HIDE DEF B
<1> QED BY <1>1, <1>2, <1>4, <1>5

LEMMA NthBelow ==
  ASSUME NEW S, S \subseteq Nat, IsFiniteSet(S), NEW j \in S, NEW b, b = Below(S, j)
  PROVE  b \in 0 .. Cardinality(S) - 1 /\ Nth(S, b + 1) = j
<1>1. \A i \in S : Below(S, i) \in Nat
  <2>1. \A i \in S : Below(S, i) \in 0 .. Cardinality(S) - 1
    BY BelowFacts
  <2> QED BY <2>1
<1>2. b \in 0 .. Cardinality(S) - 1
  BY BelowFacts
<1>3. \A i \in S : Below(S, i) = b => i = j
  <2>1. SUFFICES ASSUME NEW i \in S, Below(S, i) = b PROVE i = j
    OBVIOUS
  <2>2. ~(i < j)
    <3>1. i < j => Below(S, i) < Below(S, j)
      BY BelowFacts
    <3> QED BY <1>1, <2>1, <3>1
  <2>3. ~(j < i)
    <3>1. j < i => Below(S, j) < Below(S, i)
      BY BelowFacts
    <3> QED BY <1>1, <2>1, <3>1
  <2> QED BY <2>2, <2>3
<1>4. (b + 1) - 1 = b
  BY <1>1
<1>5. Nth(S, b + 1) = CHOOSE i \in S : Below(S, i) = b
  BY <1>4 DEF Nth
<1> QED BY <1>2, <1>3, <1>5

\* The three parts of the array.
LEMMA Concatenated ==
  ASSUME NEW V, NEW a \in Seq(V), NEW b \in Seq(V), NEW c \in Seq(V),
         NEW e, e = a \o b \o c
  PROVE  /\ \A i \in 1 .. Len(b) : e[Len(a) + i] = b[i]
         /\ \A i \in 1 .. Len(c) : e[Len(a) + Len(b) + i] = c[i]
<1>1. PICK d : d = a \o b
  OBVIOUS
<1>2. d \in Seq(V) /\ Len(d) = Len(a) + Len(b)
  BY <1>1
<1>3. \A i \in 1 .. Len(b) : d[Len(a) + i] = b[i]
  BY <1>1
<1>4. e = d \o c
  BY <1>1
<1>5. \A i \in 1 .. Len(d) : e[i] = d[i]
  BY <1>2, <1>4
<1>6. \A i \in 1 .. Len(c) : e[Len(d) + i] = c[i]
  BY <1>2, <1>4
<1>7. \A i \in 1 .. Len(b) : Len(a) + i \in 1 .. Len(d)
  BY <1>2
<1> QED BY <1>2, <1>3, <1>5, <1>6, <1>7

LEMMA FunctionSeq ==
  ASSUME NEW V, NEW m \in Nat, NEW b \in [1 .. m -> V]
  PROVE  b \in Seq(V) /\ Len(b) = m
OBVIOUS

LEMMA OwnEntries ==
  ASSUME Shape
  PROVE  /\ \A j \in Busy(u) : Entries[3 + Below(Busy(u), j)] = <<"udp", j>>
         /\ \A j \in Busy(t) : Entries[3 + Cardinality(Busy(u)) + Below(Busy(t), j)]
                                 = <<"tcp", j>>
<1>1. PICK S : S = Busy(u)
  OBVIOUS
<1>2. PICK T : T = Busy(t)
  OBVIOUS
<1>3. S \subseteq Nat /\ IsFiniteSet(S) /\ T \subseteq Nat /\ IsFiniteSet(T)
  <2>1. S \subseteq UDP /\ T \subseteq TCP
    BY <1>1, <1>2 DEF Busy, Shape
  <2> QED BY <2>1, Tables, FS_Subset
<1>4. PICK m : m \in Nat /\ m = Cardinality(S)
  BY <1>3, FS_CardinalityType
<1>5. PICK n : n \in Nat /\ n = Cardinality(T)
  BY <1>3, FS_CardinalityType
<1> DEFINE V == {<<"udp53", 0>>, <<"tcp53", 0>>}
                  \cup {<<"udp", Nth(S, i)>> : i \in 1 .. m}
                  \cup {<<"tcp", Nth(T, i)>> : i \in 1 .. n}
           a == <<<<"udp53", 0>>, <<"tcp53", 0>>>>
           b == [i \in 1 .. m |-> <<"udp", Nth(S, i)>>]
           c == [i \in 1 .. n |-> <<"tcp", Nth(T, i)>>]
<1>6. a \in Seq(V) /\ Len(a) = 2
  OBVIOUS
<1>7. b \in [1 .. m -> V] /\ \A i \in 1 .. m : b[i] = <<"udp", Nth(S, i)>>
  OBVIOUS
<1>8. c \in [1 .. n -> V] /\ \A i \in 1 .. n : c[i] = <<"tcp", Nth(T, i)>>
  OBVIOUS
<1>9. Entries = a \o b \o c
  BY <1>1, <1>2, <1>4, <1>5 DEF Entries
<1> HIDE DEF V, a, b, c
<1>10. /\ \A i \in 1 .. m : Entries[2 + i] = b[i]
       /\ \A i \in 1 .. n : Entries[2 + m + i] = c[i]
  <2>1. b \in Seq(V) /\ Len(b) = m /\ c \in Seq(V) /\ Len(c) = n
    BY <1>4, <1>5, <1>7, <1>8, FunctionSeq
  <2>2. a \in Seq(V)
    BY <1>6
  <2>3. /\ \A i \in 1 .. Len(b) : Entries[Len(a) + i] = b[i]
        /\ \A i \in 1 .. Len(c) : Entries[Len(a) + Len(b) + i] = c[i]
    <3>1. b \in Seq(V) /\ c \in Seq(V)
      BY <2>1
    <3>2. PICK e : e = a \o b \o c
      OBVIOUS
    <3>3. /\ \A i \in 1 .. Len(b) : e[Len(a) + i] = b[i]
          /\ \A i \in 1 .. Len(c) : e[Len(a) + Len(b) + i] = c[i]
      BY <2>2, <3>1, <3>2, Concatenated
    <3> QED BY <1>9, <3>2, <3>3
  <2> QED BY <1>6, <2>1, <2>3
<1>11. ASSUME NEW j \in S
       PROVE  Entries[3 + Below(S, j)] = <<"udp", j>>
  <2>1. PICK k : k = Below(S, j)
    OBVIOUS
  <2>2. k \in 0 .. Cardinality(S) - 1 /\ Nth(S, k + 1) = j
    BY <1>3, <2>1, NthBelow
  <2>3. k + 1 \in 1 .. m /\ 3 + k = 2 + (k + 1)
    BY <1>4, <2>2
  <2>4. Entries[2 + (k + 1)] = <<"udp", Nth(S, k + 1)>>
    BY <1>7, <1>10, <2>3
  <2> QED BY <2>1, <2>2, <2>3, <2>4
<1>12. ASSUME NEW j \in T
       PROVE  Entries[3 + m + Below(T, j)] = <<"tcp", j>>
  <2>1. PICK k : k = Below(T, j)
    OBVIOUS
  <2>2. k \in 0 .. Cardinality(T) - 1 /\ Nth(T, k + 1) = j
    BY <1>3, <2>1, NthBelow
  <2>3. k + 1 \in 1 .. n /\ 3 + m + k = 2 + m + (k + 1)
    BY <1>4, <1>5, <2>2
  <2>4. Entries[2 + m + (k + 1)] = <<"tcp", Nth(T, k + 1)>>
    BY <1>8, <1>10, <2>3
  <2> QED BY <2>1, <2>2, <2>3, <2>4
<1> QED BY <1>1, <1>2, <1>4, <1>11, <1>12

\* Where the loop comes from, and that the array is made at its head only.
LEMMA Flow ==
  ASSUME [Next]_vars
  PROVE  \/ Top
         \/ pc' \notin {"poll", "udp", "tcp"}
         \/ /\ pc \in {"poll", "udp", "tcp"} /\ io' = io
            /\ pc' \in {"poll", "udp"} => pc \in {"poll", "udp"}
<1>1. CASE \/ NoClient \/ Tick \/ ClientSends \/ ClientLeaves
           \/ \E now \in Times : \/ UdpRefused(now) \/ UdpQuery(now)
                                \/ TcpRefused(now) \/ TcpAccept(now)
           \/ UNCHANGED vars
  BY <1>1 DEF NoClient, Tick, ClientSends, ClientLeaves, UdpRefused,
              UdpQuery, TcpRefused, TcpAccept, Packet, Call, vars, loop
<1>2. CASE iopause
  BY <1>2 DEF iopause
<1>3. CASE UdpPass \/ udp_drop \/ udp_respond
  <2>1. pc = "udp" /\ UdpAdvance /\ io' = io
    BY <1>3 DEF UdpPass, udp_drop, udp_respond
  <2> QED BY <2>1 DEF UdpAdvance
<1>4. CASE \E j \in TCP : TcpPass(j) \/ TcpServe(j)
  <2>1. PICK j \in TCP : TcpPass(j) \/ TcpServe(j)
    BY <1>4
  <2>2. pc = "tcp" /\ TcpAdvance /\ io' = io
    BY <2>1 DEF TcpPass, TcpServe, TcpDrop, TcpRespond, TcpWrite, TcpBroken,
                TcpLengthHigh, TcpLengthLow, TcpByte, TcpBadRequest,
                TcpRequest, Reads, Served, Turn, ReadFrame
  <2> QED BY <2>2 DEF TcpAdvance
<1> QED BY <1>1, <1>2, <1>3, <1>4 DEF Next, nscache_run

LEMMA PollsNext ==
  ASSUME Shape, PollsOwn, [Next]_vars
  PROVE  PollsOwn'
<1>1. Step
  BY Steps
<1>2. CASE Top
  <2>1. DOMAIN u = UDP /\ DOMAIN t = TCP /\ DOMAIN u' = UDP /\ DOMAIN t' = TCP
        /\ io' = Entries
    BY <1>2 DEF Top, Shape
  <2>2. \A j \in UDP : /\ u'[j].active = u[j].active
                       /\ j \in Busy(u) => u'[j].io = 3 + Below(Busy(u), j)
    <3>1. SUFFICES ASSUME NEW j \in UDP
                   PROVE  /\ u'[j].active = u[j].active
                          /\ j \in Busy(u) => u'[j].io = 3 + Below(Busy(u), j)
      OBVIOUS
    <3>2. PICK b : b = 3 + Below(Busy(u), j)
      OBVIOUS
    <3>3. u[j] \in USlot /\ u'[j] = IF u[j].active # 0 THEN [u[j] EXCEPT !.io = b] ELSE u[j]
      BY <1>2, <3>2 DEF Top, Shape
    <3> QED BY <3>2, <3>3 DEF Busy, USlot
  <2>3. \A j \in TCP : /\ t'[j].active = t[j].active
                       /\ j \in Busy(t) => t'[j].io = 3 + Cardinality(Busy(u))
                                                        + Below(Busy(t), j)
    <3>1. SUFFICES ASSUME NEW j \in TCP
                   PROVE  /\ t'[j].active = t[j].active
                          /\ j \in Busy(t) => t'[j].io = 3 + Cardinality(Busy(u))
                                                           + Below(Busy(t), j)
      OBVIOUS
    <3>2. PICK b : b = 3 + Cardinality(Busy(u)) + Below(Busy(t), j)
      OBVIOUS
    <3>3. t[j] \in TSlot /\ t'[j] = IF t[j].active # 0 THEN [t[j] EXCEPT !.io = b] ELSE t[j]
      BY <1>2, <3>2 DEF Top, Shape
    <3> QED BY <3>2, <3>3 DEF Busy, TSlot
  <2>4. Busy(u)' = Busy(u) /\ Busy(t)' = Busy(t) /\ Busy(u) \subseteq UDP
        /\ Busy(t) \subseteq TCP
    BY <2>1, <2>2, <2>3 DEF Busy
  <2>5. \A j \in Busy(u)' : io'[u'[j].io] = <<"udp", j>>
    BY <2>1, <2>2, <2>4, OwnEntries
  <2>6. \A j \in Busy(t)' : io'[t'[j].io] = <<"tcp", j>>
    BY <2>1, <2>3, <2>4, OwnEntries
  <2> QED BY <2>5, <2>6 DEF PollsOwn
<1>3. CASE pc' \notin {"poll", "udp", "tcp"}
  BY <1>3 DEF PollsOwn
<1>4. CASE /\ pc \in {"poll", "udp", "tcp"} /\ io' = io
           /\ pc' \in {"poll", "udp"} => pc \in {"poll", "udp"}
  <2>1. SUFFICES /\ \A j \in Busy(u)' : j \in Busy(u) /\ u'[j].io = u[j].io
                 /\ \A j \in Busy(t)' : j \in Busy(t) /\ t'[j].io = t[j].io
    BY <1>4, <2>1 DEF PollsOwn
  <2>2. DOMAIN u = UDP /\ DOMAIN t = TCP /\ DOMAIN u' = UDP /\ DOMAIN t' = TCP
    BY ShapeNext DEF Shape
  <2>3. SUFFICES /\ \A i \in UDP : u'[i].active # 0 => u[i].active # 0 /\ u'[i].io = u[i].io
                 /\ \A i \in TCP : t'[i].active # 0 => t[i].active # 0 /\ t'[i].io = t[i].io
    BY <2>2 DEF Busy
  <2>4. CASE Quiet
    BY <1>4, <2>4 DEF Quiet, UStays, TStays
  <2>5. ASSUME NEW j, NEW y, Kinds(j, y)
        PROVE  /\ \A i \in UDP : u'[i].active # 0 => u[i].active # 0 /\ u'[i].io = u[i].io
               /\ \A i \in TCP : t'[i].active # 0 => t[i].active # 0 /\ t'[i].io = t[i].io
    <3>1. CASE UEnd(j, y)
      <4>1. USet(j, y) /\ y.active = 0
        BY <3>1 DEF UEnd, USet, Shape, USlot
      <4>2. u'[j] = y /\ t' = t /\ \A i \in UDP \ {j} : u'[i] = u[i]
        BY <4>1, OneSlot
      <4> QED BY <4>1, <4>2
    <3>2. CASE \/ TDrop(j, y) \/ TBreak(j, y) \/ TDeny(j, y)
               \/ TRespond(j, y) \/ TAnswer(j, y) \/ TBegin(j, y)
      <4>1. TSet(j, y) /\ t[j].active # 0 /\ (y.active # 0 => y.io = t[j].io)
        BY <3>2 DEF TDrop, TBreak, TDeny, TClose, TRespond, TAnswer, TReply, TBegin
      <4>2. t'[j] = y /\ u' = u /\ \A i \in TCP \ {j} : t'[i] = t[i]
        BY <4>1, OneSlot
      <4> QED BY <4>1, <4>2
    <3>3. CASE \/ URefuse(j, y) \/ UAnswer(j, y) \/ UBegin(j, y)
               \/ TRefuse(j, y) \/ TAccept(j, y)
      BY <1>4, <3>3 DEF URefuse, UAnswer, UBegin, UTake, TRefuse, TAccept, TTake
    <3> QED BY <2>5, <3>1, <3>2, <3>3 DEF Kinds
  <2> QED BY <1>1, <2>4, <2>5 DEF Step
<1> QED BY <1>2, <1>3, <1>4, Flow

\* From poll to the end of the loops over the tables the entry of the array
\* that an active slot remembers is its own, for tables of every size: no
\* slot that became active after the array was made is looked at.
THEOREM PollsOwnHolds == Spec => []PollsOwn
<1>1. Init => Shape /\ PollsOwn
  <2> SUFFICES ASSUME Init PROVE PollsOwn
    BY ShapeInit
  <2> QED BY DEF Init, PollsOwn
<1>2. Shape /\ PollsOwn /\ [Next]_vars => (Shape /\ PollsOwn)'
  BY ShapeNext, PollsNext
<1> QED BY <1>1, <1>2, PTL DEF Spec
=============================================================================
