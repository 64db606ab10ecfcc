---------------------------- MODULE QueryProofs -----------------------------
(***************************************************************************)
(* What is proved about the resolution of a question for all trees of      *)
(* names, all packets and all limits: it sends no more than 2 * MAXLOOP    *)
(* queries, no table is left, referrals go down, the aliases lead from the *)
(* question to the name resolved, servers are asked only for their zone    *)
(* and are believed only about names in it.                                *)
(***************************************************************************)
EXTENDS Query, FiniteSetTheorems, WellFoundedInduction, TLAPS

\* The counters at each label.  query_run comes to have_ns only after it has
\* counted a name or a packet, or given up a level, which leaves room for one
\* more level or one more transmission; and to lower_level only from a level
\* above 0.
Counters ==
  /\ pc \in {"new_name", "have_ns", "lower_level", "serv_fail", "wait", "done"}
  /\ level \in Levels /\ loop \in Nat /\ sent \in Nat
  /\ loop <= MAXLOOP /\ (pc # "done" => loop < MAXLOOP)
  /\ sent + level <= 2 * loop
  /\ pc = "have_ns" => sent + level < 2 * loop
  /\ pc = "lower_level" => level > 0

\* What the ways to end a block do to the counters.
LEMMA LowerEffect ==
  Lower => pc' = "lower_level" /\ level > 0 /\ level' = level
BY DEF Lower

LEMMA RespondEffect ==
  ASSUME NEW r, Respond(r)
  PROVE  pc' = "done" /\ level' = level
BY DEF Respond, query_aliases, die

LEMMA FollowEffect ==
  ASSUME NEW c, FollowAlias(c)
  PROVE  pc' \in {"done", "new_name"} /\ level' = level
BY DEF FollowAlias, die

\* A name or a packet is counted, and with it two units of work are won.
LEMMA Wins ==
  ASSUME Counters, pc # "done", loop' = loop + 1, sent' = sent, level' = level,
         pc' \in {"new_name", "have_ns", "lower_level", "done"},
         pc' = "lower_level" => level > 0,
         pc' # "done" => loop + 1 # MAXLOOP
  PROVE  Counters'
BY LimitsAssumption DEF Counters, Levels

LEMMA NewNameCounts ==
  ASSUME Counters, new_name
  PROVE  Counters'
<1>1. pc # "done" /\ loop' = loop + 1 /\ sent' = sent
  BY DEF new_name, NewNameLoops, NewNameFixed, CachedNxdomain, CachedCname,
         CachedAnswer, NearestZone, NewNameNoMemory, NoZone, LookUp, NewName,
         NewNameFrame
<1>2. CASE NewNameLoops
  BY <1>1, <1>2, Wins DEF NewNameLoops, die
<1>3. CASE NewNameFixed
  <2>1. loop + 1 # MAXLOOP /\ (Lower \/ Respond(0))
    BY <1>3 DEF NewNameFixed
  <2>2. QED
    BY <1>1, <2>1, LowerEffect, RespondEffect, Wins
<1>4. CASE CachedNxdomain
  <2>1. loop + 1 # MAXLOOP /\ (Lower \/ Respond(3))
    BY <1>4 DEF CachedNxdomain, LookUp
  <2>2. QED
    BY <1>1, <2>1, LowerEffect, RespondEffect, Wins
<1>5. CASE CachedCname
  <2>1. loop + 1 # MAXLOOP /\ (Respond(0) \/ \E c : FollowAlias(c))
    BY <1>5 DEF CachedCname, LookUp
  <2>2. QED
    BY <1>1, <2>1, RespondEffect, FollowEffect, Wins
<1>6. CASE CachedAnswer
  <2>1. loop + 1 # MAXLOOP /\ (Lower \/ Respond(0))
    BY <1>6 DEF CachedAnswer, LookUp
  <2>2. QED
    BY <1>1, <2>1, LowerEffect, RespondEffect, Wins
<1>7. CASE NearestZone
  <2>1. loop + 1 # MAXLOOP /\ pc' = "have_ns" /\ level' = level
    BY <1>7 DEF NearestZone, LookUp
  <2>2. QED
    BY <1>1, <2>1, Wins
<1>8. CASE NewNameNoMemory \/ NoZone
  <2>1. pc' = "done" /\ level' = level
    BY <1>8 DEF NewNameNoMemory, NoZone, die
  <2>2. QED
    BY <1>1, <2>1, Wins
<1>9. QED
  BY <1>2, <1>3, <1>4, <1>5, <1>6, <1>7, <1>8 DEF new_name

LEMMA PacketCounts ==
  ASSUME Counters, have_packet
  PROVE  Counters'
<1>1. CASE PacketLoops
  <2>1. /\ pc # "done" /\ loop' = loop + 1 /\ sent' = sent
        /\ pc' = "done" /\ level' = level
    BY <1>1 DEF PacketLoops, HavePacket, die
  <2>2. QED
    BY <2>1, Wins
<1>2. ASSUME NEW s \in Slots, NEW p \in Packets,
             \/ PacketLame(s, p) \/ PacketBroken(s, p) \/ PacketAlias(s, p)
             \/ PacketNxdomain(s, p) \/ PacketAnswer(s, p) \/ PacketReferral(s, p)
      PROVE  Counters'
  <2>1. /\ pc # "done" /\ loop' = loop + 1 /\ sent' = sent
        /\ loop + 1 # MAXLOOP
    BY <1>2 DEF PacketLame, PacketBroken, PacketAlias, PacketNxdomain,
                PacketAnswer, PacketReferral, Tells, HavePacket
  <2>2. CASE PacketLame(s, p) \/ PacketReferral(s, p)
    <3>1. pc' = "have_ns" /\ level' = level
      BY <2>2 DEF PacketLame, PacketReferral
    <3>2. QED
      BY <2>1, <3>1, Wins
  <2>3. CASE PacketBroken(s, p)
    <3>1. pc' = "done" /\ level' = level
      BY <2>3 DEF PacketBroken, die
    <3>2. QED
      BY <2>1, <3>1, Wins
  <2>4. CASE PacketAlias(s, p)
    <3>1. FollowAlias(p.cname)
      BY <2>4 DEF PacketAlias
    <3>2. QED
      BY <2>1, <3>1, FollowEffect, Wins
  <2>5. CASE PacketNxdomain(s, p)
    <3>1. Lower \/ Respond(3)
      BY <2>5 DEF PacketNxdomain
    <3>2. QED
      BY <2>1, <3>1, LowerEffect, RespondEffect, Wins
  <2>6. CASE PacketAnswer(s, p)
    <3>1. Lower \/ Respond(0)
      BY <2>6 DEF PacketAnswer
    <3>2. QED
      BY <2>1, <3>1, LowerEffect, RespondEffect, Wins
  <2>7. QED
    BY <1>2, <2>2, <2>3, <2>4, <2>5, <2>6
<1>3. QED
  BY <1>1, <1>2 DEF have_packet

\* have_ns spends the room it has on a level or on a transmission.
LEMMA HaveNsCounts ==
  ASSUME Counters, have_ns
  PROVE  Counters'
<1>1. pc = "have_ns" /\ loop' = loop
  BY DEF have_ns, GlueLevel, TooDeep, Transmit, NoServer, HaveNsFails, HaveNs,
         HaveNsFrame
<1>2. CASE GlueLevel
  <2>1. pc' = "new_name" /\ level' = level + 1 /\ level + 1 < MAXLEVEL /\ sent' = sent
    BY <1>2 DEF GlueLevel
  <2>2. QED
    BY <1>1, <2>1, LimitsAssumption DEF Counters, Levels
<1>3. CASE TooDeep
  <2>1. pc' = pc /\ level' = level /\ sent' = sent
    BY <1>3 DEF TooDeep
  <2>2. QED
    BY <1>1, <2>1 DEF Counters
<1>4. CASE Transmit
  <2>1. pc' = "wait" /\ level' = level /\ sent' = sent + 1
    BY <1>4 DEF Transmit
  <2>2. QED
    BY <1>1, <2>1, LimitsAssumption DEF Counters, Levels
<1>5. CASE NoServer
  <2>1. pc' = "serv_fail" /\ level' = level /\ sent' = sent
    BY <1>5 DEF NoServer
  <2>2. QED
    BY <1>1, <2>1 DEF Counters
<1>6. CASE HaveNsFails
  <2>1. pc' = "done" /\ level' = level /\ sent' = sent
    BY <1>6 DEF HaveNsFails, die
  <2>2. QED
    BY <1>1, <2>1 DEF Counters
<1>7. QED
  BY <1>2, <1>3, <1>4, <1>5, <1>6 DEF have_ns

\* A failure gives a level up or ends the question.
LEMMA FailureCounts ==
  ASSUME Counters, lower_level \/ serv_fail \/ TransmitFails
  PROVE  Counters'
<1>1. CASE lower_level
  <2>1. /\ pc = "lower_level" /\ pc' = "have_ns" /\ level' = level - 1
        /\ sent' = sent /\ loop' = loop
    BY <1>1 DEF lower_level, HaveNsFrame
  <2>2. QED
    BY <2>1, LimitsAssumption DEF Counters, Levels
<1>2. CASE serv_fail
  <2>1. /\ pc = "serv_fail" /\ loop' = loop /\ sent' = sent
        /\ Lower \/ Respond(2)
    BY <1>2 DEF serv_fail
  <2>2. QED
    BY <2>1, LowerEffect, RespondEffect DEF Counters
<1>3. CASE TransmitFails
  <2>1. pc = "wait" /\ pc' = "serv_fail" /\ level' = level /\ sent' = sent /\ loop' = loop
    BY <1>3 DEF TransmitFails
  <2>2. QED
    BY <2>1 DEF Counters
<1>4. QED
  BY <1>1, <1>2, <1>3

LEMMA CountersHold ==
  ASSUME Counters, [Next]_vars
  PROVE  Counters'
<1>1. CASE query_run
  BY <1>1, NewNameCounts, HaveNsCounts, FailureCounts, PacketCounts DEF query_run
<1>2. CASE query_start
  <2>1. pc' = "new_name" /\ level' = 0 /\ loop' = 0 /\ sent' = 0
    BY <1>2 DEF query_start
  <2>2. QED
    BY <2>1, LimitsAssumption DEF Counters, Levels
<1>3. CASE StartFails
  <2>1. pc' = "done" /\ level' = 0 /\ loop' = 0 /\ sent' = 0
    BY <1>3 DEF StartFails, die
  <2>2. QED
    BY <2>1, LimitsAssumption DEF Counters, Levels
<1>4. CASE OtherQuery
  BY <1>4 DEF OtherQuery, Counters
<1>5. CASE UNCHANGED vars
  BY <1>5 DEF vars, Counters
<1>6. QED
  BY <1>1, <1>2, <1>3, <1>4, <1>5 DEF Next

\* The bound on the work done for one question, for every MAXLOOP, MAXLEVEL
\* and MAXNS and whatever servers and cache say: query_run never calls
\* dns_transmit_start more than 2 * MAXLOOP times.
THEOREM WorkBoundHolds == Spec => []WorkBound
<1>1. Init => Counters
  BY LimitsAssumption DEF Init, Counters, Levels
<1>2. Counters => WorkBound
  BY DEF Counters, WorkBound
<1>3. QED
  BY <1>1, <1>2, CountersHold, PTL DEF Spec

-----------------------------------------------------------------------------
(* Types: what the tables hold, and that they are not left.                *)

Server == [ip : Nat, zone : Names \cup {NoName}]
Rows == [Levels -> [Slots -> Server]]

\* The tables of the zones and their servers, and the cache.
Tables ==
  /\ control \in [Levels -> Names \cup {NoName}]
  /\ servers \in Rows
  /\ \A e \in cache : IsRecord(e)

\* The names.  A query waits only when all its servers' names are used up.
NamesOK ==
  /\ name \in [Levels -> Names \cup {NoName}]
  /\ ns \in [Levels -> Seq(Names)]
  /\ \A l \in Levels : Len(ns[l]) <= MAXNS
  /\ alias \in Seq(Names) /\ Len(alias) <= MAXALIAS
  /\ Running => \A l \in 0 .. level : name[l] \in Names
  /\ pc = "wait" => ns[level] = <<>>

Typed == Counters /\ Tables /\ NamesOK

\* Filling a row leaves what is there, and takes the zone for what is new.
LEMMA FillRow ==
  ASSUME NEW row \in [Slots -> Server], NEW ips \in Seq(Nat),
         NEW z \in Names \cup {NoName}
  PROVE  /\ Fill(row, ips, z) \in [Slots -> Server]
         /\ \A i \in Slots : \/ Fill(row, ips, z)[i] = row[i]
                             \/ row[i].ip = 0 /\ Fill(row, ips, z)[i].zone = z
<1> DEFINE K(i) == {h \in 1 .. i : row[h].ip = 0}
           F(i) == IF row[i].ip = 0 /\ Cardinality(K(i)) <= Len(ips)
                     THEN [ip |-> ips[Cardinality(K(i))], zone |-> z] ELSE row[i]
<1>1. Fill(row, ips, z) = [i \in Slots |-> F(i)]
  BY DEF Fill
<1>2. ASSUME NEW i \in Slots
      PROVE  /\ F(i) \in Server
             /\ F(i) = row[i] \/ (row[i].ip = 0 /\ F(i).zone = z)
  <2> DEFINE k == Cardinality(K(i))
  <2>1. CASE ~(row[i].ip = 0 /\ k <= Len(ips))
    BY <2>1
  <2>2. CASE row[i].ip = 0 /\ k <= Len(ips)
    <3>1. i \in Nat /\ 1 <= i
      BY LimitsAssumption DEF Slots
    <3>2. i \in K(i)
      BY <2>2, <3>1
    <3>3. IsFiniteSet(K(i))
      BY <3>1, FS_Interval, FS_Subset
    <3>4. k \in Nat /\ k # 0
      BY <3>2, <3>3, FS_CardinalityType, FS_EmptySet
    <3> HIDE DEF k
    <3>5. ips[k] \in Nat
      BY <2>2, <3>4
    <3>6. F(i) = [ip |-> ips[k], zone |-> z]
      BY <2>2 DEF k
    <3> HIDE DEF F
    <3>7. QED
      BY <2>2, <3>5, <3>6 DEF Server
  <2>3. QED
    BY <2>1, <2>2
<1> HIDE DEF F
<1>3. QED
  BY <1>1, <1>2

LEMMA EmptyRow == NoServers \in [Slots -> Server] /\ \A i \in Slots : NoServers[i].ip = 0
BY DEF NoServers, Empty, Server

LEMMA RootRowOK ==
  ASSUME NEW z \in Roots
  PROVE  /\ RootRow(z) \in [Slots -> Server]
         /\ \A i \in Slots : RootRow(z)[i].ip # 0 => RootRow(z)[i].zone = z
<1>1. RootServers[z] \in Seq(Nat) /\ z \in Names
  BY NamesAssumption
<1>2. QED
  BY <1>1, EmptyRow, FillRow DEF RootRow

\* How a step changes the row of one level: not at all, to an empty row or a
\* configured one, by a server that leaves, or on the level below by what was
\* learned.
RowStep ==
  \/ servers' = servers
  \/ servers' = [servers EXCEPT ![level] = NoServers]
  \/ \E z \in Roots : servers' = [servers EXCEPT ![level] = RootRow(z)]
  \/ \E s \in Slots : servers' = [servers EXCEPT ![level][s] = Empty]
  \/ level > 0 /\ \E ips \in Seq(Nat) : Learn(ips)

LEMMA RowStepTyped ==
  ASSUME Counters, Tables, RowStep
  PROVE  servers' \in Rows
<1>1. level \in Levels /\ servers \in Rows /\ control \in [Levels -> Names \cup {NoName}]
  BY DEF Counters, Tables
<1>2. CASE servers' = servers \/ servers' = [servers EXCEPT ![level] = NoServers]
  BY <1>1, <1>2, EmptyRow DEF Rows
<1>3. ASSUME NEW z \in Roots, servers' = [servers EXCEPT ![level] = RootRow(z)]
      PROVE  servers' \in Rows
  BY <1>1, <1>3, RootRowOK DEF Rows
<1>4. ASSUME NEW s \in Slots, servers' = [servers EXCEPT ![level][s] = Empty]
      PROVE  servers' \in Rows
  BY <1>1, <1>4 DEF Rows, Empty, Server
<1>5. ASSUME level > 0, NEW ips \in Seq(Nat), Learn(ips)
      PROVE  servers' \in Rows
  <2>1. level - 1 \in Levels
    BY <1>1, <1>5, LimitsAssumption DEF Levels
  <2>2. servers[level - 1] \in [Slots -> Server] /\ control[level - 1] \in Names \cup {NoName}
    BY <1>1, <2>1 DEF Rows
  <2>3. Fill(servers[level - 1], ips, control[level - 1]) \in [Slots -> Server]
    BY <2>2, FillRow
  <2>4. servers' = [servers EXCEPT ![level - 1] = Fill(servers[level - 1], ips, control[level - 1])]
    BY <1>5 DEF Learn
  <2>5. QED
    BY <1>1, <2>1, <2>3, <2>4 DEF Rows
<1>6. QED
  BY <1>2, <1>3, <1>4, <1>5 DEF RowStep

\* What a step stores: nothing, what another query stores, or some of a set
\* of records that the server in one slot of the row may tell.
Tellable(r) ==
  /\ IsRecord(r)
  /\ \/ dns_domain_suffix(r.name, control[level]) /\ roots_same(r.name, control[level])
     \/ r.name = name[level]

CacheStep ==
  \/ cache' = cache
  \/ \E s \in Slots : /\ pc = "wait" /\ servers[level][s].ip # 0
                      /\ \E S : (\A r \in S : Tellable(r)) /\ Store(S, s)
  \/ \E f \in Foreign :
       cache' = {e \in cache : e.type # f.type \/ e.name # f.name} \cup {f}

\* Every entry was there or is a record of the set, with the server's zone.
LEMMA StoreNew ==
  ASSUME NEW S, NEW s, Store(S, s)
  PROVE  \A e \in cache' : \/ e \in cache
                           \/ \E r \in S : /\ e.type = r.type /\ e.name = r.name
                                           /\ e.data = r.data
                                           /\ e.zone = servers[level][s].zone
BY DEF Store

LEMMA CacheStepTyped ==
  ASSUME Tables, CacheStep
  PROVE  \A e \in cache' : IsRecord(e)
<1>1. \A e \in cache : IsRecord(e)
  BY DEF Tables
<1>2. CASE cache' = cache
  BY <1>1, <1>2
<1>3. ASSUME NEW s \in Slots, NEW S, \A r \in S : Tellable(r), Store(S, s)
      PROVE  \A e \in cache' : IsRecord(e)
  <2>1. ASSUME NEW r, Tellable(r), NEW e, e.type = r.type, e.name = r.name, e.data = r.data
        PROVE  IsRecord(e)
    BY <2>1 DEF Tellable, IsRecord
  <2>2. QED
    BY <1>1, <1>3, <2>1, StoreNew
<1>4. ASSUME NEW f \in Foreign,
             cache' = {e \in cache : e.type # f.type \/ e.name # f.name} \cup {f}
      PROVE  \A e \in cache' : IsRecord(e)
  BY <1>1, <1>4, ForeignAssumption
<1>5. QED
  BY <1>2, <1>3, <1>4 DEF CacheStep

\* The records of a packet.
LEMMA RecordsOK ==
  ASSUME NEW p \in Packets, name[level] \in Names
  PROVE  \A r \in Records(p) : IsRecord(r)
<1>1. /\ p.ips \in Seq(Nat) /\ p.ns \in Seq(Names)
      /\ p.cname \in Names \cup {NoName} /\ p.referral \in Names \cup {NoName}
      /\ \A r \in p.extra : IsRecord(r)
  BY PacketsAssumption
<1>2. ASSUME NEW ty, NEW n \in Names, NEW data,
             data \in IF ty \in {"CNAME", "NS"} THEN Seq(Names) ELSE Seq(Nat),
             ty = "CNAME" => data # <<>>
      PROVE  IsRecord(Record(ty, n, data))
  BY <1>2 DEF IsRecord, Record
<1>3. dtype # "CNAME" => IsRecord(Record(dtype, name[level], IF dtype = "NS" THEN p.ns ELSE p.ips))
  <2>1. PICK d : d = dtype
    OBVIOUS
  <2>2. d # "CNAME" => IsRecord(Record(d, name[level], IF d = "NS" THEN p.ns ELSE p.ips))
    BY <1>1, <1>2
  <2>3. QED
    BY <2>1, <2>2
<1>4. ASSUME NEW c \in Names PROVE IsRecord(Record("CNAME", name[level], <<c>>))
  <2>1. <<c>> \in Seq(Names) /\ <<c>> # <<>>
    OBVIOUS
  <2>2. QED
    BY <1>2, <2>1
<1>5. p.referral # NoName => IsRecord(Record("NS", p.referral, p.ns))
  BY <1>1, <1>2
<1>6. QED
  BY <1>1, <1>3, <1>4, <1>5 DEF Records

\* What the rest of query_run stores besides is about the name itself.
Own(S) == \A r \in S : IsRecord(r) /\ r.name = name[level]

LEMMA TellsStores ==
  ASSUME NEW s \in Slots, NEW p \in Packets, NEW S, Own(S), Tells(s, p, S),
         name[level] \in Names
  PROVE  CacheStep
<1>1. pc = "wait" /\ servers[level][s].ip # 0
  BY DEF Tells, HavePacket
<1> DEFINE T == {r \in Records(p) : r.type \notin {"ANY", "NX"} /\ InZone(r)} \cup S
<1>2. Store(T, s)
  BY DEF Tells
<1>3. \A r \in T : Tellable(r)
  BY RecordsOK DEF Tellable, InZone, Own
<1>4. QED
  BY <1>1, <1>2, <1>3 DEF CacheStep

LEMMA OwnNothing == Own({})
BY DEF Own

LEMMA OwnNx ==
  ASSUME name[level] \in Names
  PROVE  Own({Record("NX", name[level], <<>>)})
<1>1. IsRecord(Record("NX", name[level], <<>>)) /\ Record("NX", name[level], <<>>).name = name[level]
  BY DEF IsRecord, Record
<1>2. QED
  BY <1>1 DEF Own

LEMMA OwnNodata ==
  ASSUME NEW p, name[level] \in Names
  PROVE  Own(Nodata(p))
<1>1. ASSUME dtype # "CNAME" PROVE IsRecord(Record(dtype, name[level], <<>>))
  BY <1>1 DEF IsRecord, Record
<1>2. QED
  BY <1>1 DEF Own, Nodata, Record

\* The name that is being resolved is a name.
LEMMA NameThere ==
  ASSUME Typed, Running
  PROVE  level \in Levels /\ name[level] \in Names /\ level \in 0 .. level
BY LimitsAssumption DEF Typed, Counters, NamesOK, Levels

LEMMA CacheSteps ==
  ASSUME Typed, [Next]_vars
  PROVE  CacheStep
<1>1. CASE new_name
  BY <1>1 DEF new_name, NewNameLoops, NewNameFixed, CachedNxdomain, CachedCname,
              CachedAnswer, NearestZone, NewNameNoMemory, NoZone, NewNameFrame, CacheStep
<1>2. CASE have_ns
  BY <1>2 DEF have_ns, GlueLevel, TooDeep, Transmit, NoServer, HaveNsFails,
              HaveNsFrame, CacheStep
<1>3. CASE lower_level \/ serv_fail \/ TransmitFails \/ query_start \/ StartFails
           \/ UNCHANGED vars
  BY <1>3 DEF lower_level, serv_fail, TransmitFails, query_start, StartFails,
              HaveNsFrame, vars, CacheStep
<1>4. CASE OtherQuery
  BY <1>4 DEF OtherQuery, CacheStep
<1>5. CASE PacketLoops
  BY <1>5 DEF PacketLoops, CacheStep
<1>6. ASSUME NEW s \in Slots, NEW p \in Packets,
             \/ PacketLame(s, p) \/ PacketBroken(s, p) \/ PacketAlias(s, p)
             \/ PacketNxdomain(s, p) \/ PacketAnswer(s, p) \/ PacketReferral(s, p)
      PROVE  CacheStep
  <2>1. CASE PacketLame(s, p)
    BY <2>1 DEF PacketLame, CacheStep
  <2>2. CASE ~PacketLame(s, p)
    <3>1. Running
      BY <1>6, <2>2 DEF PacketBroken, PacketAlias, PacketNxdomain, PacketAnswer,
                   PacketReferral, Tells, HavePacket, Running
    <3>2. name[level] \in Names
      BY <3>1, NameThere
    <3>3. Tells(s, p, {}) \/ Tells(s, p, {Record("NX", name[level], <<>>)}) \/ Tells(s, p, Nodata(p))
      BY <1>6, <2>2 DEF PacketBroken, PacketAlias, PacketNxdomain, PacketAnswer, PacketReferral
    <3>4. QED
      BY <3>2, <3>3, OwnNothing, OwnNx, OwnNodata, TellsStores
  <2>3. QED
    BY <2>1, <2>2
<1>7. QED
  BY <1>1, <1>2, <1>3, <1>4, <1>5, <1>6 DEF Next, query_run, have_packet

\* A server at level 0 or above learns addresses, which are numbers.
LEMMA LearnedAreNumbers ==
  ASSUME Typed, LookUp, NEW e \in cache, typematch(e.type, dtype), level > 0
  PROVE  e.data \in Seq(Nat)
<1>1. e.type = "A"
  BY DEF typematch, dtype, Typed, Counters, Levels
<1>2. QED
  BY <1>1 DEF Typed, Tables, IsRecord

\* A step settles a zone on its level at most.
ControlStep == control' = control \/ \E z \in Names : control' = [control EXCEPT ![level] = z]

LEMMA ZoneAtIsName ==
  ASSUME Typed, Running, NEW k \in 1 .. Len(Path[name[level]]), ZoneAt(k)
  PROVE  ControlStep /\ Path[name[level]][k] \in Names
<1>1. name[level] \in Names
  BY NameThere
<1>2. Path[name[level]] \in Seq(Names)
  BY <1>1, NamesAssumption
<1>3. Path[name[level]][k] \in Names
  BY <1>2
<1>4. QED
  BY <1>3 DEF ZoneAt, ControlStep

LEMMA SuffixIsName ==
  ASSUME NEW n \in Names, NEW z, dns_domain_suffix(n, z)
  PROVE  z \in Names
<1>1. Path[n] \in Seq(Names)
  BY NamesAssumption
<1>2. QED
  BY <1>1 DEF dns_domain_suffix, Range

LEMMA NewNameTables ==
  ASSUME Typed, new_name
  PROVE  RowStep /\ ControlStep
<1>1. Running
  BY DEF Running, new_name, NewNameLoops, NewNameFixed, CachedNxdomain, CachedCname,
         CachedAnswer, NearestZone, NewNameNoMemory, NoZone, LookUp, NewName
<1>2. CASE NewNameLoops \/ CachedNxdomain \/ CachedCname \/ NoZone
  <2>1. servers' = servers /\ control' = control
    BY <1>2 DEF NewNameLoops, CachedNxdomain, CachedCname, NoZone, Lower, Respond, FollowAlias
  <2>2. QED
    BY <2>1 DEF RowStep, ControlStep
<1>3. CASE NewNameFixed
  <2>1. control' = control
    BY <1>3 DEF NewNameFixed, Lower, Respond
  <2>2. servers' = servers \/ (level > 0 /\ Learn(<<globalip(name[level])>>))
    BY <1>3 DEF NewNameFixed, Lower, Respond
  <2>3. <<globalip(name[level])>> \in Seq(Nat)
    <3>1. globalip(name[level]) \in Nat
      BY NamesAssumption DEF globalip
    <3>2. QED
      BY <3>1
  <2>4. QED
    BY <2>1, <2>2, <2>3 DEF RowStep, ControlStep
<1>4. CASE CachedAnswer
  <2>1. PICK e \in cache : /\ typematch(e.type, dtype)
                           /\ (Lower /\ Learn(e.data)) \/ Respond(0)
    BY <1>4 DEF CachedAnswer
  <2>2. LookUp
    BY <1>4 DEF CachedAnswer
  <2>3. CASE Lower /\ Learn(e.data)
    BY <2>1, <2>2, <2>3, LearnedAreNumbers DEF Lower, RowStep, ControlStep
  <2>4. CASE Respond(0)
    BY <2>4 DEF Respond, RowStep, ControlStep
  <2>5. QED
    BY <2>1, <2>3, <2>4
<1>5. CASE NearestZone
  <2>1. PICK k \in 1 .. Len(Path[name[level]]) :
          /\ ZoneAt(k)
          /\ \/ \E z \in Roots : servers' = [servers EXCEPT ![level] = RootRow(z)]
             \/ servers' = [servers EXCEPT ![level] = NoServers]
    BY <1>5 DEF NearestZone, ZoneCached
  <2>2. QED
    BY <1>1, <2>1, ZoneAtIsName DEF RowStep
<1>6. CASE NewNameNoMemory
  <2>1. CASE UNCHANGED <<control, servers>>
    BY <2>1 DEF RowStep, ControlStep
  <2>2. ASSUME NEW k \in 1 .. Len(Path[name[level]]), NEW e \in cache,
               ZoneAt(k), ZoneCached(Path[name[level]][k], e)
        PROVE  RowStep /\ ControlStep
    BY <1>1, <2>2, ZoneAtIsName DEF ZoneCached, RowStep
  <2>3. QED
    BY <1>6, <2>1, <2>2 DEF NewNameNoMemory
<1>7. QED
  BY <1>2, <1>3, <1>4, <1>5, <1>6 DEF new_name

LEMMA PacketTables ==
  ASSUME Typed, have_packet
  PROVE  RowStep /\ ControlStep
<1>1. CASE PacketLoops
  BY <1>1 DEF PacketLoops, RowStep, ControlStep
<1>2. ASSUME NEW s \in Slots, NEW p \in Packets,
             \/ PacketLame(s, p) \/ PacketBroken(s, p) \/ PacketAlias(s, p)
             \/ PacketNxdomain(s, p) \/ PacketAnswer(s, p) \/ PacketReferral(s, p)
      PROVE  RowStep /\ ControlStep
  <2>1. Running
    BY <1>2 DEF PacketLame, PacketBroken, PacketAlias, PacketNxdomain,
                PacketAnswer, PacketReferral, Tells, HavePacket, Running
  <2>2. name[level] \in Names
    BY <2>1, NameThere
  <2>3. p.ips \in Seq(Nat) /\ <<>> \in Seq(Nat)
    BY PacketsAssumption
  <2>4. dns_domain_suffix(name[level], p.referral) => p.referral \in Names
    BY <2>2, SuffixIsName
  <2>5. CASE PacketLame(s, p)
    BY <2>5 DEF PacketLame, RowStep, ControlStep
  <2>6. CASE PacketBroken(s, p)
    <3>1. CASE UNCHANGED <<control, servers>>
      BY <3>1 DEF RowStep, ControlStep
    <3>2. ASSUME level > 0, NEW i \in 1 .. Len(p.ips), Learn(SubSeq(p.ips, 1, i)),
                 UNCHANGED control
          PROVE  RowStep /\ ControlStep
      <4>1. SubSeq(p.ips, 1, i) \in Seq(Nat)
        BY <2>3
      <4>2. QED
        BY <3>2, <4>1 DEF RowStep, ControlStep
    <3>3. ASSUME dns_domain_suffix(name[level], p.referral),
                 control' = [control EXCEPT ![level] = p.referral],
                 servers' = [servers EXCEPT ![level] = NoServers]
          PROVE  RowStep /\ ControlStep
      BY <2>4, <3>3 DEF RowStep, ControlStep
    <3>4. QED
      BY <2>6, <3>1, <3>2, <3>3 DEF PacketBroken
  <2>7. CASE PacketAlias(s, p)
    BY <2>7 DEF PacketAlias, FollowAlias, RowStep, ControlStep
  <2>8. CASE PacketNxdomain(s, p)
    BY <2>8 DEF PacketNxdomain, Lower, Respond, RowStep, ControlStep
  <2>9. CASE PacketAnswer(s, p)
    BY <2>3, <2>9 DEF PacketAnswer, Lower, Respond, RowStep, ControlStep
  <2>10. CASE PacketReferral(s, p)
    BY <2>4, <2>10 DEF PacketReferral, Referral, RowStep, ControlStep
  <2>11. QED
    BY <1>2, <2>5, <2>6, <2>7, <2>8, <2>9, <2>10
<1>3. QED
  BY <1>1, <1>2 DEF have_packet

LEMMA TablesHold ==
  ASSUME Typed, [Next]_vars
  PROVE  Tables'
<1>1. RowStep /\ ControlStep
  <2>1. CASE new_name \/ have_packet
    BY <2>1, NewNameTables, PacketTables
  <2>2. CASE have_ns
    BY <2>2 DEF have_ns, GlueLevel, TooDeep, Transmit, NoServer, HaveNsFails,
                HaveNsFrame, RowStep, ControlStep
  <2>3. CASE lower_level \/ serv_fail \/ TransmitFails
    BY <2>3 DEF lower_level, serv_fail, TransmitFails, HaveNsFrame, Lower, Respond,
                RowStep, ControlStep
  <2>4. CASE query_start \/ StartFails \/ OtherQuery \/ UNCHANGED vars
    BY <2>4 DEF query_start, StartFails, OtherQuery, vars, RowStep, ControlStep
  <2>5. QED
    BY <2>1, <2>2, <2>3, <2>4 DEF Next, query_run
<1>2. control' \in [Levels -> Names \cup {NoName}]
  BY <1>1 DEF ControlStep, Typed, Tables, Counters
<1>3. QED
  BY <1>1, <1>2, RowStepTyped, CacheSteps, CacheStepTyped DEF Typed, Tables

-----------------------------------------------------------------------------
(* The kinds of steps: what query_run does, whatever block it is in.       *)

Answered == /\ Running
            /\ \E rcode : query_aliases(rcode)
            /\ UNCHANGED <<level, asked, links>>

Follows == /\ Running
           /\ \E c \in Names : FollowAlias(c) /\ pc' = "new_name"
           /\ UNCHANGED asked

Lowers == /\ Lower /\ pc \in {"new_name", "serv_fail", "wait"}
          /\ servers' = servers \/ \E ips \in Seq(Nat) : Learn(ips)
          /\ UNCHANGED <<asked, links>>

Moves ==
  \/ die \/ Answered \/ Follows \/ Lowers
  \/ NearestZone
  \/ GlueLevel \/ TooDeep \/ Transmit \/ NoServer
  \/ lower_level \/ TransmitFails \/ OtherQuery \/ query_start
  \/ \E s \in Slots, p \in Packets : PacketLame(s, p) \/ PacketReferral(s, p)
  \/ UNCHANGED vars

LEMMA RespondMoves ==
  ASSUME NEW r, Running, Respond(r), UNCHANGED <<asked, links>>
  PROVE  Moves
BY DEF Respond, Moves, Answered

LEMMA FollowMoves ==
  ASSUME NEW c \in Names, Running, FollowAlias(c), UNCHANGED asked
  PROVE  Moves
<1>1. CASE die
  BY <1>1 DEF Moves
<1>2. CASE pc' = "new_name"
  BY <1>2 DEF Moves, Follows
<1>3. QED
  BY <1>1, <1>2 DEF FollowAlias

LEMMA LowerMoves ==
  ASSUME Lower, pc \in {"new_name", "serv_fail", "wait"},
         servers' = servers \/ \E ips \in Seq(Nat) : Learn(ips),
         UNCHANGED <<asked, links>>
  PROVE  Moves
BY DEF Moves, Lowers

LEMMA NewNameMoves ==
  ASSUME Typed, new_name
  PROVE  Moves
<1>1. pc = "new_name" /\ Running /\ UNCHANGED asked
  BY DEF Running, new_name, NewNameLoops, NewNameFixed, CachedNxdomain, CachedCname,
         CachedAnswer, NearestZone, NewNameNoMemory, NoZone, LookUp, NewName, NewNameFrame
<1>2. name[level] \in Names
  BY <1>1, NameThere
<1>3. CASE NewNameLoops \/ NewNameNoMemory \/ NoZone \/ NearestZone
  BY <1>3 DEF NewNameLoops, NewNameNoMemory, NoZone, Moves
<1>4. CASE NewNameFixed
  <2>1. globalip(name[level]) \in Nat
    BY NamesAssumption DEF globalip
  <2>2. <<globalip(name[level])>> \in Seq(Nat)
    BY <2>1
  <2>3. UNCHANGED links
    BY <1>4 DEF NewNameFixed
  <2>4. \/ Respond(0)
        \/ Lower /\ (servers' = servers \/ Learn(<<globalip(name[level])>>))
    BY <1>4 DEF NewNameFixed
  <2>5. QED
    BY <1>1, <2>2, <2>3, <2>4, RespondMoves, LowerMoves
<1>5. CASE CachedNxdomain
  <2>1. UNCHANGED links /\ (Respond(3) \/ (Lower /\ servers' = servers))
    BY <1>5 DEF CachedNxdomain
  <2>2. QED
    BY <1>1, <2>1, RespondMoves, LowerMoves
<1>6. CASE CachedCname
  <2>1. PICK e \in Cached("CNAME") :
          (Respond(0) /\ UNCHANGED links) \/ FollowAlias(e.data[1])
    BY <1>6 DEF CachedCname
  <2>2. e \in cache /\ e.type = "CNAME"
    BY <2>1 DEF Cached
  <2>3. e.data \in Seq(Names) /\ e.data # <<>>
    BY <2>2 DEF Typed, Tables, IsRecord
  <2>4. e.data[1] \in Names
    BY <2>3
  <2>5. QED
    BY <1>1, <2>1, <2>4, RespondMoves, FollowMoves
<1>7. CASE CachedAnswer
  <2>1. PICK e \in cache : /\ typematch(e.type, dtype)
                           /\ (Lower /\ Learn(e.data)) \/ Respond(0)
    BY <1>7 DEF CachedAnswer
  <2>2. LookUp /\ UNCHANGED links
    BY <1>7 DEF CachedAnswer
  <2>3. Lower => e.data \in Seq(Nat)
    BY <2>1, <2>2, LearnedAreNumbers DEF Lower
  <2>4. QED
    BY <1>1, <2>1, <2>2, <2>3, RespondMoves, LowerMoves
<1>8. QED
  BY <1>3, <1>4, <1>5, <1>6, <1>7 DEF new_name

LEMMA PacketMoves ==
  ASSUME Typed, have_packet
  PROVE  Moves
<1>1. CASE PacketLoops
  BY <1>1 DEF PacketLoops, Moves
<1>2. ASSUME NEW s \in Slots, NEW p \in Packets,
             \/ PacketLame(s, p) \/ PacketBroken(s, p) \/ PacketAlias(s, p)
             \/ PacketNxdomain(s, p) \/ PacketAnswer(s, p) \/ PacketReferral(s, p)
      PROVE  Moves
  <2>1. pc = "wait" /\ Running /\ UNCHANGED asked
    BY <1>2 DEF PacketLame, PacketBroken, PacketAlias, PacketNxdomain,
                PacketAnswer, PacketReferral, Tells, HavePacket, Running
  <2>2. CASE PacketLame(s, p) \/ PacketBroken(s, p) \/ PacketReferral(s, p)
    BY <2>2 DEF PacketBroken, Moves
  <2>3. CASE PacketAlias(s, p)
    <3>1. p.cname \in Names
      BY <2>3, PacketsAssumption DEF PacketAlias, IsAlias
    <3>2. QED
      BY <2>1, <2>3, <3>1, FollowMoves DEF PacketAlias
  <2>4. CASE PacketNxdomain(s, p)
    <3>1. UNCHANGED links /\ (Respond(3) \/ (Lower /\ servers' = servers))
      BY <2>4 DEF PacketNxdomain
    <3>2. QED
      BY <2>1, <3>1, RespondMoves, LowerMoves
  <2>5. CASE PacketAnswer(s, p)
    <3>1. UNCHANGED links /\ (Respond(0) \/ (Lower /\ Learn(IF p.out THEN p.ips ELSE <<>>)))
      BY <2>5 DEF PacketAnswer
    <3>2. (IF p.out THEN p.ips ELSE <<>>) \in Seq(Nat)
      BY PacketsAssumption
    <3>3. QED
      BY <2>1, <3>1, <3>2, RespondMoves, LowerMoves
  <2>6. QED
    BY <1>2, <2>2, <2>3, <2>4, <2>5
<1>3. QED
  BY <1>1, <1>2 DEF have_packet

LEMMA AllMoves ==
  ASSUME Typed, [Next]_vars
  PROVE  Moves
<1>1. CASE new_name \/ have_packet
  BY <1>1, NewNameMoves, PacketMoves
<1>2. CASE have_ns
  BY <1>2 DEF have_ns, HaveNsFails, Moves
<1>3. CASE serv_fail
  <2>1. /\ pc = "serv_fail" /\ Running /\ UNCHANGED <<asked, links>>
        /\ Respond(2) \/ (Lower /\ servers' = servers)
    BY <1>3 DEF serv_fail, Running
  <2>2. QED
    BY <2>1, RespondMoves, LowerMoves
<1>4. CASE lower_level \/ TransmitFails \/ query_start \/ OtherQuery \/ UNCHANGED vars
  BY <1>4 DEF Moves
<1>5. CASE StartFails
  BY <1>5 DEF StartFails, Moves
<1>6. QED
  BY <1>1, <1>2, <1>3, <1>4, <1>5 DEF Next, query_run

\* The names of a row that is taken over fit.
LEMMA RoomFits ==
  ASSUME NEW list \in Seq(Names)
  PROVE  Room(list) \in Seq(Names) /\ Len(Room(list)) <= MAXNS
<1>1. Len(list) \in Nat /\ MAXNS \in Nat
  BY LimitsAssumption
<1>2. CASE Len(list) < MAXNS
  BY <1>1, <1>2 DEF Room
<1>3. CASE ~(Len(list) < MAXNS)
  BY <1>1, <1>3 DEF Room
<1>4. QED
  BY <1>2, <1>3

\* All names are given up.
LEMMA CleanNames ==
  ASSUME query_cleanup, pc' = "done"
  PROVE  NamesOK'
<1>1. /\ name' = [l \in Levels |-> NoName] /\ ns' = [l \in Levels |-> <<>>]
      /\ alias' = <<>> /\ ~Running'
  BY DEF query_cleanup, Running
<1>2. name' \in [Levels -> Names \cup {NoName}]
  BY <1>1
<1>3. ns' \in [Levels -> Seq(Names)] /\ \A l \in Levels : Len(ns'[l]) <= MAXNS
  BY <1>1, LimitsAssumption
<1>4. alias' \in Seq(Names) /\ Len(alias') <= MAXALIAS
  BY <1>1, LimitsAssumption
<1>5. QED
  BY <1>1, <1>2, <1>3, <1>4 DEF NamesOK

\* The names stay and the list of one level is replaced or not.
LEMMA SameNames ==
  ASSUME Typed, Running, UNCHANGED <<level, name, alias>>,
         \/ ns' = ns
         \/ \E list \in Seq(Names) : /\ Len(list) <= MAXNS
                                     /\ ns' = [ns EXCEPT ![level] = list],
         pc' = "wait" => ns'[level] = <<>>
  PROVE  NamesOK'
<1>1. level \in Levels /\ \A l \in 0 .. level : name[l] \in Names
  BY DEF Typed, Counters, NamesOK
<1>2. ns' \in [Levels -> Seq(Names)] /\ \A l \in Levels : Len(ns'[l]) <= MAXNS
  BY <1>1 DEF Typed, NamesOK
<1>3. QED
  BY <1>1, <1>2 DEF Typed, NamesOK

LEMMA NamesHold ==
  ASSUME Typed, Moves, Counters'
  PROVE  NamesOK'
<1> USE DEF Typed
<1>1. CASE die \/ Answered
  BY <1>1, CleanNames DEF die, Answered, query_aliases
<1>2. CASE Follows
  <2>1. PICK c \in Names : FollowAlias(c) /\ pc' = "new_name"
    BY <1>2 DEF Follows
  <2>2. /\ ~(level = 0 /\ Len(alias) = MAXALIAS)
        /\ alias' = IF level = 0 THEN <<name[0]>> \o alias ELSE alias
        /\ name' = [name EXCEPT ![level] = c]
        /\ ns' = ns /\ level' = level
    BY <2>1 DEF FollowAlias, die
  <2>3. level \in Levels /\ \A l \in 0 .. level : name[l] \in Names
    BY <1>2 DEF Follows, Counters, NamesOK
  <2>4. alias' \in Seq(Names) /\ Len(alias') <= MAXALIAS
    <3>1. alias \in Seq(Names) /\ Len(alias) <= MAXALIAS /\ MAXALIAS \in Nat
      BY LimitsAssumption DEF NamesOK
    <3>2. CASE level = 0
      <4>1. name[0] \in Names
        BY <2>3, <3>2
      <4>2. QED
        BY <2>2, <3>1, <3>2, <4>1
    <3>3. QED
      BY <2>2, <3>1, <3>2
  <2>5. name' \in [Levels -> Names \cup {NoName}] /\ \A l \in 0 .. level' : name'[l] \in Names
    BY <2>2, <2>3 DEF NamesOK, Levels
  <2>6. ns' \in [Levels -> Seq(Names)] /\ \A l \in Levels : Len(ns'[l]) <= MAXNS
    BY <2>2 DEF NamesOK
  <2>7. pc' # "wait"
    BY <2>1
  <2>8. QED
    BY <2>4, <2>5, <2>6, <2>7 DEF NamesOK
<1>3. CASE Lowers
  <2>1. /\ Running /\ UNCHANGED <<level, name, alias>> /\ ns' = ns /\ pc' # "wait"
    BY <1>3 DEF Lowers, Lower, Running
  <2>2. QED
    BY <2>1, SameNames
<1>4. CASE NearestZone
  <2>1. /\ Running /\ UNCHANGED <<level, name, alias>> /\ pc' # "wait"
    BY <1>4 DEF NearestZone, LookUp, NewName, Running
  <2>2. \E list \in Seq(Names) : Len(list) <= MAXNS /\ ns' = [ns EXCEPT ![level] = list]
    <3>1. <<>> \in Seq(Names) /\ Len(<<>>) <= MAXNS
      BY LimitsAssumption
    <3>2. CASE ns' = [ns EXCEPT ![level] = <<>>]
      BY <3>1, <3>2
    <3>3. ASSUME NEW e \in cache, e.type = "NS", ns' = [ns EXCEPT ![level] = Room(e.data)]
          PROVE  \E list \in Seq(Names) : Len(list) <= MAXNS /\ ns' = [ns EXCEPT ![level] = list]
      <4>1. e.data \in Seq(Names)
        BY <3>3 DEF Tables, IsRecord
      <4>2. QED
        BY <3>3, <4>1, RoomFits
    <3>4. QED
      BY <1>4, <3>2, <3>3 DEF NearestZone, ZoneCached
  <2>3. QED
    BY <2>1, <2>2, SameNames
<1>5. CASE GlueLevel
  <2>1. /\ ns[level] # <<>> /\ level + 1 < MAXLEVEL
        /\ name' = [name EXCEPT ![level + 1] = Head(ns[level])]
        /\ ns' = [ns EXCEPT ![level] = Tail(ns[level])]
        /\ level' = level + 1 /\ pc' = "new_name" /\ alias' = alias
    BY <1>5 DEF GlueLevel, HaveNsFrame
  <2>2. level \in Levels /\ level + 1 \in Levels /\ Running
    BY <1>5, <2>1, LimitsAssumption DEF Counters, Levels, GlueLevel, HaveNs, Running
  <2>3. ns[level] \in Seq(Names) /\ Len(ns[level]) <= MAXNS /\ MAXNS \in Nat
    BY <2>2, LimitsAssumption DEF NamesOK
  <2>4. Head(ns[level]) \in Names /\ Tail(ns[level]) \in Seq(Names) /\ Len(Tail(ns[level])) <= MAXNS
    BY <2>1, <2>3
  <2>5. ns' \in [Levels -> Seq(Names)] /\ \A l \in Levels : Len(ns'[l]) <= MAXNS
    BY <2>1, <2>2, <2>4 DEF NamesOK
  <2>6. name' \in [Levels -> Names \cup {NoName}]
    BY <2>1, <2>2, <2>4 DEF NamesOK
  <2>7. ASSUME NEW l \in 0 .. level' PROVE name'[l] \in Names
    <3>1. \A h \in 0 .. level : name[h] \in Names
      BY <2>2 DEF NamesOK
    <3>2. CASE l = level + 1
      BY <2>1, <2>2, <2>4, <3>2 DEF NamesOK
    <3>3. CASE l # level + 1
      <4>1. l \in 0 .. level /\ l \in Levels
        BY <2>1, <2>2, <3>3, LimitsAssumption DEF Levels
      <4>2. QED
        BY <2>1, <2>2, <3>1, <3>3, <4>1 DEF NamesOK
    <3>4. QED
      BY <3>2, <3>3
  <2>8. QED
    BY <2>1, <2>5, <2>6, <2>7 DEF NamesOK
<1>6. CASE TooDeep
  <2>1. /\ Running /\ UNCHANGED <<level, name, alias>> /\ pc' # "wait"
        /\ ns' = [ns EXCEPT ![level] = <<>>]
    BY <1>6 DEF TooDeep, HaveNs, HaveNsFrame, Running
  <2>2. <<>> \in Seq(Names) /\ Len(<<>>) <= MAXNS
    BY LimitsAssumption
  <2>3. QED
    BY <2>1, <2>2, SameNames
<1>7. CASE Transmit \/ NoServer
  <2>1. /\ Running /\ UNCHANGED <<level, name, alias>> /\ ns' = ns /\ ns[level] = <<>>
    BY <1>7 DEF Transmit, NoServer, HaveNs, HaveNsFrame, Running
  <2>2. QED
    BY <2>1, SameNames
<1>8. CASE lower_level
  <2>1. /\ name' = [name EXCEPT ![level] = NoName]
        /\ ns' = [ns EXCEPT ![level] = <<>>]
        /\ level' = level - 1 /\ pc' = "have_ns" /\ alias' = alias /\ pc = "lower_level"
    BY <1>8 DEF lower_level, HaveNsFrame
  <2>2. level \in Levels /\ level > 0 /\ \A l \in 0 .. level : name[l] \in Names
    BY <2>1 DEF Counters, NamesOK, Running
  <2>3. ns' \in [Levels -> Seq(Names)] /\ \A l \in Levels : Len(ns'[l]) <= MAXNS
    BY <2>1, <2>2, LimitsAssumption DEF NamesOK
  <2>4. name' \in [Levels -> Names \cup {NoName}]
    BY <2>1, <2>2 DEF NamesOK
  <2>5. \A l \in 0 .. level' : name'[l] \in Names
    BY <2>1, <2>2, LimitsAssumption DEF NamesOK, Levels
  <2>6. QED
    BY <2>1, <2>3, <2>4, <2>5 DEF NamesOK
<1>9. CASE TransmitFails \/ OtherQuery
  <2>1. /\ pc = "wait" /\ UNCHANGED <<level, name, alias>> /\ ns' = ns
    BY <1>9 DEF TransmitFails, OtherQuery
  <2>2. Running /\ ns[level] = <<>>
    BY <2>1 DEF NamesOK, Running
  <2>3. QED
    BY <2>1, <2>2, SameNames
<1>10. CASE query_start
  <2>1. PICK n \in Names : name' = [l \in Levels |-> IF l = 0 THEN n ELSE NoName]
    BY <1>10 DEF query_start
  <2>2. /\ ns' = [l \in Levels |-> <<>>] /\ alias' = <<>>
        /\ level' = 0 /\ pc' = "new_name"
    BY <1>10 DEF query_start
  <2>3. ns' \in [Levels -> Seq(Names)] /\ \A l \in Levels : Len(ns'[l]) <= MAXNS
    BY <2>2, LimitsAssumption
  <2>4. alias' \in Seq(Names) /\ Len(alias') <= MAXALIAS
    BY <2>2, LimitsAssumption
  <2>5. /\ name' \in [Levels -> Names \cup {NoName}]
        /\ \A l \in 0 .. level' : name'[l] \in Names
    BY <2>1, <2>2, LimitsAssumption DEF Levels
  <2>6. QED
    BY <2>2, <2>3, <2>4, <2>5 DEF NamesOK
<1>11. ASSUME NEW s \in Slots, NEW p \in Packets, PacketLame(s, p) \/ PacketReferral(s, p)
       PROVE  NamesOK'
  <2>1. /\ Running /\ UNCHANGED <<level, name, alias>> /\ pc' # "wait"
    BY <1>11 DEF PacketLame, PacketReferral, Tells, HavePacket, Running
  <2>2. p.ns \in Seq(Names)
    BY PacketsAssumption
  <2>3. ns' = ns \/ ns' = [ns EXCEPT ![level] = Room(p.ns)]
    BY <1>11 DEF PacketLame, PacketReferral, Referral
  <2>4. QED
    BY <2>1, <2>2, <2>3, RoomFits, SameNames
<1>12. CASE UNCHANGED vars
  <2>1. UNCHANGED <<pc, level, name, ns, alias>>
    BY <1>12 DEF vars
  <2>2. QED
    BY <2>1 DEF NamesOK, Running
<1>13. QED
  BY <1>1, <1>2, <1>3, <1>4, <1>5, <1>6, <1>7, <1>8, <1>9, <1>10, <1>11, <1>12 DEF Moves

LEMMA TypedHolds ==
  ASSUME Typed, [Next]_vars
  PROVE  Typed'
BY CountersHold, TablesHold, AllMoves, NamesHold DEF Typed

LEMMA TypedAtFirst == Init => Typed
<1> SUFFICES ASSUME Init PROVE Typed
  OBVIOUS
<1>1. Counters
  BY LimitsAssumption DEF Init, Counters, Levels
<1>2. Tables
  BY EmptyRow DEF Init, Tables, Rows
<1>3. NamesOK
  <2>1. alias = <<>> /\ name = [l \in Levels |-> NoName] /\ ns = [l \in Levels |-> <<>>]
        /\ pc = "done"
    BY DEF Init
  <2>2. ns \in [Levels -> Seq(Names)] /\ \A l \in Levels : Len(ns[l]) <= MAXNS
    BY <2>1, LimitsAssumption
  <2>3. alias \in Seq(Names) /\ Len(alias) <= MAXALIAS
    BY <2>1, LimitsAssumption
  <2>4. QED
    BY <2>1, <2>2, <2>3 DEF NamesOK, Running
<1>4. QED
  BY <1>1, <1>2, <1>3 DEF Typed

\* No table is left, for all limits and whatever servers and cache say: level
\* stays below MAXLEVEL, the aliases within MAXALIAS, the names of servers
\* within MAXNS, and what level, control and the aliases name are names.
THEOREM TypesHold == Spec => []TypeOK
<1>1. Typed => TypeOK
  BY DEF Typed, Counters, Tables, NamesOK, Rows, TypeOK
<1>2. QED
  BY <1>1, TypedAtFirst, TypedHolds, PTL DEF Spec

\* A referral that is followed leads to a zone strictly below the one that
\* gave it, and nearer to the name, for all packets: at every other packet the
\* list of servers' names stays as empty as it was when the query was sent.
THEOREM ReferralsDescend == Spec => ReferralDescends
<1> DEFINE D == pc = "wait" /\ level' = level /\ ns'[level] # <<>> =>
                  /\ control'[level] # control[level]
                  /\ dns_domain_suffix(control'[level], control[level])
                  /\ dns_domain_suffix(name[level], control'[level])
<1>1. ASSUME Typed, [Next]_vars, pc = "wait", level' = level, ns'[level] # <<>>
      PROVE  /\ control'[level] # control[level]
             /\ dns_domain_suffix(control'[level], control[level])
             /\ dns_domain_suffix(name[level], control'[level])
  <2>1. ns[level] = <<>> /\ level \in Levels /\ control \in [Levels -> Names \cup {NoName}]
    BY <1>1 DEF Typed, NamesOK, Counters, Tables
  <2>2. ns' # ns /\ ns' # [l \in Levels |-> <<>>]
    BY <1>1, <2>1
  <2>3. \E s \in Slots, p \in Packets : PacketReferral(s, p)
    <3>1. Moves
      BY <1>1, AllMoves
    <3>2. ~die /\ ~Answered /\ ~query_start
      BY <2>2 DEF die, Answered, query_aliases, query_cleanup, query_start
    <3>3. ~Follows
      BY <1>1, <2>2 DEF Follows, FollowAlias, die
    <3>4. ~Lowers /\ ~TransmitFails /\ ~OtherQuery /\ ~UNCHANGED vars
      BY <2>2 DEF Lowers, Lower, TransmitFails, OtherQuery, vars
    <3>5. ~NearestZone /\ ~GlueLevel /\ ~TooDeep /\ ~Transmit /\ ~NoServer /\ ~lower_level
      BY <1>1 DEF NearestZone, LookUp, NewName, GlueLevel, TooDeep, Transmit, NoServer,
                  HaveNs, lower_level
    <3>6. \A s \in Slots, p \in Packets : ~PacketLame(s, p)
      BY <2>2 DEF PacketLame
    <3>7. QED
      BY <3>1, <3>2, <3>3, <3>4, <3>5, <3>6 DEF Moves
  <2>4. PICK p \in Packets : /\ Refers(p) /\ ~lame(p)
                             /\ dns_domain_suffix(name[level], p.referral)
                             /\ control' = [control EXCEPT ![level] = p.referral]
    BY <2>3 DEF PacketReferral, Tells, Referral
  <2>5. control'[level] = p.referral
    BY <2>1, <2>4
  <2>6. QED
    BY <2>4, <2>5 DEF lame
<1>2. Typed /\ [Next]_vars => [D]_vars
  BY <1>1
<1>3. QED
  BY <1>2, TypedAtFirst, TypedHolds, PTL DEF Spec, ReferralDescends

-----------------------------------------------------------------------------
(* The aliases of the question.                                            *)

\* The aliases a in front of the name n lead from the client's question to n.
Trail(n, a) ==
  /\ asked = IF a = <<>> THEN n ELSE a[Len(a)]
  /\ \A i \in 1 .. Len(a) : <<a[i], IF i = 1 THEN n ELSE a[i - 1]>> \in links

Trails ==
  /\ Running => Trail(name[0], alias)
  /\ (~Running /\ answer.rcode # -1) => /\ answer.chain[1] = asked
                                        /\ Chained(answer.chain)
                                        /\ answer.q = asked

\* The list that the response gives is the trail read backwards.
LEMMA TrailReversed ==
  ASSUME NEW n \in Names, NEW a \in Seq(Names), Trail(n, a)
  PROVE  LET c == Reverse(<<n>> \o a) IN c[1] = asked /\ Chained(c)
<1> DEFINE s == <<n>> \o a
           c == Reverse(s)
<1>1. /\ s \in Seq(Names) /\ Len(s) = Len(a) + 1 /\ s[1] = n
      /\ \A i \in 1 .. Len(a) : s[i + 1] = a[i]
  OBVIOUS
<1>2. c = [i \in 1 .. Len(s) |-> s[(Len(s) - i) + 1]]
  BY DEF Reverse
<1> HIDE DEF s, c
<1>3. Len(a) \in Nat /\ Len(s) \in Nat /\ Len(c) = Len(a) + 1
  BY <1>1, <1>2
<1>4. \A i \in 1 .. Len(a) + 1 : c[i] = s[Len(a) + 2 - i]
  BY <1>1, <1>2, <1>3
<1>5. c[1] = asked
  <2>1. c[1] = s[Len(a) + 1]
    BY <1>3, <1>4
  <2>2. CASE a = <<>>
    BY <1>1, <2>1, <2>2 DEF Trail
  <2>3. CASE a # <<>>
    <3>1. Len(a) \in 1 .. Len(a)
      BY <2>3
    <3>2. QED
      BY <1>1, <2>1, <2>3, <3>1 DEF Trail
  <2>4. QED
    BY <2>2, <2>3
<1>6. ASSUME NEW i \in 1 .. Len(c) - 1 PROVE <<c[i], c[i + 1]>> \in links
  <2> DEFINE h == Len(a) + 1 - i
  <2>1. h \in 1 .. Len(a) /\ i \in 1 .. Len(a) + 1 /\ i + 1 \in 1 .. Len(a) + 1
    BY <1>3
  <2>2. c[i] = s[h + 1] /\ c[i + 1] = s[h]
    BY <1>3, <1>4, <2>1
  <2> HIDE DEF h
  <2>3. c[i] = a[h]
    BY <1>1, <2>1, <2>2
  <2>4. c[i + 1] = IF h = 1 THEN n ELSE a[h - 1]
    <3>1. CASE h = 1
      BY <1>1, <2>2, <3>1
    <3>2. CASE h # 1
      <4>1. h - 1 \in 1 .. Len(a) /\ (h - 1) + 1 = h
        BY <1>3, <2>1, <3>2
      <4>2. s[(h - 1) + 1] = a[h - 1]
        BY <1>1, <4>1
      <4>3. QED
        BY <2>2, <3>2, <4>1, <4>2
    <3>3. QED
      BY <3>1, <3>2
  <2>5. QED
    BY <2>1, <2>3, <2>4 DEF Trail
<1>7. Chained(c)
  BY <1>6 DEF Chained
<1>8. QED
  BY <1>5, <1>7 DEF c, s

\* A step that leaves the names of the question leaves the trail.
LEMMA SameTrail ==
  ASSUME Trails, Running, Running', UNCHANGED <<alias, asked, links>>, name'[0] = name[0]
  PROVE  Trails'
BY DEF Trails, Trail

LEMMA TrailsHold ==
  ASSUME Typed, Trails, Moves
  PROVE  Trails'
<1>1. level \in Levels /\ 0 \in Levels
  BY LimitsAssumption DEF Typed, Counters, Levels
<1>2. CASE die
  BY <1>2 DEF die, Trails, Running
<1>3. CASE Answered
  <2>1. PICK r : query_aliases(r)
    BY <1>3 DEF Answered
  <2>2. /\ answer'.q = IF alias = <<>> THEN name[0] ELSE alias[Len(alias)]
        /\ answer'.chain = Reverse(<<name[0]>> \o alias)
        /\ ~Running'
    BY <2>1 DEF query_aliases, Running
  <2>3. Running /\ UNCHANGED <<asked, links>>
    BY <1>3 DEF Answered
  <2>4. name[0] \in Names /\ alias \in Seq(Names)
    BY <1>1, <2>3 DEF Typed, NamesOK, Levels
  <2>5. Trail(name[0], alias)
    BY <2>3 DEF Trails
  <2>6. answer'.chain[1] = asked /\ Chained(answer'.chain)
    BY <2>2, <2>4, <2>5, TrailReversed
  <2>7. answer'.q = asked
    BY <2>2, <2>5 DEF Trail
  <2>8. QED
    BY <2>2, <2>3, <2>6, <2>7 DEF Trails, Chained
<1>4. CASE Follows
  <2>1. PICK c \in Names : FollowAlias(c) /\ pc' = "new_name"
    BY <1>4 DEF Follows
  <2>2. /\ alias' = IF level = 0 THEN <<name[0]>> \o alias ELSE alias
        /\ name' = [name EXCEPT ![level] = c]
        /\ links' = links \cup {<<name[level], c>>}
        /\ asked' = asked /\ Running /\ Running'
    BY <1>4, <2>1 DEF FollowAlias, die, Follows, Running
  <2>3. Trail(name[0], alias) /\ alias \in Seq(Names) /\ name[0] \in Names
    BY <1>1, <2>2 DEF Trails, Typed, NamesOK, Levels
  <2>4. name \in [Levels -> Names \cup {NoName}]
    BY DEF Typed, NamesOK
  <2>5. CASE level # 0
    BY <1>1, <2>2, <2>3, <2>4, <2>5 DEF Trails, Trail
  <2>6. CASE level = 0
    <3>1. name'[0] = c /\ alias' = <<name[0]>> \o alias /\ <<name[0], c>> \in links'
      BY <1>1, <2>2, <2>4, <2>6
    <3>2. /\ Len(alias') = Len(alias) + 1 /\ Len(alias) \in Nat /\ alias'[1] = name[0]
          /\ \A i \in 1 .. Len(alias) : alias'[i + 1] = alias[i]
          /\ alias' # <<>>
      BY <2>3, <3>1
    <3>3. asked' = alias'[Len(alias')]
      <4>1. CASE alias = <<>>
        BY <2>2, <2>3, <3>2, <4>1 DEF Trail
      <4>2. CASE alias # <<>>
        <5>1. Len(alias) \in 1 .. Len(alias)
          BY <2>3, <4>2
        <5>2. QED
          BY <2>2, <2>3, <3>2, <4>2, <5>1 DEF Trail
      <4>3. QED
        BY <4>1, <4>2
    <3>4. ASSUME NEW i \in 1 .. Len(alias')
          PROVE  <<alias'[i], IF i = 1 THEN name'[0] ELSE alias'[i - 1]>> \in links'
      <4>1. CASE i = 1
        BY <3>1, <3>2, <4>1
      <4>2. CASE i # 1
        <5>1. PICK h \in 1 .. Len(alias) : i = h + 1
          BY <3>2, <4>2
        <5>2. <<alias[h], IF h = 1 THEN name[0] ELSE alias[h - 1]>> \in links'
          BY <2>2, <2>3 DEF Trail
        <5>3. alias'[i] = alias[h]
          BY <3>2, <5>1
        <5>4. alias'[i - 1] = IF h = 1 THEN name[0] ELSE alias[h - 1]
          <6>1. i - 1 = h
            BY <5>1
          <6>2. CASE h = 1
            BY <3>2, <6>1, <6>2
          <6>3. CASE h # 1
            <7>1. PICK g \in 1 .. Len(alias) : h = g + 1
              BY <3>2, <6>3
            <7>2. QED
              BY <3>2, <6>1, <6>3, <7>1
          <6>4. QED
            BY <6>2, <6>3
        <5>5. QED
          BY <4>2, <5>2, <5>3, <5>4
      <4>3. QED
        BY <4>1, <4>2
    <3>5. QED
      BY <2>2, <3>2, <3>3, <3>4 DEF Trails, Trail
  <2>7. QED
    BY <2>5, <2>6
<1>5. CASE Lowers \/ NearestZone \/ TooDeep \/ Transmit \/ NoServer \/ TransmitFails
           \/ OtherQuery
  <2>1. Running /\ Running' /\ UNCHANGED <<name, alias, asked, links>>
    BY <1>5 DEF Lowers, Lower, NearestZone, LookUp, NewName, NewNameFrame, TooDeep,
                Transmit, NoServer, HaveNs, HaveNsFrame, TransmitFails, OtherQuery, Running
  <2>2. QED
    BY <2>1, SameTrail
<1>6. CASE GlueLevel \/ lower_level
  <2>1. Running /\ Running' /\ UNCHANGED <<alias, asked, links>>
    BY <1>6 DEF GlueLevel, lower_level, HaveNs, HaveNsFrame, Running
  <2>2. \E l \in Levels : \E n : l # 0 /\ name' = [name EXCEPT ![l] = n]
    <3>1. CASE GlueLevel
      <4>1. level + 1 \in Levels /\ level + 1 # 0
        BY <1>1, <3>1, LimitsAssumption DEF GlueLevel, Levels
      <4>2. QED
        BY <3>1, <4>1 DEF GlueLevel
    <3>2. CASE lower_level
      <4>1. level # 0
        BY <3>2 DEF lower_level, Typed, Counters
      <4>2. QED
        BY <1>1, <3>2, <4>1 DEF lower_level
    <3>3. QED
      BY <1>6, <3>1, <3>2
  <2>3. name'[0] = name[0]
    BY <1>1, <2>2 DEF Typed, NamesOK
  <2>4. QED
    BY <2>1, <2>3, SameTrail
<1>7. CASE query_start
  <2>1. PICK n \in Names : name' = [l \in Levels |-> IF l = 0 THEN n ELSE NoName] /\ asked' = n
    BY <1>7 DEF query_start
  <2>2. alias' = <<>> /\ Running'
    BY <1>7 DEF query_start, Running
  <2>3. QED
    BY <1>1, <2>1, <2>2 DEF Trails, Trail
<1>8. ASSUME NEW s \in Slots, NEW p \in Packets, PacketLame(s, p) \/ PacketReferral(s, p)
      PROVE  Trails'
  <2>1. Running /\ Running' /\ UNCHANGED <<name, alias, asked, links>>
    BY <1>8 DEF PacketLame, PacketReferral, Tells, HavePacket, Running
  <2>2. QED
    BY <2>1, SameTrail
<1>9. CASE UNCHANGED vars
  BY <1>9 DEF vars, Trails, Trail, Running, Chained
<1>10. QED
  BY <1>2, <1>3, <1>4, <1>5, <1>6, <1>7, <1>8, <1>9 DEF Moves

\* The aliases lead from the client's question to the name that level 0
\* resolves, each step shown by a CNAME, and the response is to the question
\* that was asked, for every limit of aliases, levels and loops.
THEOREM AliasChainHolds == Spec => []AliasChain
<1>1. Init => Trails
  BY DEF Init, Trails, Running
<1>2. Typed /\ Trails => AliasChain
  <2> SUFFICES ASSUME Typed, Trails PROVE AliasChain
    OBVIOUS
  <2>1. CASE Running
    <3>1. name[0] \in Names /\ alias \in Seq(Names) /\ Trail(name[0], alias)
      BY <2>1, LimitsAssumption DEF Typed, Counters, NamesOK, Trails, Levels
    <3>2. QED
      BY <2>1, <3>1, TrailReversed DEF AliasChain
  <2>2. CASE ~Running
    BY <2>2 DEF Trails, AliasChain
  <2>3. QED
    BY <2>1, <2>2
<1>3. Typed /\ Trails /\ [Next]_vars => Typed' /\ Trails'
  BY TypedHolds, AllMoves, TrailsHold
<1>4. QED
  BY <1>1, <1>2, <1>3, TypedAtFirst, PTL DEF Spec

-----------------------------------------------------------------------------
(* Zones: which servers are asked, and what they may tell.                 *)

\* A suffix has a place in the path.
LEMMA SuffixPlace ==
  ASSUME NEW n \in Names, NEW z, dns_domain_suffix(n, z)
  PROVE  \E k \in 1 .. Len(Path[n]) : z = Path[n][k]
<1>1. Path[n] \in Seq(Names)
  BY NamesAssumption
<1>2. QED
  BY <1>1 DEF dns_domain_suffix, Range

\* Its own path goes on from there.
LEMMA PathGoesOn ==
  ASSUME NEW n \in Names, NEW k \in 1 .. Len(Path[n]), NEW z, z = Path[n][k]
  PROVE  /\ z \in Names /\ k \in Nat /\ k >= 1 /\ k <= Len(Path[n]) /\ Len(Path[n]) \in Nat
         /\ Len(Path[z]) = Len(Path[n]) - k + 1
         /\ \A i \in 1 .. Len(Path[z]) : Path[z][i] = Path[n][k + i - 1]
<1>1. Path[n] \in Seq(Names)
  BY NamesAssumption
<1>2. Path[z] = SubSeq(Path[n], k, Len(Path[n]))
  BY SuffixAssumption
<1>3. Len(Path[n]) \in Nat /\ k \in Nat /\ k >= 1 /\ k <= Len(Path[n])
  BY <1>1
<1>4. /\ Len(Path[z]) = Len(Path[n]) - k + 1
      /\ \A i \in 1 .. Len(Path[z]) : Path[z][i] = Path[n][k + i - 1]
  BY <1>1, <1>2, <1>3
<1>5. QED
  BY <1>1, <1>3, <1>4

\* A name is met once in a path.
LEMMA PlaceOnce ==
  ASSUME NEW n \in Names, NEW i \in 1 .. Len(Path[n]), NEW j \in 1 .. Len(Path[n]),
         Path[n][i] = Path[n][j]
  PROVE  i = j
<1>1. Path[n] \in Seq(Names)
  BY NamesAssumption
<1>2. SubSeq(Path[n], i, Len(Path[n])) = SubSeq(Path[n], j, Len(Path[n]))
  BY SuffixAssumption
<1>3. ASSUME NEW h \in 1 .. Len(Path[n])
      PROVE  Len(SubSeq(Path[n], h, Len(Path[n]))) = Len(Path[n]) - h + 1
  BY <1>1
<1>4. Len(Path[n]) - i + 1 = Len(Path[n]) - j + 1
  BY <1>2, <1>3
<1>5. QED
  BY <1>1, <1>4

\* What roots finds: the first configured name of the path, if any.
LEMMA RootsFound ==
  ASSUME NEW n \in Names
  PROVE  \/ /\ roots_search(n) = NoName
            /\ \A i \in 1 .. Len(Path[n]) : Path[n][i] \notin Roots
         \/ \E m \in 1 .. Len(Path[n]) :
              /\ roots_search(n) = Path[n][m] /\ Path[n][m] \in Roots
              /\ \A i \in 1 .. m - 1 : Path[n][i] \notin Roots
<1> DEFINE found == {i \in DOMAIN Path[n] : Path[n][i] \in Roots}
<1>1. Path[n] \in Seq(Names)
  BY NamesAssumption
<1>2. found \subseteq 1 .. Len(Path[n]) /\ DOMAIN Path[n] = 1 .. Len(Path[n])
  BY <1>1
<1>3. CASE found = {}
  BY <1>2, <1>3 DEF roots_search
<1>4. CASE found # {}
  <2>1. \E m \in found : \A j \in found : m <= j
    <3>1. found \subseteq Nat
      BY <1>1, <1>2
    <3>2. PICK m \in found : \A j \in found : ~(j < m)
      <4> HIDE DEF found
      <4>1. \E m \in found : \A j \in found : ~(<<j, m>> \in OpToRel(<, Nat))
        BY <1>4, <3>1, NatLessThanWellFounded, WFMin, Zenon
      <4>2. QED
        BY <3>1, <4>1 DEF OpToRel
    <3>3. QED
      BY <3>1, <3>2
  <2> DEFINE m == CHOOSE i \in found : \A j \in found : i <= j
  <2>2. m \in found /\ \A j \in found : m <= j
    BY <2>1
  <2>3. roots_search(n) = Path[n][m]
    BY <1>4 DEF roots_search
  <2> HIDE DEF m
  <2>4. m \in 1 .. Len(Path[n]) /\ Path[n][m] \in Roots
    BY <1>2, <2>2
  <2>5. ASSUME NEW i \in 1 .. m - 1 PROVE Path[n][i] \notin Roots
    <3>1. i \in DOMAIN Path[n] /\ ~(m <= i)
      BY <1>1, <1>2, <2>4
    <3>2. QED
      BY <2>2, <3>1
  <2>6. QED
    BY <2>3, <2>4, <2>5
<1>5. QED
  BY <1>3, <1>4

\* Two names have the same roots exactly when no configured name lies between.
LEMMA NothingBetween ==
  ASSUME NEW n \in Names, NEW k \in 1 .. Len(Path[n]),
         \A i \in 1 .. k - 1 : Path[n][i] \notin Roots
  PROVE  roots_same(n, Path[n][k])
<1>1. PICK z : z = Path[n][k]
  OBVIOUS
<1>2. /\ z \in Names
      /\ Len(Path[z]) = Len(Path[n]) - k + 1
      /\ \A i \in 1 .. Len(Path[z]) : Path[z][i] = Path[n][k + i - 1]
  BY <1>1, PathGoesOn
<1>3. Len(Path[n]) \in Nat /\ k \in Nat /\ k >= 1 /\ k <= Len(Path[n])
  BY <1>1, PathGoesOn
<1>4. CASE \A i \in 1 .. Len(Path[n]) : Path[n][i] \notin Roots
  <2>1. roots_search(n) = NoName
    BY <1>4, RootsFound
  <2>2. ASSUME NEW i \in 1 .. Len(Path[z]) PROVE Path[z][i] \notin Roots
    <3>1. k + i - 1 \in 1 .. Len(Path[n])
      BY <1>3, <1>2
    <3>2. QED
      BY <1>2, <1>4, <3>1
  <2>3. roots_search(z) = NoName
    BY <1>2, <2>2, RootsFound
  <2>4. QED
    BY <2>1, <2>3, <1>1 DEF roots_same
<1>5. CASE ~(\A i \in 1 .. Len(Path[n]) : Path[n][i] \notin Roots)
  <2>1. PICK m \in 1 .. Len(Path[n]) :
          /\ roots_search(n) = Path[n][m] /\ Path[n][m] \in Roots
          /\ \A i \in 1 .. m - 1 : Path[n][i] \notin Roots
    BY <1>5, RootsFound
  <2>2. m >= k
    BY <1>3, <2>1
  <2>3. m - k + 1 \in 1 .. Len(Path[z]) /\ k + (m - k + 1) - 1 = m
    BY <1>3, <1>2, <2>2
  <2>4. Path[z][m - k + 1] = Path[n][m]
    BY <1>2, <2>3
  <2>5. PICK h \in 1 .. Len(Path[z]) :
          /\ roots_search(z) = Path[z][h] /\ Path[z][h] \in Roots
          /\ \A i \in 1 .. h - 1 : Path[z][i] \notin Roots
    BY <1>2, <2>1, <2>3, <2>4, RootsFound
  <2>6. h <= m - k + 1
    <3>1. m - k + 1 \in Nat /\ 1 <= m - k + 1 /\ h \in Nat
      BY <1>3, <2>1, <2>3, <2>5
    <3>2. ASSUME m - k + 1 < h PROVE FALSE
      <4>1. m - k + 1 \in 1 .. h - 1
        BY <3>1, <3>2
      <4>2. QED
        BY <2>1, <2>4, <2>5, <4>1
    <3>3. QED
      BY <3>1, <3>2
  <2>7. k + h - 1 \in 1 .. Len(Path[n]) /\ Path[z][h] = Path[n][k + h - 1]
    BY <1>3, <1>2, <2>5
  <2>8. m <= k + h - 1
    BY <1>3, <2>1, <2>5, <2>7
  <2>9. k + h - 1 = m
    BY <1>3, <2>6, <2>8
  <2>10. QED
    BY <2>1, <2>5, <2>7, <2>9, <1>1 DEF roots_same
<1>6. QED
  BY <1>4, <1>5

LEMMA SameBetween ==
  ASSUME NEW n \in Names, NEW k \in 1 .. Len(Path[n]), roots_same(n, Path[n][k]),
         NEW i \in 1 .. k - 1
  PROVE  Path[n][i] \notin Roots
<1>1. PICK z : z = Path[n][k]
  OBVIOUS
<1>2. /\ z \in Names
      /\ Len(Path[z]) = Len(Path[n]) - k + 1
      /\ \A h \in 1 .. Len(Path[z]) : Path[z][h] = Path[n][k + h - 1]
  BY <1>1, PathGoesOn
<1>3. Len(Path[n]) \in Nat /\ k \in Nat /\ k >= 1 /\ k <= Len(Path[n]) /\ i < k /\ i >= 1
  BY <1>1, PathGoesOn
<1>4. roots_search(n) = roots_search(z)
  BY <1>1 DEF roots_same
<1>5. SUFFICES ASSUME Path[n][i] \in Roots PROVE FALSE
  OBVIOUS
<1>6. i \in 1 .. Len(Path[n])
  BY <1>3
<1>7. PICK m \in 1 .. Len(Path[n]) :
        /\ roots_search(n) = Path[n][m] /\ Path[n][m] \in Roots
        /\ \A h \in 1 .. m - 1 : Path[n][h] \notin Roots
  BY <1>5, <1>6, RootsFound
<1>8. m <= i
  BY <1>3, <1>5, <1>7
<1>9. roots_search(z) # NoName
  BY <1>4, <1>7, NamesAssumption
<1>10. PICK h \in 1 .. Len(Path[z]) : roots_search(z) = Path[z][h]
  BY <1>2, <1>9, RootsFound
<1>11. k + h - 1 \in 1 .. Len(Path[n]) /\ Path[z][h] = Path[n][k + h - 1]
  BY <1>3, <1>2, <1>10
<1>12. m = k + h - 1
  BY <1>4, <1>7, <1>10, <1>11, PlaceOnce
<1>13. QED
  BY <1>3, <1>8, <1>10, <1>12

\* A zone between a name and a zone with the same roots has them too.
LEMMA Between ==
  ASSUME NEW n \in Names, NEW r, NEW c, dns_domain_suffix(n, r),
         dns_domain_suffix(r, c), roots_same(n, c)
  PROVE  roots_same(n, r)
<1>1. PICK k \in 1 .. Len(Path[n]) : r = Path[n][k]
  BY SuffixPlace
<1>2. /\ r \in Names /\ k \in Nat /\ k >= 1 /\ k <= Len(Path[n]) /\ Len(Path[n]) \in Nat
      /\ Len(Path[r]) = Len(Path[n]) - k + 1
      /\ \A i \in 1 .. Len(Path[r]) : Path[r][i] = Path[n][k + i - 1]
  BY <1>1, PathGoesOn
<1>3. PICK h \in 1 .. Len(Path[r]) : c = Path[r][h]
  BY <1>2, SuffixPlace
<1>4. h \in Nat /\ h >= 1 /\ h <= Len(Path[r])
  BY <1>2, <1>3
<1>5. k + h - 1 \in 1 .. Len(Path[n]) /\ c = Path[n][k + h - 1]
  BY <1>2, <1>3, <1>4
<1>6. \A i \in 1 .. (k + h - 1) - 1 : Path[n][i] \notin Roots
  BY <1>5, SameBetween
<1>7. \A i \in 1 .. k - 1 : i \in 1 .. (k + h - 1) - 1
  BY <1>2, <1>4
<1>8. QED
  BY <1>1, <1>6, <1>7, NothingBetween

\* The zone of a level is a suffix of its name with no configured zone in
\* between, and its servers were learned as servers of that zone.
ZoneOK(l) ==
  /\ dns_domain_suffix(name[l], control[l])
  /\ roots_same(name[l], control[l])
  /\ \A i \in Slots : servers[l][i].ip # 0 => servers[l][i].zone = control[l]

Zones == Running => \A l \in Settled : ZoneOK(l)

\* A level that a step does not touch keeps its zone.
LEMMA SameZone ==
  ASSUME NEW l \in Levels, ZoneOK(l), name'[l] = name[l], control'[l] = control[l],
         servers'[l] = servers[l]
  PROVE  ZoneOK(l)'
BY DEF ZoneOK

LEMMA LearnedZone ==
  ASSUME Typed, Zones, Lowers
  PROVE  Zones'
<1>1. /\ level > 0 /\ level \in Levels /\ Running /\ Settled' = 0 .. level - 1
      /\ UNCHANGED <<level, name, control>>
  BY DEF Lowers, Lower, Typed, Counters, Running, Settled
<1>2. ASSUME NEW l \in 0 .. level - 1 PROVE l \in Settled /\ l \in Levels
  BY <1>1, LimitsAssumption DEF Settled, Levels
<1>3. ASSUME NEW l \in 0 .. level - 1 PROVE ZoneOK(l)'
  <2>1. ZoneOK(l) /\ l \in Levels
    BY <1>1, <1>2 DEF Zones
  <2>2. servers \in Rows /\ control \in [Levels -> Names \cup {NoName}]
    BY DEF Typed, Tables
  <2>3. CASE servers' = servers
    BY <1>1, <2>1, <2>3, SameZone
  <2>4. ASSUME NEW ips \in Seq(Nat), Learn(ips)
        PROVE  ZoneOK(l)'
    <3>1. CASE l # level - 1
      <4>1. servers'[l] = servers[l]
        BY <2>1, <2>2, <2>4, <3>1 DEF Learn, Rows
      <4>2. QED
        BY <1>1, <2>1, <4>1, SameZone
    <3>2. CASE l = level - 1
      <4>1. servers'[l] = Fill(servers[l], ips, control[l])
        BY <2>1, <2>2, <2>4, <3>2 DEF Learn, Rows
      <4>2. servers[l] \in [Slots -> Server] /\ control[l] \in Names \cup {NoName}
        BY <2>1, <2>2 DEF Rows
      <4>3. \A i \in Slots : \/ servers'[l][i] = servers[l][i]
                             \/ servers'[l][i].zone = control[l]
        BY <4>1, <4>2, FillRow
      <4>4. QED
        BY <1>1, <2>1, <4>3 DEF ZoneOK
    <3>3. QED
      BY <3>1, <3>2
  <2>5. QED
    BY <2>3, <2>4 DEF Lowers
<1>4. QED
  BY <1>1, <1>3 DEF Zones

LEMMA NearestZoneOK ==
  ASSUME Typed, Zones, NearestZone
  PROVE  Zones'
<1>1. /\ pc = "new_name" /\ Running /\ pc' = "have_ns" /\ UNCHANGED <<level, name>>
      /\ Settled = 0 .. level - 1 /\ Settled' = 0 .. level
  BY DEF NearestZone, LookUp, NewName, Running, Settled
<1>2. level \in Levels /\ name[level] \in Names
  BY <1>1, NameThere
<1>3. servers \in Rows /\ control \in [Levels -> Names \cup {NoName}]
  BY DEF Typed, Tables
<1>4. PICK k \in 1 .. Len(Path[name[level]]) :
        /\ ZoneAt(k)
        /\ \/ /\ Path[name[level]][k] \in Roots
              /\ servers' = [servers EXCEPT ![level] = RootRow(Path[name[level]][k])]
           \/ servers' = [servers EXCEPT ![level] = NoServers]
  BY DEF NearestZone, ZoneCached
<1>5. PICK z : z = Path[name[level]][k]
  OBVIOUS
<1>6. control' = [control EXCEPT ![level] = z]
  BY <1>4, <1>5 DEF ZoneAt
<1>7. ASSUME NEW l \in 0 .. level PROVE ZoneOK(l)'
  <2>1. l \in Levels
    BY <1>2, LimitsAssumption DEF Levels
  <2>2. CASE l # level
    <3>1. l \in Settled
      BY <1>1, <1>2, <2>2 DEF Levels
    <3>2. control'[l] = control[l] /\ servers'[l] = servers[l]
      BY <1>2, <1>3, <1>4, <1>6, <2>1, <2>2 DEF Rows
    <3>3. QED
      BY <1>1, <2>1, <3>1, <3>2, SameZone DEF Zones
  <2>3. CASE l = level
    <3>1. control'[l] = z /\ name'[l] = name[l] /\ name[l] \in Names
      BY <1>1, <1>2, <1>3, <1>6, <2>3
    <3>2. dns_domain_suffix(name[l], z)
      <4>1. Path[name[l]] \in Seq(Names) /\ k \in 1 .. Len(Path[name[l]]) /\ z = Path[name[l]][k]
        BY <1>4, <1>5, <2>3, <3>1, NamesAssumption
      <4>2. QED
        BY <4>1 DEF dns_domain_suffix, Range
    <3>3. roots_same(name[l], z)
      BY <1>4, <1>5, <2>3, <3>1, NothingBetween DEF ZoneAt
    <3>4. servers'[l] = NoServers \/ (z \in Roots /\ servers'[l] = RootRow(z))
      BY <1>2, <1>3, <1>4, <1>5, <2>3 DEF Rows
    <3>5. \A i \in Slots : servers'[l][i].ip # 0 => servers'[l][i].zone = z
      BY <3>4, EmptyRow, RootRowOK
    <3>6. QED
      BY <3>1, <3>2, <3>3, <3>5 DEF ZoneOK
  <2>4. QED
    BY <2>2, <2>3
<1>8. QED
  BY <1>1, <1>7 DEF Zones

LEMMA PacketZone ==
  ASSUME Typed, Zones, NEW s \in Slots, NEW p \in Packets,
         PacketLame(s, p) \/ PacketReferral(s, p)
  PROVE  Zones'
<1>1. /\ pc = "wait" /\ Running /\ pc' = "have_ns" /\ UNCHANGED <<level, name>>
      /\ Settled = 0 .. level /\ Settled' = 0 .. level
  BY DEF PacketLame, PacketReferral, Tells, HavePacket, Running, Settled
<1>2. level \in Levels /\ name[level] \in Names /\ level \in 0 .. level
  BY <1>1, NameThere
<1>3. servers \in Rows /\ control \in [Levels -> Names \cup {NoName}]
  BY DEF Typed, Tables
<1>4. \/ control' = control /\ servers' = [servers EXCEPT ![level][s] = Empty]
      \/ /\ dns_domain_suffix(name[level], p.referral) /\ Refers(p) /\ ~lame(p)
         /\ control' = [control EXCEPT ![level] = p.referral]
         /\ servers' = [servers EXCEPT ![level] = NoServers]
  BY DEF PacketLame, PacketReferral, Tells, Referral
<1>5. ASSUME NEW l \in 0 .. level PROVE ZoneOK(l)'
  <2>1. l \in Levels /\ ZoneOK(l)
    BY <1>1, <1>2, LimitsAssumption DEF Levels, Zones
  <2>2. CASE l # level
    <3>1. control'[l] = control[l] /\ servers'[l] = servers[l]
      BY <1>2, <1>3, <1>4, <2>1, <2>2 DEF Rows
    <3>2. QED
      BY <1>1, <2>1, <3>1, SameZone
  <2>3. CASE l = level /\ control' = control /\ servers' = [servers EXCEPT ![level][s] = Empty]
    <3>1. \A i \in Slots : servers'[l][i] = servers[l][i] \/ servers'[l][i].ip = 0
      BY <1>3, <2>1, <2>3 DEF Rows, Empty
    <3>2. QED
      BY <1>1, <2>1, <2>3, <3>1 DEF ZoneOK
  <2>4. CASE /\ l = level
             /\ dns_domain_suffix(name[level], p.referral) /\ Refers(p) /\ ~lame(p)
             /\ control' = [control EXCEPT ![level] = p.referral]
             /\ servers' = [servers EXCEPT ![level] = NoServers]
    <3>1. control'[l] = p.referral /\ servers'[l] = NoServers
      BY <1>2, <1>3, <2>4 DEF Rows
    <3>2. dns_domain_suffix(p.referral, control[l])
      BY <2>4 DEF lame
    <3>3. roots_same(name[l], control[l])
      BY <2>1 DEF ZoneOK
    <3>4. roots_same(name[l], p.referral)
      BY <1>2, <2>4, <3>2, <3>3, Between
    <3>5. QED
      BY <1>1, <2>4, <3>1, <3>4, EmptyRow DEF ZoneOK
  <2>5. QED
    BY <1>4, <2>2, <2>3, <2>4
<1>6. QED
  BY <1>1, <1>5 DEF Zones

LEMMA ZonesHold ==
  ASSUME Typed, Zones, Moves
  PROVE  Zones'
<1>1. level \in Levels /\ name \in [Levels -> Names \cup {NoName}]
  BY DEF Typed, Counters, NamesOK
<1>2. CASE die \/ Answered
  BY <1>2 DEF die, Answered, query_aliases, Zones, Running
<1>3. CASE Follows \/ GlueLevel \/ lower_level
  <2>1. /\ Running /\ Running' /\ UNCHANGED <<control, servers>>
        /\ Settled' \subseteq Settled /\ Settled \subseteq Levels
    <3>1. CASE Follows
      <4>1. Running /\ pc' = "new_name" /\ UNCHANGED <<level, control, servers>>
        BY <3>1 DEF Follows, FollowAlias
      <4>2. QED
        BY <1>1, <4>1, LimitsAssumption DEF Settled, Running, Levels
    <3>2. CASE GlueLevel
      <4>1. /\ pc = "have_ns" /\ pc' = "new_name" /\ level' = level + 1
            /\ UNCHANGED <<control, servers>>
        BY <3>2 DEF GlueLevel, HaveNs, HaveNsFrame
      <4>2. QED
        BY <1>1, <4>1, LimitsAssumption DEF Settled, Running, Levels
    <3>3. CASE lower_level
      <4>1. /\ pc = "lower_level" /\ pc' = "have_ns" /\ level' = level - 1
            /\ UNCHANGED <<control, servers>>
        BY <3>3 DEF lower_level, HaveNsFrame
      <4>2. QED
        BY <1>1, <4>1, LimitsAssumption DEF Settled, Running, Levels
    <3>4. QED
      BY <1>3, <3>1, <3>2, <3>3
  <2>2. \A l \in Settled' : name'[l] = name[l]
    <3>1. CASE Follows
      <4>1. /\ pc' = "new_name" /\ level' = level
            /\ \E c \in Names : name' = [name EXCEPT ![level] = c]
        BY <3>1 DEF Follows, FollowAlias, die
      <4>2. QED
        BY <1>1, <2>1, <4>1 DEF Settled, Levels
    <3>2. CASE GlueLevel
      <4>1. /\ pc' = "new_name" /\ level' = level + 1
            /\ \E c : name' = [name EXCEPT ![level + 1] = c]
        BY <3>2 DEF GlueLevel
      <4>2. QED
        BY <1>1, <2>1, <4>1, LimitsAssumption DEF Settled, Levels
    <3>3. CASE lower_level
      <4>1. /\ pc' = "have_ns" /\ level' = level - 1
            /\ name' = [name EXCEPT ![level] = NoName]
        BY <3>3 DEF lower_level
      <4>2. QED
        BY <1>1, <2>1, <4>1, LimitsAssumption DEF Settled, Levels
    <3>4. QED
      BY <1>3, <3>1, <3>2, <3>3
  <2>3. QED
    BY <2>1, <2>2, SameZone DEF Zones
<1>4. CASE Lowers
  BY <1>4, LearnedZone
<1>5. CASE NearestZone
  BY <1>5, NearestZoneOK
<1>6. CASE TooDeep \/ Transmit \/ NoServer \/ TransmitFails \/ OtherQuery
  <2>1. /\ pc \in {"have_ns", "wait"} /\ pc' \in {"have_ns", "wait", "serv_fail"}
        /\ UNCHANGED <<level, name, control, servers>>
    BY <1>6 DEF TooDeep, Transmit, NoServer, HaveNs, HaveNsFrame, TransmitFails, OtherQuery
  <2>2. Running /\ Running' /\ Settled' = Settled /\ Settled \subseteq Levels
    BY <1>1, <2>1, LimitsAssumption DEF Running, Settled, Levels
  <2>3. QED
    BY <2>1, <2>2, SameZone DEF Zones
<1>7. CASE query_start
  <2>1. Settled' = 0 .. 0 - 1
    BY <1>7 DEF query_start, Settled
  <2>2. QED
    BY <2>1 DEF Zones
<1>8. ASSUME NEW s \in Slots, NEW p \in Packets, PacketLame(s, p) \/ PacketReferral(s, p)
      PROVE  Zones'
  BY <1>8, PacketZone
<1>9. CASE UNCHANGED vars
  BY <1>9 DEF vars, Zones, ZoneOK, Running, Settled
<1>10. QED
  BY <1>2, <1>3, <1>4, <1>5, <1>6, <1>7, <1>8, <1>9 DEF Moves

\* What is stored about a name comes from a server of the zone that the level
\* asks, which is the zone kept with its address.
LEMMA BailiwickHolds ==
  ASSUME Typed, Zones, Bailiwick, CacheStep
  PROVE  Bailiwick'
<1>1. \A e \in cache : dns_domain_suffix(e.name, e.zone) /\ roots_same(e.name, e.zone)
  BY DEF Bailiwick
<1>2. CASE cache' = cache
  BY <1>1, <1>2 DEF Bailiwick
<1>3. ASSUME NEW s \in Slots, pc = "wait", servers[level][s].ip # 0,
             NEW S, \A r \in S : Tellable(r), Store(S, s)
      PROVE  Bailiwick'
  <2>1. ZoneOK(level)
    BY <1>3, NameThere DEF Zones, Settled, Running
  <2>2. servers[level][s].zone = control[level]
    BY <1>3, <2>1 DEF ZoneOK
  <2>3. \A r \in S : /\ dns_domain_suffix(r.name, control[level])
                     /\ roots_same(r.name, control[level])
    BY <1>3, <2>1 DEF Tellable, ZoneOK
  <2>4. \A e \in cache' : \/ e \in cache
                          \/ \E r \in S : e.name = r.name /\ e.zone = control[level]
    BY <1>3, <2>2, StoreNew
  <2>5. \A e \in cache' : dns_domain_suffix(e.name, e.zone) /\ roots_same(e.name, e.zone)
    BY <1>1, <2>3, <2>4
  <2>6. QED
    BY <2>5 DEF Bailiwick
<1>4. ASSUME NEW f \in Foreign,
             cache' = {e \in cache : e.type # f.type \/ e.name # f.name} \cup {f}
      PROVE  Bailiwick'
  BY <1>1, <1>4, ForeignAssumption DEF Bailiwick
<1>5. QED
  BY <1>2, <1>3, <1>4 DEF CacheStep

ZonesInv == Typed /\ Zones /\ Bailiwick

LEMMA ZonesInvHolds ==
  /\ Init => ZonesInv
  /\ ZonesInv /\ [Next]_vars => ZonesInv'
<1>1. Init => Zones /\ Bailiwick
  BY DEF Init, Zones, Running, Bailiwick
<1>2. ASSUME ZonesInv, [Next]_vars PROVE ZonesInv'
  BY <1>2, TypedHolds, AllMoves, ZonesHold, CacheSteps, BailiwickHolds DEF ZonesInv
<1>3. QED
  BY <1>1, <1>2, TypedAtFirst DEF ZonesInv

\* On every level the zone asked is a suffix of the name and every server in
\* the row was learned as one of that zone, for all trees of names, all
\* packets and all limits, although rows are reused and are filled from the
\* level above.
THEOREM ZoneServersHold == Spec => []ZoneServers
<1>1. ZonesInv => ZoneServers
  BY DEF ZonesInv, Zones, ZoneOK, ZoneServers
<1>2. QED
  BY <1>1, ZonesInvHolds, PTL DEF Spec

\* What is cached about a name came from a server of a zone that the name is
\* in, and no configured zone lies between the two, whatever packets say: the
\* roots of a name and its zone stay the same through every referral.
THEOREM BailiwickAlways == Spec => []Bailiwick
<1>1. ZonesInv => Bailiwick
  BY DEF ZonesInv
<1>2. QED
  BY <1>1, ZonesInvHolds, PTL DEF Spec
=============================================================================
