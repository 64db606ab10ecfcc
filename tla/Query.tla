------------------------------- MODULE Query --------------------------------
(***************************************************************************)
(* The resolution of one question (src/query.c): names are resolved from   *)
(* the cache or by asking the servers of the nearest known zone; to find   *)
(* the address of a zone's server the query goes one level up, and comes   *)
(* back with lower_level.  Aliases of the question are kept in a list.     *)
(*                                                                         *)
(* The steps are the blocks between the labels of query_run.  The packets  *)
(* of servers are reduced to what query_run finds in them, answers to the  *)
(* name they are about, types to those the code tells apart.  Lifetimes    *)
(* are left out: cache_get may miss whatever is stored.  dns_sortip only   *)
(* permutes the slots of a row of servers and is left out too.             *)
(***************************************************************************)
EXTENDS Integers, Sequences, FiniteSets, SequencesExt

CONSTANTS
  Names,        \* domain names
  NoName,       \* the null pointer of a name
  Path,         \* Path[n]: n and what is left of it, label by label
  Localhost,    \* the name localhost, in its spellings
  LocalIp,      \* 127.0.0.1
  Loopback,     \* names of the loopback address
  Roots,        \* names with a file in the directory servers
  RootServers,  \* RootServers[n]: the addresses in the file of n
  Types,        \* types of questions that clients ask
  Packets,      \* packets that servers may send
  Foreign,      \* entries that other queries may cache
  ForwardOnly,  \* flagforwardonly
  MAXLEVEL,     \* QUERY_MAXLEVEL, 5 in the code
  MAXALIAS,     \* QUERY_MAXALIAS, 16 in the code
  MAXNS,        \* QUERY_MAXNS and the slots of a row of servers, 16 in the code
  MAXLOOP,      \* 100 in the code
  MaxStarts     \* bound: questions put to this struct query

ASSUME NamesAssumption ==
  /\ NoName \notin Names
  /\ Path \in [Names -> Seq(Names)]
  /\ \A n \in Names : Path[n] # <<>> /\ Path[n][1] = n
  /\ Localhost \subseteq Names /\ LocalIp \in Nat \ {0}
  /\ Loopback \subseteq Names
  /\ Roots \subseteq Names
  /\ RootServers \in [Roots -> Seq(Nat \ {0})]
ASSUME LimitsAssumption ==
  /\ MAXLEVEL \in Nat \ {0} /\ MAXALIAS \in Nat \ {0}
  /\ MAXNS \in Nat \ {0} /\ MAXLOOP \in Nat \ {0}
  /\ MaxStarts \in Nat /\ ForwardOnly \in BOOLEAN

\* What is left of what is left of a name is left of the name.
ASSUME SuffixAssumption ==
  \A n \in Names : \A i \in 1 .. Len(Path[n]) :
    Path[Path[n][i]] = SubSeq(Path[n], i, Len(Path[n]))

\* Records about a name: CNAME and NS tell names, the others what is no name.
IsRecord(r) ==
  /\ r.name \in Names
  /\ r.data \in IF r.type \in {"CNAME", "NS"} THEN Seq(Names) ELSE Seq(Nat)
  /\ r.type = "CNAME" => r.data # <<>>

ASSUME PacketsAssumption ==
  \A p \in Packets :
    /\ p.rcode \in {0, 3}
    /\ p.out \in BOOLEAN /\ p.soa \in BOOLEAN
    /\ {p.cname, p.referral} \subseteq Names \cup {NoName}
    /\ p.ips \in Seq(Nat) /\ p.ns \in Seq(Names)
    /\ \A r \in p.extra : IsRecord(r)

Levels == 0 .. MAXLEVEL - 1
Slots == 1 .. MAXNS

VARIABLES
  pc,         \* the label to go to, "wait" for dns_transmit, or "done"
  level, loop, type,
  name,       \* name[l]: what level l resolves
  control,    \* control[l]: the zone that level l asks
  ns,         \* ns[l]: servers of that zone whose addresses are not known
  servers,    \* servers[l]: the row of addresses of level l; ip 0 is empty
  alias,      \* the names before name[0], the latest first
  cache,      \* the entries of the cache that concern the names
  answer,     \* the response: its question, its aliases and what it tells
  starts,
  \* History:
  asked,      \* the name the client asked for
  links,      \* the pairs <<from, to>> that a CNAME has shown
  sent        \* calls of dns_transmit_start for this question

vars == <<pc, level, loop, type, name, control, ns, servers, alias, cache,
          answer, starts, asked, links, sent>>

\* servers[l] keeps with each address the zone for which it was learned, and
\* the cache with each entry the zone of the server that sent it; the
\* program keeps neither.
Empty == [ip |-> 0, zone |-> NoName]
NoServers == [i \in Slots |-> Empty]

dns_domain_suffix(big, little) == little \in Range(Path[big])

\* The nearest configured suffix of n, if there is one.
roots_search(n) ==
  LET found == {i \in DOMAIN Path[n] : Path[n][i] \in Roots}
  IN  IF found = {} THEN NoName
                    ELSE Path[n][CHOOSE i \in found : \A j \in found : i <= j]

roots_same(m, n) == roots_search(m) = roots_search(n)

\* Other queries are the same code: what they cache is what Bailiwick says.
ASSUME ForeignAssumption ==
  \A f \in Foreign :
    /\ IsRecord(f) /\ f.zone \in Names
    /\ dns_domain_suffix(f.name, f.zone) /\ roots_same(f.name, f.zone)

dtype == IF level = 0 THEN type ELSE "A"

typematch(rtype, qtype) == qtype = rtype \/ qtype = "ANY"

-----------------------------------------------------------------------------
(* Ends.                                                                   *)

\* query_cleanup.  level, loop, control and servers stay as they are.
query_cleanup ==
  /\ name' = [l \in Levels |-> NoName]
  /\ ns' = [l \in Levels |-> <<>>]
  /\ alias' = <<>>

\* die: the query is dropped.
die == /\ query_cleanup
       /\ pc' = "done"
       /\ answer' = [q |-> NoName, chain |-> <<>>, rcode |-> -1]

\* query_aliases and what follows it: the response asks the question of the
\* oldest alias and lists the aliases down to name[0].
query_aliases(rcode) ==
  /\ answer' = [q |-> IF alias = <<>> THEN name[0] ELSE alias[Len(alias)],
                chain |-> Reverse(<<name[0]>> \o alias),
                rcode |-> rcode]
  /\ query_cleanup
  /\ pc' = "done"

\* Either the response, or no room for it in 65535 bytes.
Respond(rcode) == /\ level = 0
                  /\ query_aliases(rcode) \/ die
                  /\ UNCHANGED <<level, type, control, servers>>

Lower == /\ level > 0
         /\ pc' = "lower_level"
         /\ UNCHANGED <<level, type, name, control, ns, alias, answer>>

\* The addresses ips go to the free slots of the row of the level below.
Fill(row, ips, zone) ==
  [i \in Slots |->
     LET k == Cardinality({h \in 1 .. i : row[h].ip = 0})
     IN  IF row[i].ip = 0 /\ k <= Len(ips) THEN [ip |-> ips[k], zone |-> zone]
                                           ELSE row[i]]

Learn(ips) ==
  servers' = [servers EXCEPT ![level - 1] = Fill(@, ips, control[level - 1])]

\* Mutant: every level adds to the aliases of the question.
FollowAlias_AnyLevel(c) ==
  /\ IF Len(alias) = MAXALIAS
       THEN die
       ELSE /\ alias' = <<name[level]>> \o alias
            /\ name' = [name EXCEPT ![level] = c]
            /\ pc' = "new_name"
            /\ UNCHANGED <<ns, answer>>
  /\ links' = links \cup {<<name[level], c>>}
  /\ UNCHANGED <<level, type, control, servers>>

\* The label CNAME.  Level 0 remembers the name it had.
FollowAlias(c) ==
  /\ IF level = 0 /\ Len(alias) = MAXALIAS
       THEN die
       ELSE /\ alias' = IF level = 0 THEN <<name[0]>> \o alias ELSE alias
            /\ name' = [name EXCEPT ![level] = c]
            /\ pc' = "new_name"
            /\ UNCHANGED <<ns, answer>>
  /\ links' = links \cup {<<name[level], c>>}
  /\ UNCHANGED <<level, type, control, servers>>

-----------------------------------------------------------------------------
(* new_name.                                                               *)

\* Mutant: names that come from aliases are not counted.
NewName_NoCount == pc = "new_name" /\ loop' = loop

NewName == pc = "new_name" /\ loop' = loop + 1

NewNameFrame == UNCHANGED <<cache, starts, asked, sent>>

NewNameLoops ==
  /\ NewName /\ loop + 1 = MAXLOOP
  /\ die
  /\ UNCHANGED <<level, type, control, servers, links>>
  /\ NewNameFrame

\* The address that globalip knows for a name, or 0.  A name that spells an
\* address is looked up like any other: the loop of dd stops behind the fourth
\* label without a look at the end of the name, and dd never returns 4.
globalip(n) == IF n \in Localhost THEN LocalIp ELSE 0

\* The name has a fixed address, or is the name of the loopback address.
NewNameFixed ==
  /\ NewName /\ loop + 1 # MAXLOOP
  /\ \/ globalip(name[level]) # 0
     \/ name[level] \in Loopback
  /\ \/ /\ Lower
        /\ IF globalip(name[level]) # 0 THEN Learn(<<globalip(name[level])>>)
                                        ELSE UNCHANGED servers
     \/ Respond(0)
  /\ UNCHANGED links
  /\ NewNameFrame

\* The name has to be looked up.
LookUp == /\ NewName /\ loop + 1 # MAXLOOP
          /\ globalip(name[level]) = 0
          /\ name[level] \notin Loopback

\* What the cache can have for a name: an entry, found or not found.
Cached(ty) == {e \in cache : e.type = ty /\ e.name = name[level]}

CachedNxdomain ==
  /\ LookUp
  /\ Cached("NX") # {}
  /\ \/ Lower /\ UNCHANGED servers
     \/ Respond(3)
  /\ UNCHANGED links
  /\ NewNameFrame

CachedCname ==
  /\ LookUp
  /\ \E e \in Cached("CNAME") :
       IF typematch("CNAME", dtype)
         THEN Respond(0) /\ UNCHANGED links
         ELSE FollowAlias(e.data[1])
  /\ NewNameFrame

\* An empty entry says that there is no such record, which does not answer
\* a question for ANY; nor do the types query_run has no code for.
CachedAnswer ==
  /\ LookUp
  /\ \E e \in cache :
       /\ e.name = name[level]
       /\ e.type \notin {"NX", "CNAME"}
       /\ typematch(e.type, dtype)
       /\ dtype = "ANY" => /\ e.data # <<>>
                           /\ e.type \in {"NS", "PTR", "MX", "SOA", "A"}
       /\ \/ Lower /\ Learn(e.data)
          \/ Respond(0)
  /\ UNCHANGED links
  /\ NewNameFrame

\* The row of a configured zone.
RootRow(z) == Fill(NoServers, RootServers[z], z)

\* The first MAXNS members of a list.
Room(list) == SubSeq(list, 1, IF Len(list) < MAXNS THEN Len(list) ELSE MAXNS)

\* Nothing is cached for the name.  The k-th of its suffixes is the zone to
\* ask; no suffix before it is configured.
ZoneAt(k) ==
  /\ \A i \in 1 .. k - 1 : Path[name[level]][i] \notin Roots
  /\ control' = [control EXCEPT ![level] = Path[name[level]][k]]

\* The servers of a zone that is not configured, as the cache has them.
ZoneCached(z, e) ==
  /\ z \notin Roots /\ ~ForwardOnly /\ level < 2
  /\ e.type = "NS" /\ e.name = z /\ e.data # <<>>
  /\ servers' = [servers EXCEPT ![level] = NoServers]

NearestZone ==
  /\ LookUp
  /\ \E k \in 1 .. Len(Path[name[level]]) :
       LET z == Path[name[level]][k] IN
       /\ ZoneAt(k)
       /\ \/ /\ z \in Roots
             /\ servers' = [servers EXCEPT ![level] = RootRow(z)]
             /\ ns' = [ns EXCEPT ![level] = <<>>]
          \/ \E e \in cache : /\ ZoneCached(z, e)
                              /\ ns' = [ns EXCEPT ![level] = Room(e.data)]
  /\ pc' = "have_ns"
  /\ UNCHANGED <<level, type, name, alias, answer, links>>
  /\ NewNameFrame

\* dns_domain_copy fails for an alias, or for the name of a cached server.
NewNameNoMemory ==
  /\ LookUp
  /\ \/ /\ Cached("CNAME") # {} /\ ~typematch("CNAME", dtype)
        /\ UNCHANGED <<control, servers>>
     \/ \E k \in 1 .. Len(Path[name[level]]), e \in cache :
          ZoneAt(k) /\ ZoneCached(Path[name[level]][k], e)
  /\ die
  /\ UNCHANGED <<level, type, links>>
  /\ NewNameFrame

\* No suffix of the name is configured.
NoZone ==
  /\ LookUp
  /\ roots_search(name[level]) = NoName
  /\ die
  /\ UNCHANGED <<level, type, control, servers, links>>
  /\ NewNameFrame

-----------------------------------------------------------------------------
(* have_ns, lower_level and serv_fail.                                     *)

HaveNs == pc = "have_ns"

HaveNsFrame == UNCHANGED <<loop, type, control, alias, cache, answer, starts,
                           asked, links>>

\* Mutant: the limit is off by one.
GlueLevel_Past ==
  /\ HaveNs /\ ns[level] # <<>> /\ level < MAXLEVEL
  /\ name' = [name EXCEPT ![level + 1] = Head(ns[level])]
  /\ ns' = [ns EXCEPT ![level] = Tail(@)]
  /\ level' = level + 1
  /\ pc' = "new_name"
  /\ UNCHANGED <<servers, sent>>
  /\ HaveNsFrame

\* The address of a server is not known: find it on the next level.
GlueLevel ==
  /\ HaveNs /\ ns[level] # <<>> /\ level + 1 < MAXLEVEL
  /\ name' = [name EXCEPT ![level + 1] = Head(ns[level])]
  /\ ns' = [ns EXCEPT ![level] = Tail(@)]
  /\ level' = level + 1
  /\ pc' = "new_name"
  /\ UNCHANGED <<servers, sent>>
  /\ HaveNsFrame

\* There is no next level: do without these servers.
TooDeep ==
  /\ HaveNs /\ ns[level] # <<>> /\ level + 1 >= MAXLEVEL
  /\ ns' = [ns EXCEPT ![level] = <<>>]
  /\ UNCHANGED <<pc, level, name, servers, sent>>
  /\ HaveNsFrame

Transmit ==
  /\ HaveNs /\ ns[level] = <<>>
  /\ \E i \in Slots : servers[level][i].ip # 0
  /\ sent' = sent + 1
  /\ pc' = "wait"
  /\ UNCHANGED <<level, name, ns, servers>>
  /\ HaveNsFrame

NoServer ==
  /\ HaveNs /\ ns[level] = <<>>
  /\ \A i \in Slots : servers[level][i].ip = 0
  /\ pc' = "serv_fail"
  /\ UNCHANGED <<level, name, ns, servers, sent>>
  /\ HaveNsFrame

\* dns_domain_copy or dns_transmit_start fails.
HaveNsFails ==
  /\ HaveNs
  /\ IF ns[level] # <<>> THEN level + 1 < MAXLEVEL
                         ELSE \E i \in Slots : servers[level][i].ip # 0
  /\ die
  /\ UNCHANGED <<level, loop, type, control, servers, cache, starts, asked,
                 links, sent>>

lower_level ==
  /\ pc = "lower_level"
  /\ name' = [name EXCEPT ![level] = NoName]
  /\ ns' = [ns EXCEPT ![level] = <<>>]
  /\ level' = level - 1
  /\ pc' = "have_ns"
  /\ UNCHANGED <<servers, sent>>
  /\ HaveNsFrame

serv_fail ==
  /\ pc = "serv_fail"
  /\ \/ Lower /\ UNCHANGED servers
     \/ Respond(2)
  /\ UNCHANGED <<loop, cache, starts, asked, links, sent>>

-----------------------------------------------------------------------------
(* have_packet: the server in slot s of the row has sent p.                *)

\* A CNAME at the name is an answer for some types and an alias for others.
IsAlias(p) == p.cname # NoName /\ ~typematch("CNAME", dtype)
IsAnswer(p) == p.out \/ (p.cname # NoName /\ typematch("CNAME", dtype))

\* The packet tells what there is at the name.
Answers(p) ==
  /\ ~IsAlias(p) /\ p.rcode = 0
  /\ IsAnswer(p) \/ p.soa \/ p.referral = NoName

\* The packet refers to the servers of another zone, and nothing else.
Refers(p) ==
  /\ ~IsAlias(p) /\ p.rcode = 0
  /\ ~IsAnswer(p) /\ ~p.soa /\ p.referral # NoName

HavePacket(s, p) ==
  /\ pc = "wait"
  /\ servers[level][s].ip # 0
  /\ loop' = loop + 1

PacketLoops ==
  /\ \E s \in Slots, p \in Packets : HavePacket(s, p)
  /\ loop + 1 = MAXLOOP
  /\ die
  /\ UNCHANGED <<level, type, control, servers, cache, starts, asked, links, sent>>

\* Mutant: a referral to the zone itself is followed.
lame_Sideways(p) ==
  /\ Refers(p)
  /\ ~dns_domain_suffix(p.referral, control[level])

\* The server knows no more than where to ask it.
lame(p) ==
  /\ Refers(p)
  /\ \/ p.referral = control[level]
     \/ ~dns_domain_suffix(p.referral, control[level])

\* A lame server leaves the row; the others are asked.
PacketLame(s, p) ==
  /\ HavePacket(s, p) /\ loop + 1 # MAXLOOP /\ lame(p)
  /\ servers' = [servers EXCEPT ![level][s] = Empty]
  /\ pc' = "have_ns"
  /\ UNCHANGED <<level, type, name, control, ns, alias, cache, answer, starts,
                 asked, links, sent>>

\* The sets of records of one type and name in a packet.
Record(ty, n, data) == [type |-> ty, name |-> n, data |-> data]

Records(p) ==
  (IF p.out /\ dtype # "CNAME"
     THEN {Record(dtype, name[level], IF dtype = "NS" THEN p.ns ELSE p.ips)} ELSE {})
    \cup (IF p.cname # NoName THEN {Record("CNAME", name[level], <<p.cname>>)} ELSE {})
    \cup (IF p.referral # NoName THEN {Record("NS", p.referral, p.ns)} ELSE {})
    \cup p.extra

\* Mutant: the servers of a zone are believed about a zone configured
\* inside it.
InZone_Across(r) ==
  LET zone == control[level] IN
  /\ dns_domain_suffix(r.name, zone)
  /\ (~ForwardOnly /\ r.type = "NS" /\ r.name = zone) => zone \in Roots

\* Mutant: records of other zones are taken as well.
InZone_Anything(r) ==
  LET zone == control[level] IN
  /\ (~ForwardOnly /\ r.type = "NS" /\ r.name = zone) => zone \in Roots
  /\ roots_same(r.name, zone)

\* The records that a server of the zone control[level] may tell.
InZone(r) ==
  LET zone == control[level] IN
  /\ dns_domain_suffix(r.name, zone)
  /\ (~ForwardOnly /\ r.type = "NS" /\ r.name = zone) => zone \in Roots
  /\ roots_same(r.name, zone)

\* save_finish and cachegeneric of the records of S, as far as they have a
\* lifetime and fit.
Store(S, s) ==
  \E T \in SUBSET S :
    cache' = {e \in cache : \A r \in T : e.type # r.type \/ e.name # r.name}
               \cup {[type |-> r.type, name |-> r.name, data |-> r.data,
                      zone |-> servers[level][s].zone] : r \in T}

\* A packet that is not lame is stored before it is looked at.  The rest of
\* query_run adds to that what it says of the name itself.
Tells(s, p, own) ==
  /\ HavePacket(s, p) /\ loop + 1 # MAXLOOP /\ ~lame(p)
  /\ Store({r \in Records(p) : r.type \notin {"ANY", "NX"} /\ InZone(r)} \cup own, s)
  /\ UNCHANGED <<starts, asked, sent>>

\* The packet ends too early, or memory does, or the referral leads away
\* from the name.  Addresses or a referral may be half taken over then.
PacketBroken(s, p) ==
  /\ Tells(s, p, {})
  /\ \/ UNCHANGED <<control, servers>>
     \/ /\ Answers(p) /\ p.out /\ level > 0
        /\ \E i \in 1 .. Len(p.ips) : Learn(SubSeq(p.ips, 1, i))
        /\ UNCHANGED control
     \/ /\ Refers(p) /\ dns_domain_suffix(name[level], p.referral)
        /\ control' = [control EXCEPT ![level] = p.referral]
        /\ servers' = [servers EXCEPT ![level] = NoServers]
  /\ die
  /\ UNCHANGED <<level, type, links>>

PacketAlias(s, p) ==
  /\ IsAlias(p)
  /\ Tells(s, p, {})
  /\ FollowAlias(p.cname)

PacketNxdomain(s, p) ==
  /\ ~IsAlias(p) /\ p.rcode = 3
  /\ Tells(s, p, {Record("NX", name[level], <<>>)})
  /\ \/ Lower /\ UNCHANGED servers
     \/ Respond(3)
  /\ UNCHANGED links

\* That there is no record of the type is stored as well.
Nodata(p) ==
  IF ~IsAnswer(p) /\ p.soa /\ dtype \notin {"ANY", "CNAME"}
    THEN {Record(dtype, name[level], <<>>)} ELSE {}

PacketAnswer(s, p) ==
  /\ Answers(p)
  /\ Tells(s, p, Nodata(p))
  /\ \/ Lower /\ Learn(IF p.out THEN p.ips ELSE <<>>)
     \/ Respond(0)
  /\ UNCHANGED links

\* Mutant: the row of the old zone stays.
Referral_KeepRow(p) ==
  /\ control' = [control EXCEPT ![level] = p.referral]
  /\ ns' = [ns EXCEPT ![level] = Room(p.ns)]
  /\ UNCHANGED servers

\* The servers of a zone nearer to the name.
Referral(p) ==
  /\ control' = [control EXCEPT ![level] = p.referral]
  /\ servers' = [servers EXCEPT ![level] = NoServers]
  /\ ns' = [ns EXCEPT ![level] = Room(p.ns)]

PacketReferral(s, p) ==
  /\ Refers(p)
  /\ Tells(s, p, {})
  /\ dns_domain_suffix(name[level], p.referral)
  /\ Referral(p)
  /\ pc' = "have_ns"
  /\ UNCHANGED <<level, type, name, alias, answer, links>>

have_packet ==
  \/ PacketLoops
  \/ \E s \in Slots, p \in Packets :
       \/ PacketLame(s, p) \/ PacketBroken(s, p) \/ PacketAlias(s, p)
       \/ PacketNxdomain(s, p) \/ PacketAnswer(s, p) \/ PacketReferral(s, p)

\* Mutant: the same servers are asked again.
TransmitFails_Retry ==
  /\ pc = "wait"
  /\ pc' = "have_ns"
  /\ UNCHANGED <<level, loop, type, name, control, ns, servers, alias, cache,
                 answer, starts, asked, links, sent>>

\* dns_transmit gives up: query_run(z, -1).
TransmitFails ==
  /\ pc = "wait"
  /\ pc' = "serv_fail"
  /\ UNCHANGED <<level, loop, type, name, control, ns, servers, alias, cache,
                 answer, starts, asked, links, sent>>

-----------------------------------------------------------------------------

\* The client's slot is free, or taken over while its query waits; a zone
\* transfer is refused before anything changes.
query_start ==
  /\ pc \in {"done", "wait"} /\ starts < MaxStarts
  /\ starts' = starts + 1
  /\ \E n \in Names, ty \in Types :
       /\ name' = [l \in Levels |-> IF l = 0 THEN n ELSE NoName]
       /\ type' = ty
       /\ asked' = n
  /\ ns' = [l \in Levels |-> <<>>]
  /\ alias' = <<>>
  /\ level' = 0 /\ loop' = 0
  /\ pc' = "new_name"
  /\ links' = {} /\ sent' = 0
  /\ UNCHANGED <<control, servers, cache, answer>>

\* The same, with no memory for the name.
StartFails ==
  /\ pc \in {"done", "wait"} /\ starts < MaxStarts
  /\ starts' = starts + 1
  /\ die
  /\ level' = 0 /\ loop' = 0 /\ sent' = 0
  /\ UNCHANGED <<type, control, servers, cache, asked, links>>

\* Another query stores something while this one waits.
OtherQuery ==
  /\ pc = "wait"
  /\ \E f \in Foreign :
       cache' = {e \in cache : e.type # f.type \/ e.name # f.name} \cup {f}
  /\ UNCHANGED <<pc, level, loop, type, name, control, ns, servers, alias,
                 answer, starts, asked, links, sent>>

new_name ==
  \/ NewNameLoops \/ NewNameFixed \/ CachedNxdomain \/ CachedCname
  \/ CachedAnswer \/ NearestZone \/ NewNameNoMemory \/ NoZone

have_ns == GlueLevel \/ TooDeep \/ Transmit \/ NoServer \/ HaveNsFails

query_run == \/ new_name \/ have_ns \/ lower_level \/ serv_fail
             \/ have_packet \/ TransmitFails

Init ==
  /\ pc = "done" /\ level = 0 /\ loop = 0 /\ type = "A"
  /\ name = [l \in Levels |-> NoName]
  /\ control = [l \in Levels |-> NoName]
  /\ ns = [l \in Levels |-> <<>>]
  /\ servers = [l \in Levels |-> NoServers]
  /\ alias = <<>> /\ cache = {}
  /\ answer = [q |-> NoName, chain |-> <<>>, rcode |-> -1]
  /\ starts = 0 /\ asked = NoName /\ links = {} /\ sent = 0

Next == query_run \/ query_start \/ StartFails \/ OtherQuery

Spec == Init /\ [][Next]_vars

\* query_run does not wait, and dns_transmit comes to an end as long as no
\* server puts its deadline off for ever (Returns of DnsTransmit).
FairSpec == Spec /\ WF_vars(query_run)

-----------------------------------------------------------------------------
(* Properties.                                                             *)

Running == pc # "done"

\* The types; in particular no table is left: level stays below MAXLEVEL,
\* the aliases within MAXALIAS and the names of servers within MAXNS.
TypeOK ==
  /\ pc \in {"new_name", "have_ns", "lower_level", "serv_fail", "wait", "done"}
  /\ level \in Levels /\ loop \in 0 .. MAXLOOP
  /\ name \in [Levels -> Names \cup {NoName}]
  /\ control \in [Levels -> Names \cup {NoName}]
  /\ \A l \in Levels : Len(ns[l]) <= MAXNS /\ DOMAIN servers[l] = Slots
  /\ Len(alias) <= MAXALIAS

Chained(c) == \A i \in 1 .. Len(c) - 1 : <<c[i], c[i + 1]>> \in links

\* The aliases lead from the client's question to the name that level 0
\* resolves, each step shown by a CNAME; the response is to the question
\* that was asked, however many aliases and levels there were.
AliasChain ==
  LET c == IF Running THEN Reverse(<<name[0]>> \o alias) ELSE answer.chain
  IN  (Running \/ answer.rcode # -1) => /\ c[1] = asked
                                        /\ Chained(c)
                                        /\ ~Running => answer.q = asked

\* The levels whose zone is settled.
Settled == IF pc \in {"new_name", "lower_level"} THEN 0 .. level - 1 ELSE 0 .. level

\* On every level the zone asked is a suffix of the name, and every server
\* in the row was learned as a server of that zone, although rows are
\* reused and filled from the level above.
ZoneServers ==
  Running => \A l \in Settled :
    /\ dns_domain_suffix(name[l], control[l])
    /\ \A i \in Slots : servers[l][i].ip # 0 => servers[l][i].zone = control[l]

\* What is cached about a name came from a server of a zone the name is in,
\* and no configured zone lies between the two.
Bailiwick == \A e \in cache : /\ dns_domain_suffix(e.name, e.zone)
                              /\ roots_same(e.name, e.zone)

\* Failed transmissions are not counted in loop, and yet the number of
\* transmissions for one question is bounded by twice its limit.
WorkBound == sent + level <= 2 * loop /\ loop <= MAXLOOP

\* A referral that is followed leads to a zone strictly below the one that
\* gave it, and nearer to the name.
ReferralDescends ==
  [][pc = "wait" /\ level' = level /\ ns'[level] # <<>> =>
       /\ control'[level] # control[level]
       /\ dns_domain_suffix(control'[level], control[level])
       /\ dns_domain_suffix(name[level], control'[level])]_vars

\* Every question is answered or dropped: aliases that lead in a circle,
\* servers without an address and lame servers included.
Ends == pc = "new_name" ~> pc = "done"
=============================================================================
