# Verification of dirlist's name server cache, event loop and proxy

dirlist (c-utils) is a collection of C libraries in the style of libowfat and
djbdns (`src/lib`) and of command line tools built on them. This project models
the parts with the hardest behaviour: **nscache**, a caching recursive DNS
resolver that serves many clients from one loop, the lock-free **table of
file descriptors** under lib/io, the **event loop** of lib/io that is built on
it, and **tinyproxy**, a program of that loop. Modules are checked by TLC on small instances;
every safety property that a run finds to hold is also proved by TLAPS for every
instance. Liveness is model-checked.

## 1. Inventory

| component | source | state | operations | modules |
|---|---|---|---|---|
| cache | `cache.c` | a block of bytes with hash heads and a ring of entries, three registers, a mapped file | `cache_init/open/set/get/free` | Cache, CacheLog, CacheRefinesLog, CacheCrash |
| transmission | `lib/dns/dns_transmit.c` | `struct dns_transmit`: query, packet, socket, server, round, TCP state, `pos` | `dns_transmit_start/get/free` | DnsTransmit |
| resolution | `query.c`, `roots.c` | `struct query`: levels with a name, a zone, server addresses and names; aliases; a counter | `query_start`, `query_get` | Query |
| server | `nscache.c`, `lib/io/iopause.c` | tables of UDP and TCP clients, the poll array | `udp_*`, `tcp_*`, the loop | NsCache |
| descriptor table | `lib/iarray`, first half of `lib/io/io_fd.c` | 16 lists of pages, `len`, `io_fds_inited` | `iarray_init/allocate/get/free` | IArray |
| io event loop | `lib/io` | interest and readiness flags, queues through the entries, `io_wanted_fds` | `io_fd`, `io_want*`, `io_dontwant*`, `io_can*`, `io_try*`, `io_eagain*`, `io_waituntil2`, `io_close` | IoTable, IoLoop |
| proxies | `tinyproxy.c`, `httpproxy.c`, `tcpproxy.c` | a list of connections, a buffer for each side | the turns of `server_loop` | TinyProxy (tinyproxy only) |
| buffers | `lib/buffer` | `p`, `n`, `a` | `buffer_put`, `buffer_flush`, … | the writing half, in TinyProxy |
| dns packets, lookups, responses, log | `lib/dns`, `response.c`, `log.c` | none between calls | parsing, formatting | verdicts in the models |
| http client, tls | `lib/http`, `lib/tls` | connection states | callbacks | left out |
| containers | `lib/dlist`, `lib/slist`, `lib/hmap`, `lib/cbmap` … | | sequential | left out |
| formats, tools | `lib/xml`, `lib/json`, `list-r.c`, … | | sequential transformations | left out |

**How they interact.** `nscache_run` fills a poll array from its clients, waits
in `iopause`, and calls `query_get` for each active slot. A query runs until it
needs a packet; then its `struct dns_transmit` has a socket in the array. Query
reads and writes the one cache that all queries share. There are no threads in
nscache: interleaving is between clients, queries and the network, at each
return to the loop. The descriptor table, on the other hand, is meant for
threads and has no lock. The event loop keeps its entries in that table and is
used by one thread; nscache does not use it, tinyproxy does. There the
interleaving is between the sockets that one wait reports: each is handled
while the others are still in the queues, and handling it may close them or
open their numbers again.

**What is hard, and what correctness is.**

* Cache: a long history of calls wraps the ring many times; eviction unlinks an
  entry through an exclusive-or link that is right only for the last of a list.
  The file must describe the block at every stop. Correct: layout, lists, what
  `cache_get` returns, the file.
* Transmission: every system call can fail in the middle of nested loops, the
  struct is reused, UDP may turn into TCP. Correct: nothing leaks, each server
  gets its turn, `pos` counts what it says, the time is bounded.
* Resolution: referrals, aliases and servers without address reuse the same
  rows. Correct: only servers of the right zone are asked and believed, the
  answer belongs to the question, the work is bounded.
* Server: full tables, slots reused while a query is pending, one buffer for
  three phases of a connection. Correct: each query ends once, replies go to
  whoever asked, descriptors and buffers are owned, slots come free.
* Descriptor table: compare-and-swap races. Correct: no page is lost or shared,
  elements never move, threads get through.
* Event loop: the queues run through the entries and are not kept in order: a
  closed descriptor stays in them, a registered one empties them, a ready one
  is put in them again. Correct: an event is handed out once and to the
  descriptor that had it, nothing that a wait reports is lost, the count that a
  wait depends on is right.
* tinyproxy: numbers of sockets are closed and used again within a round,
  connects fail half-way, sends fall short. Correct: every socket has one
  connection, data are not reordered, repeated or sent to strangers, the
  server goes on listening, a connection with a dead end goes away.

`PROJECT.json` lists the hazards line by line with the properties for each.

## 2. Modules and code

**Cache.** `heads`, `entry` are the block `x`: the words of the heads, and the
entries by position (those outside the registers too, because the code does not
erase them). A link is the *set* of positions whose exclusive or it is; `Xor`
is the symmetric difference, which is exact as long as different positions are
independent words: a stale word could coincide with a position by accident
only. `writer`, `oldest`, `unused` are the registers, `header` their copy in
the file, `call` the `cache_set` in progress. Its steps follow the stores; the
bytes of a new entry are written in one of them (`Store`), since nothing leads to
the entry before `SetHead` and no register covers it before `cache_update`:
`cache_set` (checks), `GiveUp`/`Evict`/`Wrap` (one turn of the loop), `Relink`,
`Store`, `SetHead`, `cache_update`. `Fault` is the call of `cache_impossible`.
`cache_get` is an operator; it changes nothing. `Restart` stops the process
between two calls and opens the file again. **CacheCrash** adds a kill between
two stores. **CacheLog** is what the cache promises, a log that drops at its
beginning; **CacheRefinesLog** maps the ring to it: the i-th item of the log is
the live entry that has i - 1 live entries stored before it.

**DnsTransmit.** One query at a time in one struct. `at` is the loop of thisudp
or thistcp, or "wait" for poll; `revents` says that poll has reported the
socket, and the other variables are the fields. Sockets and
blocks are counted, so that a lost one shows. Actions: `dns_transmit_start`,
the turns of the loops (send, refusal, dead server, no memory or socket, next
round, exhausted), `iopause`, `Timeout`, which is for a poll that reported
nothing, and one action per way out of `dns_transmit_get`, among them `Ignored`,
which returns 0 without a look at the deadline.
The bytes of packets are reduced to the verdicts of `irrelevant`,
`serverwantstcp` and `serverfailed`.

**Query.** `query_run` by its labels: `new_name` (cache, aliases, nearest
zone), `have_ns` (address of a server, or a level of its own), `lower_level`,
`serv_fail`, and the packet. Names are model names with their path of suffixes;
a packet is what the code extracts from it (rcode, an alias, an SOA, a referral
with its servers, addresses, further records). Every server address carries the
zone it was learned for, and every cached record the zone of the server that
said it: ghost fields, so that the properties can be stated. Other queries
write the cache through `OtherQuery`. `globalip` knows localhost and nothing else
(finding 9). The named assumptions say what
`dns_domain_suffix` and the packet parser guarantee: a suffix of a suffix is a
suffix (`SuffixAssumption`), records carry names where their type says so
(`PacketsAssumption`), and other queries, being the same code, cache only what
`Bailiwick` allows (`ForeignAssumption`).

**NsCache.** The two tables with the fields of the structs, the array `io`, and
the place in the loop. A turn: `Top` (fill the array), `iopause`, the UDP slots
one by one, the TCP slots one by one, `udp_new`, `tcp_new`. Query and
transmission appear as "runs", "fails" or "answers", what the other two modules
are about. Clients send bytes, send packets and leave. A slot is stamped with
the wall clock, which may say anything in `Times`: it can be set. The timeout of a
TCP client counts down with the time spent in poll, not with that clock.
`iopause` is modelled as built with poll.

**IArray.** A list is the sequence of its pages, since a page's `next` never
changes once it is set. A thread's step is one read or one compare-and-swap of
shared memory. `io_fd` is the race to make the table, `Enter` … `SetLen` are
`iarray_allocate`.

**IoTable.** The functions of lib/io as operators from table to table, in the
build that waits with poll (`HAVE_EPOLL` and `HAVE_SIGIO` are commented out in
`lib/io_internal.h`). An entry's bits are sets of directions, so that one
operator stands for the reading and the writing function where they agree; where
they do not (`io_wantread`, `io_wantwrite`) there are two. `len` is what
`iarray_allocate` makes of it, the last position and not the highest. `mapped` has
the descriptors whose entry is on a page: `iarray_get` returns NULL for the
others, and `io_wantread`, `io_wantwrite`, `io_nonblock` and `io_close` then do
nothing. A page has `PerPage` positions of one of `Fanout` lists, so that with the
code's 16 lists each of a handful of descriptors is on a page of its own. Every new
entry empties both queues, because `io_waitmode` stays UNDECIDED in this build
(`io_fd.c:131`). `Next_ready` is the loop of `io_canread` and `io_canwrite`; a
queue may lead back to itself, and the loop ends because it cuts every entry it
passes.

**IoLoop.** Any program over IoTable: its actions call one function each, on
any descriptor, in any order, and open and close descriptors. `news` is what
the kernel has reported of each descriptor since it was opened and the program
has not yet been told. `rash` counts the two things after which the count of
watched descriptors is not kept: giving up interest in a descriptor that is
ready, and `io_fd_canwrite`.

**TinyProxy.** `server_loop` over the same IoTable: `Round` (the checks and the
wait), then `CanWrite` and `CanRead` for one socket each, `NoneToWrite` and
`NoneToRead` at the end of each loop, `Accept`. A step is the whole handling of
a socket, with `connection_find`, `socket_accept`, `socket_connect`,
`sockbuf_forward_data`, `buffer_put`, `buffer_flush`, `sockbuf_close` and
`connection_delete` inside it. `owner` says which end a descriptor really
belongs to, so that a reused number shows; data are units numbered by their
sender. A client that is refused leaves its number in the list, perhaps one that
was never registered and has no entry in the table. accept may fail at any time,
which ends the program. The ends of the program, and the call of a function that
was never set, are values of `pc`. The assumption that descriptors and twice the connections are fewer than
`Wrap` is about the 2^64 of `io_wanted_fds`, which is counted up again when a
watched number is closed and registered anew.

## 3. Runs

| run | instance | shows |
|---|---|---|
| cache_ring | 3 keys, 2 buckets, entries of 2 lengths, 128 bytes, file | layout, lists, no fault, refinement of the log, over every history |
| cache_time | 100 bytes, no file, ttl 0/1/3 (limit 2), clock that steps back, an entry longer than the ring, a bucket longer than the walk | expiry and the limit of the walk are exact, `cache_set` returns |
| cache_killed | CacheCrash | **violation**: see findings |
| dns_transmit | 3 servers (one absent), 3 rounds, 2-byte query, callers that start over | leaks, turns, `pos`, time, termination |
| dns_transmit_at_once | connect may succeed at once | **violation**: see findings |
| query | one question, 6 names, 8 kinds of packet, 3 levels, MAXLOOP 7 | aliases, zones, bailiwick, work, termination |
| query_forward | two questions, two configured zones, FORWARDONLY | rows reused between questions and zones |
| nscache_udp | 2 UDP slots, 4 packets, 1 TCP call, a clock that may step back | eviction, replies, poll array |
| nscache_tcp | 1 TCP slot, 2 calls, 6 bytes | buffers, descriptors, timeouts, slots come free |
| iarray | 3 threads, 3 positions in one list, 3 pages | ownership, stability, distinctness, progress |
| io_loop | 2 descriptors (0 only read, 2 blocking), one rash call, count modulo 8 | events, queues, count and assertions under any program |
| tinyproxy | 5 descriptors, the lowest listening; 4 clients; buffers of 1 unit, reads of 2; the first client sends 2 units, the remote end of the fourth 1, that of the second may hang up | sockets, data, listening, taking down |

**Why the bounds are enough.** The ring holds three short entries or two
mixed ones, so that it wraps, evicts across the end, and has gaps of every
kind; histories are unbounded (the state space is finite without a counter).
Two buckets and two keys in one bucket give lists of several items and
neighbours of every kind. `MaxLoop` (100 in the code) is above the length of
any bucket in cache_ring, and 1 in cache_time, where a bucket of three entries
is longer than the walk goes. Three rounds and two live servers around an absent one
give the first, the middle and the last of each loop. MAXLOOP 7 lets a question
use every level, follow an alias and a referral, and still run out. Two slots
and four packets reuse and evict each slot; six bytes are two whole requests of
one byte on a connection, its lengths included. With one TCP slot no two slots can
share a descriptor in nscache_tcp, and there are no UDP clients in it: those parts of
`SlotsOwnSockets` and `SlotsFree` say something in the theorem, and in a larger
instance, only. In iarray a list reaches its second page, whose link hangs on
another page, and there are as many pages as threads, which lets mmap fail. The Query runs set CHECK_DEADLOCK FALSE because after `MaxStarts`
questions no other client comes. Other caps are the named constants
`MaxPackets`, `MaxCalls`, `MaxBytes`.

In io_loop histories are unbounded; two descriptors give queues in which one is
behind the other, before it, twice or behind itself, and a number between them
that is never open makes the length of the table matter. Four sockets in
tinyproxy are two connections at a time, and four clients use numbers again
after a close and after a failed connect, and run out of them; buffers shorter than a read
make `buffer_put` take each of its ways. The run sets CHECK_DEADLOCK FALSE
because the program ends when accept fails. `Fanout` and `PerPage` are the code's: 16
lists, and pages of 4096 bytes with 73 entries. The one lookup that Knows exempts
happens in the run; the crash it leads to needs a larger instance (see 4). The second
connection is the one that may fall out of the table's length, so the end that
hangs up is one of its.

**Fairness.** Cache: a `cache_set` that was entered goes on, nothing in it
waits. DnsTransmit: the loops go on, a poll that reports nothing ends at the
deadline, and what poll reports is handed to `dns_transmit_get`; of the servers
nothing is assumed. The code looks at the deadline only when nothing was
reported, so a server that never stops sending packets that are ignored keeps a
query from ending, and `Returns` excepts that, by name (`Ignored`), and a caller
that never stops starting over. Without the first exception TLC finds the query
that does not end. Query: `query_run` goes on and each transmission ends, which is
`Returns` of DnsTransmit and needs the same exception. NsCache: the loop goes on, time passes (strong,
because it is enabled only in `iopause`), and each query ends (strong, because a
slot is looked at once a turn), which is `Ends` of Query. IArray: every thread
in a call is scheduled; nothing is assumed about who wins a compare-and-swap.
TinyProxy: the program goes on until it ends; which of its steps it takes is
settled by its state and the kernel, so the assumption is that steps other than
a hang-up never stop. poll reports a socket whose other end is gone at every
wait that asks about it. `TakenDown` is for connections that the wait asks
about: `len` may be below their sockets (see 4).

## 4. Findings

Shown by a run:

1. `cache.c:241` (cache_killed): a kill inside `cache_set` leaves registers and
   block in disagreement, and `cache_open` checks nothing.
2. `dns_transmit.c:246` (dns_transmit_at_once): when `connect` succeeds at once
   `pos` is not reset.

Kept by the models, and excluded from their properties by name:

3. `cache.c:203`: a `cache_set` that gives up on an entry longer than the ring
   has evicted the others and returns without `cache_update`; after a restart
   the file's registers describe entries that are in no list. CacheRing.cfg with
   `Data = {short, huge}` violates BucketLists.
4. `iarray_allocate.c:62`: `prevlen` is not read again in the loop that sets
   `len`, so a thread that lost the race spins for ever (`WalkEnds` says only
   that it gets there), and `len` is that of the last position registered, so
   that a wait does not ask about higher descriptors (`Looked` in TakenDown).
5. `io_fd.c:132`: registering a descriptor empties the queues; what was ready is
   found by the next wait. A client accepted in every round keeps tinyproxy from
   reading anything else.
6. `io_dontwantread.c:22`: the assertion fails and `io_wanted_fds` is counted
   off again when interest in a ready descriptor is given up twice (`rash`).
7. `tinyproxy.c:592`, `:565`: a connection whose connect failed stays listed and
   its socket stays open (the exceptions of Knows and OneOwner). Its number can
   come back as another connection's socket to the remote host, which is then
   taken for the refused client, and whose data go to the buffer that was never
   set up. TinyProxy.cfg reaches the wrong lookup but no data: the client's
   registration, with a smaller number than the remote socket's, lowers the length
   of the table (finding 4), and the wait does not ask about the remote socket any
   more. Searched exhaustively, the crash is not reached with five descriptors and
   up to six clients nor with six and five; it is with six descriptors and six
   clients, and with seven and five.
8. `buffer_flush.c:11`: what a short send does not take is lost (InOrder claims
   order, not completeness).
9. `query.c:45`: the loop of `dd` ends before it can find that the name ends after
   its fourth label, so `dd` never returns 4 and `globalip` (`:151`) takes no name
   that spells an address for it; it is looked up like any other.

## 5. Proofs

All are for arbitrary constants under the modules' named assumptions: any size
of the block, number of servers, tree of names, number of slots, threads,
descriptors or connections. The bounds that the runs need stay in the theorems
as constants of any value.

What is recursive over data (the walk of `cache_get`, the sums of timeouts, the
queues through the table, the number of a slot's entry in the poll array) is
written as a recursive function or as a count. The provers cannot apply an
induction rule to a predicate; these proofs take the set of counterexamples and
derive a contradiction from its least member, which `WFMin` provides.

* **CacheProofs** (`LayoutHolds`, `BucketListsHold`, `NoFaultHolds`,
  `GetsLatestHolds`, `RefinesLogHolds`). The
  layout is not inductive by itself: a step that stores must know that the room
  found earlier is still free, and a restart must find the registers it left.
  `Ring` therefore adds the types, `CallConsistent` and `HeaderCurrent` (the file
  has the registers between calls).
  `Lists` adds that no fault has occurred and the lists; the eviction step needs
  that the entry at `oldest` is the last of its list, which follows from the
  order of storing being the order of each list. For `GetsLatest` the place of
  an entry is the number of newer ones in its bucket; the list invariant makes
  turn n of the walk stand on place n, so that the walk ends at the newest
  entry of the key or at its limit. `Admitted` adds that what is in the block
  went through the checks of `cache_set`: short keys, and an expiry that a ttl
  up to the limit gives. For `RefinesLog`, a step that evicts takes the first in
  the order of storing, one that publishes adds the last, and `Wrap` renumbers
  the ranks and keeps their order. Assumption of the theorems:
  `UseFile => EntriesFit`, without which finding 3 refutes them.
* **DnsTransmitProofs** (`NoLeakHolds`, `RoundRobinHolds`, `PosIsSentHolds`,
  `TimeBoundHolds`).
  `Typed` adds that a query waits for a server that exists; `Turns` that no TCP
  call was made while UDP goes on; `Counted` that nothing is sent before the
  connection is there. `Clocked` bounds the time granted so far by that of the
  rounds finished, the servers passed in this one and, while a connection is
  being made, the second deadline that it may still get.
  `PosIsSentHolds` assumes `~AtOnce`, see finding 2.
* **NsCacheProofs** (`BufferStatesHold`, `SlotsOwnSocketsHold`, `EndsOnceHolds`,
  `RightReplyHolds`, `PollsOwnHolds`). Every step of the server is shown to be
  one of a few kinds of change to one slot, or none (`Steps`), and each invariant to survive every kind. `Shape` has the types;
  `Owned` and `Counted` say that the open descriptors are those of the busy TCP
  slots, one each, and that the counters count busy slots; `Tally` that each
  query number has either ended once or is in exactly one slot; and `Answers`
  that a slot's peer, id and question are those of its number, which for a TCP
  slot holds only in the state in which a query runs. `PollsOwn` is shown where
  the array is filled: a slot's entry is numbered by the active slots before it, so
  no two slots have the same one; until the loops are over slots are only given
  up, and none is taken.
* **QueryProofs** (`WorkBoundHolds`, `TypesHold`, `ReferralsDescend`,
  `AliasChainHolds`, `ZoneServersHold`, `BailiwickAlways`). A failed transmission
  does not count in `loop`; `Counters` shows that each gives up a level, and that
  levels are gained only by counted steps. `Typed` adds the tables and the
  names. `Trails` follows the aliases while the question runs and hands them to
  the response, which reverses them. `Zones` covers the levels whose rows are
  settled: the zone of a level is a suffix of its name with no configured zone
  in between, and its servers were learned for it. It needs `Bailiwick` for the
  rows that come from the cache, and `Bailiwick` needs it for what is
  cached, so the two are one invariant.
* **IArrayProofs** (`PagesOwnedHolds`, `StableHolds`, `DistinctHolds`). The
  invariant `IInv` adds to ownership and stability that nobody looks at the
  table before it is made and one thread makes it (`Making`), and that a thread
  stays within its list, not beyond its element, with a page in hand only where
  the code has one (`Walks`). The lists only grow, so what was found is found
  again; distinctness follows from ownership and the arithmetic of positions.
* **IoTableProofs**: what each function of lib/io makes of the table, as lemmas
  for both of its programs. The count is a cardinality, so each function has a
  lemma on how it changes the set of watched descriptors by one member or none.
* **IoLoopProofs** (`FreshHolds`, `WantedCountHolds`, `NoStrangerHolds`,
  `AssertsHoldHolds`, `AllQueuedHolds`), for any set of descriptors and every
  program. None is
  inductive. `IInv` adds that a closed descriptor's entry is not in use, so that
  opening it starts its entry anew; that what an entry of an open descriptor
  says is ready is in `news`, from which `Fresh` follows whatever the queues
  hold; and, while the program is not rash, `Calm`: the count is right, what is
  ready or wanted is watched by the kernel, and nothing closed is watched.
  `AllQueued` is about one wait: poll's answers are pushed from the highest
  descriptor to the lowest, so each is reached from the head behind those below
  it, whatever the queues were.
* **TinyProxyProofs** (`KnowsHolds`, `OneOwnerHolds`, `ListensHolds`,
  `InOrderHolds`). tinyproxy is not calm in the sense above: it closes
  sockets that are watched. `Tidy` is what remains: entries in use are the open
  descriptors, what is open or wanted has its place in the table (`Placed`), what is wanted or ready is watched, a closed socket is watched
  for reading at most, and the count is never below the number of watched
  descriptors and above it by at most two for each connection accepted
  (`Drift`). `Inv` adds that the sockets of a connection that was made are owned
  by its ends and shared with no newer connection, that every open socket has such
  an end or is of a connect that failed, that a
  connection that was never made has empty buffers, and that what was
  sent to an end followed by what is buffered for it are units of its peer, in
  rising order and none above the last one received (`Data`). `InOrder` speaks
  of what was sent only, which is not inductive. `Knows` follows from the lists: the
  newest connection with a number is the one that owns it, or one that was never
  made, which has the number on its client's side only.

**Only model-checked.** Liveness (`CallReturns`, `Returns`, `Ends`,
`SlotsFree`, `WalkEnds`, `TakenDown`), because the prover does not handle
fairness; and the two runs that end in a violation, which are counterexamples.

## 6. Not modelled

* Of the modelled parts: what msync has written when the machine loses power;
  the contents and formats of packets, responses and log lines; the lifetime of
  the strings in a query (names are values); memory ordering weaker than
  sequential consistency in IArray (its shared accesses are compare-and-swaps
  and reads that follow them); configuration and access control beyond their
  verdict.
* lib/io: the branches for epoll, kqueue, /dev/poll, SIGIO, select and Windows,
  which this build does not compile; `io_timeout` and `io_timeouted`, which
  tinyproxy does not use; cookies, mapped files, `io_sendfile`; calls before the
  first `io_fd`.
* tinyproxy: looking up the remote host and its cache, line buffering, dumps,
  logs, signals and the archive written on exit. httpproxy and tcpproxy are
  further programs of the same loop.
* The greatest part of the repository by lines is sequential: parsers and
  formatters (`lib/xml`, `lib/json`, `cparser`, generated scanners), containers,
  string functions, and tools that read their input once and print
  (`genmakefile.c`, `pkgcfg.c`, `list-r.c`, `ftpcopy.c`, the eagle tools). They
  keep no state between operations that could be interrupted, interleaved or
  lost, so a state machine of them would repeat the program; unit tests reach
  what can go wrong there. This is why the models cover a small share of the
  lines.
* lib/tls is a thin layer over a library; lib/http is the next candidate.

## 7. Plan

1. **NsCache with Query**: the abstract "a query runs and ends" stated as a
   module that both refine.
2. **Timeouts** of lib/io and the programs that use them; the http client under
   partial reads, chunked bodies and the end of the connection.
3. **Proofs**: the variants behind the liveness properties stated as safety,
   the way `WorkBound` and `TimeBound` already bound two of them: that the walk
   of `iarray_allocate` and the eviction loop of `cache_set` get shorter at every
   turn; and what does survive a kill in CacheCrash.
