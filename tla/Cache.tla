------------------------------- MODULE Cache -------------------------------
(***************************************************************************)
(* The cache of the DNS resolver nscache (src/cache.c).                    *)
(*                                                                         *)
(* The cache is one block x of Size bytes.  x[0 .. HSize-1] holds the head *)
(* links of the hash buckets; the rest is a ring of variable-length        *)
(* entries between the registers writer, oldest and unused.  Every bucket  *)
(* is a doubly linked list in which each item stores a single word, the    *)
(* exclusive or of the positions of its two neighbours.                    *)
(*                                                                         *)
(* Positions and lengths are the program's own numbers.  A link word is a  *)
(* symbolic exclusive or: the set of the positions that went into it an    *)
(* odd number of times, position 0 (bucket 0, and the end of a list)       *)
(* contributing nothing, as in the code.  A word with two or more members  *)
(* is no position the list uses: following it is a fault, never a guess.   *)
(*                                                                         *)
(* cache_set is cut into the steps between which the process can be killed *)
(* with a different memory image; nothing else runs between them.          *)
(***************************************************************************)
EXTENDS Integers, FiniteSets

CONSTANTS
  Size,        \* bytes of x (`size`)
  Keys,        \* the keys stored
  KeyLen,      \* [Keys -> Nat]: keylen
  KeyHash,     \* [Keys -> Buckets]: hash(key, keylen)
  Data,        \* the data stored
  DataLen,     \* [Data -> Nat]: datalen
  TTLs,        \* the ttl arguments of cache_set
  Clock,       \* the values tai_now may read
  MaxKeyLen,   \* MAXKEYLEN, 1000 in the code
  MaxDataLen,  \* MAXDATALEN, 1000000 in the code
  MaxTTL,      \* 604800 seconds in the code
  MaxLoop,     \* the bound on the walk along a bucket, 100 in the code
  UseFile      \* TRUE: $CACHEFILE is set, x is a shared mapping of that file

-----------------------------------------------------------------------------
(* Geometry.                                                               *)

\* The powers of two that hsize can take while size stays below 2^30.
HashSizes == {4, 8, 16, 32, 64, 128, 256, 512, 1024, 2048, 4096, 8192, 16384,
              32768, 65536, 131072, 262144, 524288, 1048576, 2097152,
              4194304, 8388608, 16777216, 33554432}

\* hsize = 4; while(hsize <= (size >> 5)) hsize <<= 1, where h <= (size >> 5)
\* says that 32 * h <= size.
HSize == CHOOSE h \in HashSizes :
           /\ 32 * h > Size
           /\ \A g \in HashSizes : 32 * g > Size => h <= g

\* The positions of the head links, as masked by hash().
Buckets == {p \in 0 .. HSize - 4 : p % 4 = 0}

\* 4-byte link, keylen and datalen, 8-byte expire time.
HeaderLen == 20

EntryLen(k, d) == KeyLen[k] + DataLen[d] + HeaderLen

ASSUME SizeAssumption == Size \in Nat /\ 100 <= Size /\ Size <= 1000000000
ASSUME KeyAssumption == /\ KeyLen \in [Keys -> Nat]
                        /\ KeyHash \in [Keys -> Buckets]
ASSUME DataAssumption == DataLen \in [Data -> Nat]
ASSUME TimeAssumption == /\ TTLs \subseteq Nat
                         /\ Clock \subseteq Nat
                         /\ Clock # {}
                         /\ MaxTTL \in Nat
ASSUME LimitAssumption == /\ MaxKeyLen \in Nat
                          /\ MaxDataLen \in Nat
                          /\ MaxLoop \in Nat
                          /\ UseFile \in BOOLEAN

-----------------------------------------------------------------------------
VARIABLES
  heads,    \* [Buckets -> Link]: the words x[0 .. HSize-1]
  entry,    \* the entries in x by position, those behind the registers too
  writer, oldest, unused,   \* the registers of the running process
  header,   \* <<writer, oldest, unused>> as stored in the mapped file
  call,     \* the cache_set in progress and where it stands
  status,   \* "ok", or the fault that ended the process
  now       \* what tai_now reads

vars == <<heads, entry, writer, oldest, unused, header, call, status, now>>

Pos == 0 .. Size

Link == SUBSET (Pos \ {0})

Entry == [link : Link, key : Keys, data : Data, expire : Nat]

\* The symbolic exclusive or of the header comment.
Xor(a, b) == (a \ b) \cup (b \ a)

Word(p) == IF p = 0 THEN {} ELSE {p}

IsPosition(w) == \A p, q \in w : p = q

Position(w) == IF w = {} THEN 0 ELSE CHOOSE p \in w : w = {p}

Idle == [pc |-> "idle"]

-----------------------------------------------------------------------------
(* Access to x.                                                            *)

\* The words that get4 and set4 may address: a head link or an entry's link.
Addressable == Buckets \cup DOMAIN entry

get4(p) == IF p \in Buckets THEN heads[p] ELSE entry[p].link

HeadsWith(p, w) == IF p \in Buckets THEN [heads EXCEPT ![p] = w] ELSE heads

EntryWith(p, w) ==
  IF p \in Buckets THEN entry ELSE [entry EXCEPT ![p].link = w]

Bytes(p) == EntryLen(entry[p].key, entry[p].data)

\* Storing len bytes at p destroys every entry they overlap.
Surviving(p, len) ==
  {q \in DOMAIN entry : q + Bytes(q) <= p \/ p + len <= q}

-----------------------------------------------------------------------------
(* cache_find and cache_get.                                               *)

\* w addresses an entry of x.
OnEntry(w) == w # {} /\ IsPosition(w) /\ Position(w) \in DOMAIN entry

\* prevpos and the word that gives pos at the n-th turn of the walk along the
\* bucket of k; the walk ends off the list.
Walk(k) ==
  LET walk[n \in 0 .. MaxLoop] ==
        IF n = 0
        THEN [prev |-> KeyHash[k], pos |-> heads[KeyHash[k]]]
        ELSE LET w == walk[n - 1]
                 p == Position(w.pos)
             IN  IF OnEntry(w.pos)
                 THEN [prev |-> p, pos |-> Xor(Word(w.prev), entry[p].link)]
                 ELSE [prev |-> 0, pos |-> {}]
  IN [n \in 0 .. MaxLoop |-> walk[n].pos]

\* The position of the first entry with key k on the walk, 0 for none.
cache_find(k) ==
  LET walk == Walk(k)
      hits == {n \in 0 .. MaxLoop :
                 OnEntry(walk[n]) /\ entry[Position(walk[n])].key = k}
  IN  IF KeyLen[k] > MaxKeyLen \/ hits = {}
      THEN 0
      ELSE Position(walk[CHOOSE n \in hits : \A m \in hits : n <= m])

Miss == [hit |-> FALSE]

AtMost(t) == IF t > MaxTTL THEN MaxTTL ELSE t

\* Mutant: the expire time is not looked at.
cache_get_Stale(k) ==
  LET p == cache_find(k)
  IN  IF p = 0
      THEN Miss
      ELSE [hit |-> TRUE, data |-> entry[p].data,
            ttl |-> AtMost(entry[p].expire - now)]

\* The answer of cache_get: data and the remaining ttl, unless expired.
cache_get(k) ==
  LET p == cache_find(k)
  IN  IF p = 0 \/ entry[p].expire < now
      THEN Miss
      ELSE [hit |-> TRUE, data |-> entry[p].data,
            ttl |-> AtMost(entry[p].expire - now)]

-----------------------------------------------------------------------------
(* cache_set.                                                              *)

\* The arguments pass the early returns; ttl is clamped.
cache_set(k, d, t) ==
  /\ status = "ok"
  /\ call = Idle
  /\ KeyLen[k] <= MaxKeyLen
  /\ DataLen[d] <= MaxDataLen
  /\ t # 0
  /\ call' = [pc |-> "room", key |-> k, data |-> d, ttl |-> AtMost(t)]
  /\ UNCHANGED <<heads, entry, writer, oldest, unused, header, status, now>>

\* entrylen of the call in progress.
CallLen == EntryLen(call.key, call.data)

At(pc) == status = "ok" /\ call.pc = pc

\* Mutant: the test for an empty ring is strict.
GiveUp_Strict ==
  /\ At("room")
  /\ writer + CallLen > oldest
  /\ oldest = unused
  /\ writer < HSize
  /\ call' = Idle
  /\ UNCHANGED <<heads, entry, writer, oldest, unused, header, status, now>>

\* Mutant: giving up as soon as the old run is gone, not the new one.
GiveUp_Early ==
  /\ At("room")
  /\ writer + CallLen > oldest
  /\ oldest = unused
  /\ call' = Idle
  /\ UNCHANGED <<heads, entry, writer, oldest, unused, header, status, now>>

\* Everything is evicted and the entry is still too long: return.
GiveUp ==
  /\ At("room")
  /\ writer + CallLen > oldest
  /\ oldest = unused
  /\ writer <= HSize
  /\ call' = Idle
  /\ UNCHANGED <<heads, entry, writer, oldest, unused, header, status, now>>

\* get4, set4 or the final comparison would run cache_impossible, or the
\* links address bytes that are no link word.
Fault ==
  /\ status' = "fault"
  /\ call' = Idle
  /\ UNCHANGED <<heads, entry, writer, oldest, unused, header, now>>

\* Mutant: the two registers are not moved to size when the old run is gone.
EvictAt_NoReset(old, wr, un) ==
  LET p == Position(entry[old].link)
      w == Xor(get4(p), {old})
  IN  /\ heads' = HeadsWith(p, w)
      /\ entry' = EntryWith(p, w)
      /\ writer' = wr
      /\ oldest' = old + Bytes(old)
      /\ unused' = un
      /\ UNCHANGED <<header, call, status, now>>

\* Mutant: the entry is passed over but stays linked in its bucket.
EvictAt_NoUnlink(old, wr, un) ==
  IF ~IsPosition(entry[old].link)
  THEN Fault
  ELSE LET nxt == old + Bytes(old)
       IN  /\ writer' = wr
           /\ oldest' = (IF nxt = un THEN Size ELSE nxt)
           /\ unused' = (IF nxt = un THEN Size ELSE un)
           /\ UNCHANGED <<heads, entry, header, call, status, now>>

\* One turn of the while loop: unlink the entry at old from the tail of its
\* bucket and advance past it.
EvictAt(old, wr, un) ==
  IF \/ old \notin DOMAIN entry
     \/ ~IsPosition(entry[old].link)
     \/ Position(entry[old].link) \notin Addressable
     \/ old + Bytes(old) > un
  THEN Fault
  ELSE LET p   == Position(entry[old].link)
           w   == Xor(get4(p), {old})
           nxt == old + Bytes(old)
       IN  /\ heads' = HeadsWith(p, w)
           /\ entry' = EntryWith(p, w)
           /\ writer' = wr
           /\ oldest' = (IF nxt = un THEN Size ELSE nxt)
           /\ unused' = (IF nxt = un THEN Size ELSE un)
           /\ UNCHANGED <<header, call, status, now>>

Evict ==
  /\ At("room")
  /\ writer + CallLen > oldest
  /\ oldest # unused
  /\ EvictAt(oldest, writer, unused)

\* The ring is used up: start again at its beginning, with the entries
\* written so far as the old ones.
Wrap ==
  /\ At("room")
  /\ writer + CallLen > oldest
  /\ oldest = unused
  /\ writer > HSize
  /\ EvictAt(HSize, HSize, writer)

\* Mutant: the old newest entry keeps the head in its link.
Relink_KeepHead ==
  /\ At("room")
  /\ writer + CallLen <= oldest
  /\ LET w == heads[KeyHash[call.key]]
     IN  entry' = IF OnEntry(w)
                  THEN [entry EXCEPT ![Position(w)].link = Xor(@, {writer})]
                  ELSE entry
  /\ call' = [call EXCEPT !.pc = "store"]
  /\ UNCHANGED <<heads, writer, oldest, unused, header, status, now>>

\* pos = get4(keyhash); if(pos) set4(pos, get4(pos) ^ keyhash ^ writer)
Relink ==
  /\ At("room")
  /\ writer + CallLen <= oldest
  /\ LET h == KeyHash[call.key]
         p == Position(heads[h])
     IN  IF heads[h] = {}
         THEN /\ call' = [call EXCEPT !.pc = "store"]
              /\ UNCHANGED <<heads, entry, writer, oldest, unused, header,
                             status, now>>
         ELSE IF ~IsPosition(heads[h]) \/ p \notin DOMAIN entry
         THEN Fault
         ELSE /\ entry' = [entry EXCEPT ![p].link =
                             Xor(Xor(@, Word(h)), {writer})]
              /\ call' = [call EXCEPT !.pc = "store"]
              /\ UNCHANGED <<heads, writer, oldest, unused, header, status,
                             now>>

\* The new entry's link, lengths, expire time, key and data.
Store ==
  /\ At("store")
  /\ LET h == KeyHash[call.key]
         e == [link |-> Xor(heads[h], Word(h)), key |-> call.key,
               data |-> call.data, expire |-> now + call.ttl]
         s == Surviving(writer, CallLen)
     IN  entry' = [q \in s \cup {writer} |-> IF q = writer THEN e
                                                           ELSE entry[q]]
  /\ call' = [call EXCEPT !.pc = "head"]
  /\ UNCHANGED <<heads, writer, oldest, unused, header, status, now>>

\* set4(keyhash, writer); writer += entrylen
SetHead ==
  /\ At("head")
  /\ heads' = [heads EXCEPT ![KeyHash[call.key]] = {writer}]
  /\ writer' = writer + CallLen
  /\ call' = [call EXCEPT !.pc = "update"]
  /\ UNCHANGED <<entry, oldest, unused, header, status, now>>

\* The registers are stored in the file; cache_set returns.
cache_update ==
  /\ At("update")
  /\ header' = (IF UseFile THEN <<writer, oldest, unused>> ELSE header)
  /\ call' = Idle
  /\ UNCHANGED <<heads, entry, writer, oldest, unused, status, now>>

-----------------------------------------------------------------------------
(* The process around it.                                                  *)

Fresh == <<HSize, Size, Size>>

\* A new process runs cache_init, or cache_open on the file that exists.
Load(hd, en, rg) ==
  /\ heads' = hd
  /\ entry' = en
  /\ writer' = rg[1]
  /\ oldest' = rg[2]
  /\ unused' = rg[3]
  /\ header' = rg
  /\ call' = Idle
  /\ status' = "ok"
  /\ UNCHANGED now

cache_init ==
  /\ ~UseFile
  /\ Load([b \in Buckets |-> {}], [p \in {} |-> Idle], Fresh)

cache_open ==
  /\ UseFile
  /\ Load(heads, entry, header)

\* The server is stopped and started again between two calls.
Restart ==
  /\ status = "ok"
  /\ call = Idle
  /\ cache_init \/ cache_open

\* The wall clock, which may be stepped back.
Tick ==
  /\ status = "ok"
  /\ call = Idle
  /\ now' \in Clock \ {now}
  /\ UNCHANGED <<heads, entry, writer, oldest, unused, header, call, status>>

\* cache_init, or cache_open on a file it has just created.
Init ==
  /\ heads = [b \in Buckets |-> {}]
  /\ entry = [p \in {} |-> Idle]
  /\ writer = HSize
  /\ oldest = Size
  /\ unused = Size
  /\ header = Fresh
  /\ call = Idle
  /\ status = "ok"
  /\ now \in Clock

Next ==
  \/ \E k \in Keys, d \in Data, t \in TTLs : cache_set(k, d, t)
  \/ GiveUp
  \/ Evict
  \/ Wrap
  \/ Relink
  \/ Store
  \/ SetHead
  \/ cache_update
  \/ Restart
  \/ Tick

Spec == Init /\ [][Next]_vars

\* The steps of a cache_set that has been entered; the process runs them
\* without waiting for anything.
CallStep == GiveUp \/ Evict \/ Wrap \/ Relink \/ Store \/ SetHead
              \/ cache_update

FairSpec == Spec /\ WF_vars(CallStep)

-----------------------------------------------------------------------------
(* Derived state.                                                          *)

OldLive == {p \in DOMAIN entry : oldest <= p /\ p < unused}

NewLive == {p \in DOMAIN entry : p < writer}

Live == OldLive \cup NewLive

\* The order of storing: the run behind oldest precedes the one up to writer.
Rank(p) == IF p < writer THEN p + Size ELSE p

HashAt(p) == KeyHash[entry[p].key]

Bucket(h) == {p \in Live : HashAt(p) = h}

\* The live entries of p's bucket stored after p, and before p.
Newer(p) == {q \in Bucket(HashAt(p)) : Rank(p) < Rank(q)}
Older(p) == {q \in Bucket(HashAt(p)) : Rank(q) < Rank(p)}

\* What precedes the newest entry of bucket h in its list: the head, or the
\* entry that a cache_set is about to put between them.
Leader(h) == IF call.pc \in {"store", "head"} /\ KeyHash[call.key] = h
            THEN writer ELSE h

\* u and l are the neighbours of p in its list.
Above(p, u) ==
  \/ Newer(p) = {} /\ u = Leader(HashAt(p))
  \/ u \in Newer(p) /\ \A q \in Newer(p) : Rank(u) <= Rank(q)

Below(p, l) ==
  \/ Older(p) = {} /\ l = 0
  \/ l \in Older(p) /\ \A q \in Older(p) : Rank(q) <= Rank(l)

Newest(S) == CHOOSE p \in S : \A q \in S : Rank(q) <= Rank(p)

-----------------------------------------------------------------------------
(* Properties.                                                             *)

Call == {Idle} \cup [pc : {"room", "store", "head", "update"},
                     key : Keys, data : Data, ttl : Nat]

\* Type correctness of the block, the registers and the call in progress.
TypeOK ==
  /\ heads \in [Buckets -> Link]
  /\ DOMAIN entry \subseteq Pos
  /\ entry \in [DOMAIN entry -> Entry]
  /\ writer \in Nat /\ oldest \in Nat /\ unused \in Nat
  /\ header \in Nat \X Nat \X Nat
  /\ call \in Call
  /\ status \in {"ok", "fault"}
  /\ now \in Clock

\* S is a run of consecutive entries that fills x[a .. b-1] exactly.
Tiled(S, a, b) ==
  /\ a = b \/ a \in S
  /\ \A p \in S : /\ a <= p
                  /\ p + Bytes(p) <= b
                  /\ p + Bytes(p) = b \/ p + Bytes(p) \in S
  /\ \A p, q \in S : p < q => p + Bytes(p) <= q

\* The header comment of cache.c: hsize <= writer <= oldest <= unused <=
\* size, oldest = unused only at size, and x[hsize .. writer-1] and
\* x[oldest .. unused-1] are runs of consecutive entries.
Layout ==
  /\ HSize <= writer
  /\ writer <= oldest
  /\ oldest <= unused
  /\ unused <= Size
  /\ oldest = unused => unused = Size
  /\ Tiled(NewLive, HSize, writer)
  /\ Tiled(OldLive, oldest, unused)

\* cache_impossible is never run: no link, length or register ever leads
\* cache_set outside the items of the list, whatever was stored before.
NoFault == status = "ok"

\* The head link of bucket h is its newest entry.
Headed(h) ==
  \/ Bucket(h) = {} /\ heads[h] = {}
  \/ \E p \in Bucket(h) : heads[h] = {p} /\ Newer(p) = {}

\* The entry at p stores the exclusive or of the positions of its neighbours.
Linked(p) ==
  \E u, l \in Addressable \cup {writer} :
    /\ Above(p, u)
    /\ Below(p, l)
    /\ entry[p].link = Xor(Word(u), Word(l))

\* Each bucket is the list of its live entries, newest first, each linked to
\* its two neighbours, at every step of a cache_set.
BucketLists == (\A h \in Buckets : Headed(h)) /\ (\A p \in Live : Linked(p))

\* cache_get answers with the data last stored under the key, and only while
\* it has not expired; a key whose last entry lies more than MaxLoop entries
\* down its bucket is a miss.
GetsLatest ==
  call = Idle =>
    \A k \in Keys :
      LET S == {p \in Live : entry[p].key = k}
          p == Newest(S)
      IN  cache_get(k) =
            IF \/ S = {}
               \/ Cardinality(Newer(p)) > MaxLoop
               \/ entry[p].expire < now
            THEN Miss
            ELSE [hit |-> TRUE, data |-> entry[p].data,
                  ttl |-> AtMost(entry[p].expire - now)]

\* While a cache_set is under way the room it found stays free, and the entry
\* it has stored but not yet published is whole and linked as a list head.
CallConsistent ==
  /\ \A p \in DOMAIN entry : HSize <= p
  /\ call.pc \in {"store", "head"} => writer + CallLen <= oldest
  /\ call.pc = "head" =>
       /\ writer \in DOMAIN entry
       /\ entry[writer].key = call.key
       /\ entry[writer].data = call.data
       /\ entry[writer].link = Xor(heads[KeyHash[call.key]],
                                   Word(KeyHash[call.key]))
       /\ \A q \in DOMAIN entry : q <= writer \/ writer + CallLen <= q

\* Every entry that can be asked for fits into an empty ring.
EntriesFit == \A k \in Keys, d \in Data : HSize + EntryLen(k, d) <= Size

\* cache_set returns: the eviction loop cannot run for ever.
CallReturns == (call # Idle) ~> (call = Idle)

=============================================================================
