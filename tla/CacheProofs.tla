---------------------------- MODULE CacheProofs ----------------------------
(* Proofs about Cache for every size, every set of keys and data and every *)
(* sequence of calls.                                                      *)
EXTENDS CacheRefinesLog, SequenceTheorems, WellFoundedInduction, FiniteSetTheorems, TLAPS

(* hsize is a power of two between 4 and size/16, as the comment at the    *)
(* top of cache.c says.                                                    *)
LEMMA HSizeBounds == /\ HSize \in HashSizes
                     /\ HSize \in Nat
                     /\ 4 <= HSize
                     /\ 16 * HSize <= Size
<1> DEFINE Fits(h) == /\ 32 * h > Size
                      /\ \A g \in HashSizes : 32 * g > Size => h <= g
<1>1. Size \in Nat /\ 100 <= Size /\ Size <= 1000000000
  BY SMT, SizeAssumption
<1>2. \E h \in HashSizes : Fits(h)
  BY SMT, <1>1 DEF HashSizes
<1>3. HSize \in HashSizes /\ Fits(HSize)
  BY SMT, <1>2 DEF HSize
<1>4. HSize = 4 \/ \E g \in HashSizes : HSize = 2 * g
  BY SMT, <1>3 DEF HashSizes
<1>5. HSize \in Nat /\ 4 <= HSize
  BY SMT, <1>3 DEF HashSizes
<1>6. ASSUME NEW g \in HashSizes, HSize = 2 * g
      PROVE  16 * HSize <= Size
  <2>1. g \in Nat /\ g < HSize
    BY SMT, <1>5, <1>6 DEF HashSizes
  <2> QED BY SMT, <1>1, <1>3, <1>6, <2>1
<1> QED BY SMT, <1>1, <1>3, <1>4, <1>5, <1>6

-----------------------------------------------------------------------------
(* Facts about sizes that the steps below use; the large literals stay out *)
(* of their obligations.                                                   *)

LEMMA Geometry ==
  /\ Size \in Nat /\ HSize \in Nat
  /\ 4 <= HSize /\ HSize < Size
  /\ \A b \in Buckets : b \in Nat /\ b < HSize
  /\ 0 \in Buckets
<1>1. Size \in Nat /\ HSize \in Nat /\ 4 <= HSize /\ HSize < Size
  BY SMT, HSizeBounds, SizeAssumption
<1>2. \A b \in Buckets : b \in Nat /\ b < HSize
  BY <1>1 DEF Buckets
<1>3. 0 \in Buckets
  BY <1>1 DEF Buckets
<1> QED BY <1>1, <1>2, <1>3

LEMMA EntryLenNat ==
  ASSUME NEW k \in Keys, NEW d \in Data
  PROVE  EntryLen(k, d) \in Nat /\ EntryLen(k, d) >= 20
BY KeyAssumption, DataAssumption DEF EntryLen, HeaderLen

(* An entry is never empty: it has at least its 20-byte header.            *)
LEMMA BytesNat ==
  ASSUME TypeOK, NEW p \in DOMAIN entry
  PROVE  Bytes(p) \in Nat /\ Bytes(p) >= 20
<1>1. entry[p].key \in Keys /\ entry[p].data \in Data
  BY DEF TypeOK, Entry
<1> QED BY <1>1, EntryLenNat DEF Bytes

-----------------------------------------------------------------------------
(* Link words.                                                             *)

LEMMA XorLink ==
  ASSUME NEW a \in Link, NEW b \in Link
  PROVE  Xor(a, b) \in Link
BY DEF Xor, Link

LEMMA WordLink ==
  ASSUME NEW p \in Pos
  PROVE  Word(p) \in Link
BY DEF Word, Link

LEMMA PosLink ==
  ASSUME NEW p \in Nat, 0 < p, p <= Size
  PROVE  {p} \in Link
BY Geometry DEF Link, Pos

LEMMA BucketLink ==
  ASSUME NEW b \in Buckets
  PROVE  Word(b) \in Link
<1>1. b \in Pos
  BY Geometry DEF Pos
<1> QED BY <1>1, WordLink

LEMMA get4Link ==
  ASSUME TypeOK, NEW p \in Addressable
  PROVE  get4(p) \in Link
BY DEF TypeOK, Addressable, get4, Entry

(* set4 on a link changes nothing but that link.                           *)
LEMMA SetLink ==
  ASSUME TypeOK, NEW p \in Addressable, NEW w \in Link
  PROVE  /\ HeadsWith(p, w) \in [Buckets -> Link]
         /\ DOMAIN EntryWith(p, w) = DOMAIN entry
         /\ EntryWith(p, w) \in [DOMAIN entry -> Entry]
         /\ \A q \in DOMAIN entry :
              /\ EntryWith(p, w)[q].key = entry[q].key
              /\ EntryWith(p, w)[q].data = entry[q].data
              /\ EntryWith(p, w)[q].expire = entry[q].expire
<1>1. CASE p \in Buckets
  BY <1>1 DEF TypeOK, HeadsWith, EntryWith
<1>2. CASE p \notin Buckets
  <2>1. p \in DOMAIN entry
    BY <1>2 DEF Addressable
  <2> QED BY <1>2, <2>1 DEF TypeOK, HeadsWith, EntryWith, Entry
<1> QED BY <1>1, <1>2

-----------------------------------------------------------------------------
(* The eviction step: Run is the run of old entries from old up to un.     *)

Run(old, un) == {p \in DOMAIN entry : old <= p /\ p < un}

LEMMA EvictLayout ==
  ASSUME TypeOK, NEW old \in Nat, NEW wr \in Nat, NEW un \in Nat,
         \A p \in DOMAIN entry : HSize <= p,
         HSize <= wr, wr <= old, old < un, un <= Size,
         Tiled(Run(0, wr), HSize, wr),
         Tiled(Run(old, un), old, un),
         EvictAt(old, wr, un), status' = "ok"
  PROVE  /\ heads' \in [Buckets -> Link]
         /\ DOMAIN entry' = DOMAIN entry
         /\ entry' \in [DOMAIN entry -> Entry]
         /\ \A q \in DOMAIN entry : /\ entry'[q].key = entry[q].key
                                    /\ entry'[q].data = entry[q].data
         /\ writer' \in Nat /\ oldest' \in Nat /\ unused' \in Nat
         /\ UNCHANGED <<header, call, status, now>>
         /\ Layout'
<1> DEFINE p   == Position(entry[old].link)
           w   == Xor(get4(p), {old})
           nxt == old + Bytes(old)
<1>1. /\ old \in DOMAIN entry
      /\ p \in Addressable
      /\ nxt <= un
      /\ heads' = HeadsWith(p, w)
      /\ entry' = EntryWith(p, w)
      /\ writer' = wr
      /\ oldest' = (IF nxt = un THEN Size ELSE nxt)
      /\ unused' = (IF nxt = un THEN Size ELSE un)
      /\ UNCHANGED <<header, call, status, now>>
  <2>1. ~ ( \/ old \notin DOMAIN entry
            \/ ~IsPosition(entry[old].link)
            \/ Position(entry[old].link) \notin Addressable
            \/ old + Bytes(old) > un )
    BY DEF EvictAt, Fault
  <2>2. nxt \in Nat
    BY <2>1, BytesNat
  <2> QED BY <2>1, <2>2 DEF EvictAt
<1>2. w \in Link
  <2>1. {old} \in Link
    BY <1>1, Geometry, PosLink
  <2> QED BY <1>1, <2>1, get4Link, XorLink
<1>3. /\ heads' \in [Buckets -> Link]
      /\ DOMAIN entry' = DOMAIN entry
      /\ entry' \in [DOMAIN entry -> Entry]
      /\ \A q \in DOMAIN entry : /\ entry'[q].key = entry[q].key
                                 /\ entry'[q].data = entry[q].data
  BY <1>1, <1>2, SetLink
<1>4. \A q \in DOMAIN entry : Bytes(q)' = Bytes(q)
  BY <1>3 DEF Bytes
<1>5. nxt \in Nat /\ old < nxt
  BY <1>1, BytesNat
<1>6. writer' \in Nat /\ oldest' \in Nat /\ unused' \in Nat
  BY <1>1, <1>5, Geometry
<1>7. \A q \in DOMAIN entry : Bytes(q) \in Nat /\ q \in Nat
  BY BytesNat, Geometry DEF TypeOK, Pos
<1>8. Tiled(NewLive, HSize, writer)'
  <2>1. NewLive' = Run(0, wr)
    BY <1>1, <1>3, <1>7 DEF NewLive, Run
  <2> QED BY <2>1, <1>1, <1>4, <1>7 DEF Tiled, Run
<1>9. Tiled(OldLive, oldest, unused)'
  <2>1. CASE nxt = un
    <3>1. OldLive' = {}
      BY <2>1, <1>1, <1>3, <1>7, Geometry DEF OldLive
    <3> QED BY <3>1, <2>1, <1>1 DEF Tiled
  <2>2. CASE nxt # un
    <3>1. OldLive' = Run(old, un) \ {old}
      <4>1. \A q \in Run(old, un) : q = old \/ nxt <= q
        BY <1>1, <1>7 DEF Tiled, Run
      <4>2. OldLive' = Run(nxt, un)
        BY <2>2, <1>1, <1>3 DEF OldLive, Run
      <4> QED BY <4>1, <4>2, <1>5, <1>7 DEF Run
    <3>2. nxt \in Run(old, un)
      BY <2>2, <1>1, <1>7 DEF Tiled, Run
    <3>3. \A q \in Run(old, un) \ {old} : nxt <= q
      BY <1>1, <1>7 DEF Tiled, Run
    <3>4. \A q \in OldLive' : Bytes(q)' = Bytes(q) /\ Bytes(q) \in Nat /\ q \in Nat
      BY <3>1, <1>4, <1>7 DEF Run
    <3>5. oldest' = nxt /\ unused' = un
      BY <2>2, <1>1
    <3>6. \A q \in OldLive' : q + Bytes(q) # old
      BY <3>1, <3>3, <3>4, <1>5, <1>7
    <3> QED BY <3>1, <3>2, <3>3, <3>4, <3>5, <3>6, <1>5 DEF Tiled
  <2> QED BY <2>1, <2>2
<1>10. Layout'
  <2>1. /\ HSize <= writer'
        /\ writer' <= oldest'
        /\ oldest' <= unused'
        /\ unused' <= Size
        /\ oldest' = unused' => unused' = Size
    BY <1>1, <1>5, Geometry
  <2> QED BY <2>1, <1>8, <1>9, Geometry DEF Layout
<1> QED BY <1>1, <1>3, <1>6, <1>10
-----------------------------------------------------------------------------
(* The inductive invariant of the ring: Layout needs to know that the room *)
(* a call has found stays free until the entry is published, and what the  *)
(* file says, for the next process.                                        *)

HeaderCurrent ==
  UseFile /\ status = "ok" /\ call = Idle => header = <<writer, oldest, unused>>

Ring == TypeOK /\ Layout /\ CallConsistent /\ HeaderCurrent

(* Steps that move no register and keep the live entries.                  *)
LEMMA LayoutSame ==
  ASSUME TypeOK, Layout,
         UNCHANGED <<writer, oldest, unused>>,
         NewLive' = NewLive, OldLive' = OldLive,
         \A q \in Live : Bytes(q)' = Bytes(q)
  PROVE  Layout'
<1>1. Tiled(NewLive, HSize, writer)'
  BY DEF Layout, Tiled, Live
<1>2. Tiled(OldLive, oldest, unused)'
  BY DEF Layout, Tiled, Live
<1> QED BY <1>1, <1>2 DEF Layout

(* The call in progress.                                                   *)
LEMMA CallFacts ==
  ASSUME TypeOK, call.pc \in {"room", "store", "head", "update"}
  PROVE  /\ call \in [pc : {"room", "store", "head", "update"},
                      key : Keys, data : Data, ttl : Nat]
         /\ call.key \in Keys /\ call.data \in Data /\ call.ttl \in Nat
         /\ KeyHash[call.key] \in Buckets
         /\ CallLen \in Nat /\ CallLen >= 20
<1>1. call # Idle
  BY DEF Idle
<1>2. call \in [pc : {"room", "store", "head", "update"},
                key : Keys, data : Data, ttl : Nat]
  BY <1>1 DEF TypeOK, Call
<1>3. call.key \in Keys /\ call.data \in Data /\ call.ttl \in Nat
  BY <1>2
<1> QED BY <1>2, <1>3, EntryLenNat, KeyAssumption DEF CallLen

(* Where a call goes when it moves from one pc to the next.                *)
LEMMA CallMoves ==
  ASSUME TypeOK, call.pc \in {"room", "store", "head", "update"},
         NEW c \in {"room", "store", "head", "update"},
         call' = [call EXCEPT !.pc = c]
  PROVE  /\ call' \in Call
         /\ call'.pc = c
         /\ call'.key = call.key /\ call'.data = call.data /\ call'.ttl = call.ttl
         /\ CallLen' = CallLen
<1>1. call \in [pc : {"room", "store", "head", "update"},
                key : Keys, data : Data, ttl : Nat]
  BY CallFacts
<1>2. call' \in Call /\ call'.pc = c /\ call'.key = call.key
        /\ call'.data = call.data /\ call'.ttl = call.ttl
  BY <1>1 DEF Call
<1> QED BY <1>2 DEF CallLen

LEMMA RingInit == Init => Ring
<1> SUFFICES ASSUME Init PROVE Ring
  OBVIOUS
<1>1. DOMAIN entry = {}
  BY DEF Init
<1>2. TypeOK
  BY <1>1, Geometry DEF TypeOK, Init, Fresh, Link, Call, Entry
<1>3. Layout
  BY <1>1, Geometry DEF Layout, Init, Tiled, NewLive, OldLive
<1>4. CallConsistent
  BY <1>1 DEF CallConsistent, Init, Idle
<1>5. HeaderCurrent
  BY DEF HeaderCurrent, Init, Fresh
<1> QED BY <1>2, <1>3, <1>4, <1>5 DEF Ring

LEMMA RingFault ==
  ASSUME Ring, Fault
  PROVE  Ring'
<1>1. TypeOK'
  BY DEF Ring, Fault, TypeOK, Call
<1>2. Layout'
  BY DEF Ring, Fault, Layout, Tiled, NewLive, OldLive, Bytes
<1>3. CallConsistent'
  BY DEF Ring, Fault, CallConsistent, Idle
<1>4. HeaderCurrent'
  BY DEF Fault, HeaderCurrent
<1> QED BY <1>1, <1>2, <1>3, <1>4 DEF Ring

LEMMA RingEvictAt ==
  ASSUME Ring, At("room"),
         NEW old \in Nat, NEW wr \in Nat, NEW un \in Nat,
         HSize <= wr, wr <= old, old < un, un <= Size,
         Tiled(Run(0, wr), HSize, wr),
         Tiled(Run(old, un), old, un),
         EvictAt(old, wr, un)
  PROVE  Ring'
<1>1. CASE Fault
  BY <1>1, RingFault
<1>2. CASE ~Fault
  <2>1. status' = "ok"
    BY <1>2 DEF EvictAt, At
  <2>2. /\ heads' \in [Buckets -> Link]
        /\ DOMAIN entry' = DOMAIN entry
        /\ entry' \in [DOMAIN entry -> Entry]
        /\ writer' \in Nat /\ oldest' \in Nat /\ unused' \in Nat
        /\ UNCHANGED <<header, call, status, now>>
        /\ Layout'
    BY <2>1, EvictLayout DEF Ring, CallConsistent
  <2>3. TypeOK'
    BY <2>2 DEF Ring, TypeOK
  <2>4. CallConsistent'
    BY <2>2 DEF Ring, CallConsistent, At
  <2>5. HeaderCurrent'
    BY <2>2 DEF HeaderCurrent, At, Idle
  <2> QED BY <2>2, <2>3, <2>4, <2>5 DEF Ring
<1> QED BY <1>1, <1>2

LEMMA RingEvict ==
  ASSUME Ring, Evict
  PROVE  Ring'
<1>1. Run(0, writer) = NewLive /\ Run(oldest, unused) = OldLive
  BY Geometry DEF Ring, TypeOK, Pos, Run, NewLive, OldLive
<1>2. oldest < unused
  BY DEF Ring, Layout, Evict, TypeOK
<1> QED BY <1>1, <1>2, RingEvictAt, Geometry DEF Ring, TypeOK, Layout, Evict

LEMMA RingWrap ==
  ASSUME Ring, Wrap
  PROVE  Ring'
<1>1. Run(HSize, writer) = NewLive /\ Run(0, HSize) = {}
  BY Geometry DEF Ring, TypeOK, Pos, Run, NewLive, CallConsistent
<1>2. Tiled({}, HSize, HSize)
  BY DEF Tiled
<1>3. HSize < writer /\ writer <= Size
  BY Geometry DEF Ring, TypeOK, Layout, Wrap
<1>4. /\ At("room") /\ EvictAt(HSize, HSize, writer)
      /\ Tiled(Run(0, HSize), HSize, HSize)
      /\ Tiled(Run(HSize, writer), HSize, writer)
      /\ HSize \in Nat /\ writer \in Nat /\ HSize <= HSize
  BY <1>1, <1>2, Geometry DEF Ring, TypeOK, Layout, Wrap
<1> QED BY <1>3, <1>4, RingEvictAt
(* The links of the list around the new entry.                             *)
LEMMA RingRelink ==
  ASSUME Ring, Relink
  PROVE  Ring'
<1> DEFINE h == KeyHash[call.key]
           p == Position(heads[h])
<1>1. /\ TypeOK /\ Layout /\ CallConsistent
      /\ call.pc = "room" /\ status = "ok" /\ writer + CallLen <= oldest
  BY DEF Ring, Relink, At
<1>2. h \in Buckets /\ CallLen \in Nat /\ CallLen >= 20
  BY <1>1, CallFacts
<1>3. CASE Fault
  BY <1>3, RingFault
<1>4. CASE ~Fault
  <2>1. /\ UNCHANGED <<heads, writer, oldest, unused, header, status, now>>
        /\ call' = [call EXCEPT !.pc = "store"]
        /\ \/ entry' = entry
           \/ /\ p \in DOMAIN entry
              /\ entry' = [entry EXCEPT ![p].link =
                             Xor(Xor(@, Word(h)), {writer})]
    BY <1>4 DEF Relink
  <2>2. /\ call' \in Call /\ call'.pc = "store" /\ CallLen' = CallLen
    BY <2>1, <1>1, CallMoves
  <2>3. /\ DOMAIN entry' = DOMAIN entry
        /\ entry' \in [DOMAIN entry -> Entry]
        /\ \A q \in DOMAIN entry : /\ entry'[q].key = entry[q].key
                                   /\ entry'[q].data = entry[q].data
    <3>1. CASE entry' = entry
      BY <3>1, <1>1 DEF TypeOK
    <3>2. CASE /\ p \in DOMAIN entry
               /\ entry' = [entry EXCEPT ![p].link =
                              Xor(Xor(@, Word(h)), {writer})]
      <4>1. entry[p] \in Entry
        BY <3>2, <1>1 DEF TypeOK
      <4>2. Word(h) \in Link /\ {writer} \in Link
        BY <1>1, <1>2, BucketLink, PosLink, Geometry DEF TypeOK, Layout
      <4>3. Xor(Xor(entry[p].link, Word(h)), {writer}) \in Link
        BY <4>1, <4>2, XorLink DEF Entry
      <4> QED BY <3>2, <4>1, <4>3, <1>1 DEF TypeOK, Entry
    <3> QED BY <2>1, <3>1, <3>2
  <2>4. TypeOK'
    BY <1>1, <2>1, <2>2, <2>3 DEF TypeOK
  <2>5. Layout'
    <3>1. NewLive' = NewLive /\ OldLive' = OldLive
      BY <2>1, <2>3 DEF NewLive, OldLive
    <3>2. \A q \in Live : Bytes(q)' = Bytes(q)
      BY <2>3 DEF Live, NewLive, OldLive, Bytes
    <3> QED BY <1>1, <2>1, <3>1, <3>2, LayoutSame
  <2>6. CallConsistent'
    BY <1>1, <2>1, <2>2, <2>3 DEF CallConsistent
  <2>7. HeaderCurrent'
    BY <2>2 DEF HeaderCurrent, Idle
  <2> QED BY <2>4, <2>5, <2>6, <2>7 DEF Ring
<1> QED BY <1>3, <1>4

(* What survives of the entries when the new one is stored.                *)
LEMMA StoreFacts ==
  ASSUME Ring, Store
  PROVE  /\ call.pc = "store" /\ status = "ok"
         /\ UNCHANGED <<heads, writer, oldest, unused, header, status, now>>
         /\ call' \in Call /\ call'.pc = "head" /\ CallLen' = CallLen
         /\ call'.key = call.key /\ call'.data = call.data
         /\ writer + CallLen <= oldest
         /\ DOMAIN entry' = Surviving(writer, CallLen) \cup {writer}
         /\ entry' \in [DOMAIN entry' -> Entry]
         /\ entry'[writer].key = call.key /\ entry'[writer].data = call.data
         /\ entry'[writer].link = Xor(heads[KeyHash[call.key]],
                                      Word(KeyHash[call.key]))
         /\ \A q \in DOMAIN entry' : q # writer => entry'[q] = entry[q]
         /\ NewLive' = NewLive /\ OldLive' = OldLive /\ writer \notin Live
<1> DEFINE h == KeyHash[call.key]
           e == [link |-> Xor(heads[h], Word(h)), key |-> call.key,
                 data |-> call.data, expire |-> now + call.ttl]
           s == Surviving(writer, CallLen)
<1>1. /\ TypeOK /\ Layout /\ CallConsistent
      /\ call.pc = "store" /\ status = "ok"
      /\ UNCHANGED <<heads, writer, oldest, unused, header, status, now>>
      /\ call' = [call EXCEPT !.pc = "head"]
      /\ entry' = [q \in s \cup {writer} |-> IF q = writer THEN e
                                                           ELSE entry[q]]
  BY DEF Ring, Store, At
<1>2. /\ call' \in Call /\ call'.pc = "head" /\ CallLen' = CallLen
      /\ call'.key = call.key /\ call'.data = call.data
  BY <1>1, CallMoves
<1>3. /\ call.key \in Keys /\ call.data \in Data /\ call.ttl \in Nat
      /\ h \in Buckets /\ CallLen \in Nat /\ CallLen >= 20
      /\ writer + CallLen <= oldest
  BY <1>1, CallFacts DEF CallConsistent
<1>4. e \in Entry
  <2>1. Xor(heads[h], Word(h)) \in Link
    BY <1>1, <1>3, BucketLink, XorLink DEF TypeOK
  <2>2. now + call.ttl \in Nat
    BY <1>1, <1>3, TimeAssumption DEF TypeOK
  <2> QED BY <1>3, <2>1, <2>2 DEF Entry
<1>5. s \subseteq DOMAIN entry
  BY DEF Surviving
<1>6. /\ DOMAIN entry' = s \cup {writer}
      /\ entry' \in [DOMAIN entry' -> Entry]
      /\ entry'[writer] = e
      /\ \A q \in DOMAIN entry' : q # writer => entry'[q] = entry[q]
  BY <1>1, <1>4, <1>5 DEF TypeOK
<1>7. \A q \in DOMAIN entry : q \in Nat /\ Bytes(q) \in Nat
  BY <1>1, BytesNat, Geometry DEF TypeOK, Pos
<1>8. Live \subseteq s
  BY <1>1, <1>3, <1>7 DEF Live, NewLive, OldLive, Layout, Tiled, Surviving,
                          TypeOK
<1>9. writer \notin Live
  BY <1>1, <1>3 DEF Live, NewLive, OldLive, TypeOK
<1>10. NewLive' = NewLive /\ OldLive' = OldLive
  <2>1. NewLive' = {q \in s \cup {writer} : q < writer}
    BY <1>1, <1>6 DEF NewLive
  <2>2. OldLive' = {q \in s \cup {writer} : oldest <= q /\ q < unused}
    BY <1>1, <1>6 DEF OldLive
  <2>3. writer \in Nat /\ oldest \in Nat /\ writer < oldest
    BY <1>1, <1>3 DEF TypeOK
  <2> QED BY <2>1, <2>2, <2>3, <1>5, <1>8 DEF NewLive, OldLive, Live
<1> QED BY <1>1, <1>2, <1>3, <1>6, <1>9, <1>10

LEMMA RingStore ==
  ASSUME Ring, Store
  PROVE  Ring'
<1>1. TypeOK /\ Layout /\ CallConsistent
  BY DEF Ring
<1>2. TypeOK'
  <2>1. writer \in Pos
    BY <1>1, Geometry DEF Layout, TypeOK, Pos
  <2>2. DOMAIN entry' \subseteq Pos
    BY <2>1, <1>1, StoreFacts DEF TypeOK, Surviving
  <2> QED BY <2>2, <1>1, StoreFacts DEF TypeOK
<1>3. Layout'
  <2>1. \A q \in Live : Bytes(q)' = Bytes(q)
    BY StoreFacts DEF Bytes, Live, NewLive, OldLive
  <2> QED BY <2>1, <1>1, StoreFacts, LayoutSame
<1>4. CallConsistent'
  <2>1. \A q \in DOMAIN entry' : HSize <= q
    BY <1>1, StoreFacts DEF CallConsistent, Layout, Surviving
  <2>2. \A q \in DOMAIN entry' : q <= writer \/ writer + CallLen <= q
    <3>1. \A q \in DOMAIN entry : q \in Nat /\ Bytes(q) \in Nat
      BY <1>1, BytesNat, Geometry DEF TypeOK, Pos
    <3> QED BY <3>1, <1>1, StoreFacts DEF Surviving, TypeOK
  <2> QED BY <2>1, <2>2, StoreFacts DEF CallConsistent
<1>5. HeaderCurrent'
  BY StoreFacts DEF HeaderCurrent, Idle
<1> QED BY <1>2, <1>3, <1>4, <1>5 DEF Ring
(* Publishing the entry appends it to the new run.                         *)
LEMMA SetHeadFacts ==
  ASSUME Ring, SetHead
  PROVE  /\ call.pc = "head" /\ status = "ok"
         /\ UNCHANGED <<entry, oldest, unused, header, status, now>>
         /\ heads' = [heads EXCEPT ![KeyHash[call.key]] = {writer}]
         /\ writer' = writer + CallLen
         /\ CallLen \in Nat /\ CallLen >= 20 /\ CallLen = Bytes(writer)
         /\ writer + CallLen <= oldest
         /\ call' \in Call /\ call'.pc = "update"
         /\ KeyHash[call.key] \in Buckets
         /\ writer \in DOMAIN entry
         /\ NewLive' = NewLive \cup {writer} /\ OldLive' = OldLive
<1>1. /\ TypeOK /\ Layout /\ CallConsistent
      /\ call.pc = "head" /\ status = "ok"
      /\ UNCHANGED <<entry, oldest, unused, header, status, now>>
      /\ heads' = [heads EXCEPT ![KeyHash[call.key]] = {writer}]
      /\ writer' = writer + CallLen
      /\ call' = [call EXCEPT !.pc = "update"]
  BY DEF Ring, SetHead, At
<1>2. call' \in Call /\ call'.pc = "update"
  BY <1>1, CallMoves
<1>3. /\ KeyHash[call.key] \in Buckets /\ CallLen \in Nat /\ CallLen >= 20
      /\ writer + CallLen <= oldest
      /\ writer \in DOMAIN entry
      /\ CallLen = Bytes(writer)
      /\ \A q \in DOMAIN entry : q <= writer \/ writer + CallLen <= q
  BY <1>1, CallFacts DEF CallConsistent, Bytes, CallLen
<1>4. \A q \in DOMAIN entry : q \in Nat
  BY <1>1, Geometry DEF TypeOK, Pos
<1>5. NewLive' = NewLive \cup {writer} /\ OldLive' = OldLive
  <2>1. NewLive' = {q \in DOMAIN entry : q < writer + CallLen}
    BY <1>1 DEF NewLive
  <2>2. OldLive' = OldLive
    BY <1>1 DEF OldLive
  <2>3. writer \in Nat
    BY <1>1 DEF TypeOK
  <2> QED BY <2>1, <2>2, <2>3, <1>3, <1>4 DEF NewLive
<1> QED BY <1>1, <1>2, <1>3, <1>5

LEMMA RingSetHead ==
  ASSUME Ring, SetHead
  PROVE  Ring'
<1>1. TypeOK /\ Layout /\ CallConsistent
  BY DEF Ring
<1>2. TypeOK'
  <2>1. {writer} \in Link
    <3>1. writer \in Nat /\ 0 < writer /\ writer <= Size
      BY <1>1, Geometry DEF TypeOK, Layout
    <3> QED BY <3>1, PosLink
  <2>2. heads' \in [Buckets -> Link]
    BY <2>1, <1>1, SetHeadFacts DEF TypeOK
  <2>3. writer' \in Nat
    BY <1>1, SetHeadFacts DEF TypeOK
  <2> QED BY <2>2, <2>3, <1>1, SetHeadFacts DEF TypeOK
<1>3. Layout'
  <2>1. \A q \in DOMAIN entry : q \in Nat /\ Bytes(q) \in Nat /\ Bytes(q)' = Bytes(q)
    BY <1>1, BytesNat, Geometry, SetHeadFacts DEF TypeOK, Pos, Bytes
  <2>2. Tiled(NewLive, HSize, writer)'
    <3>1. Tiled(NewLive, HSize, writer) /\ NewLive \subseteq DOMAIN entry
      BY <1>1 DEF Layout, NewLive
    <3>2. /\ NewLive' = NewLive \cup {writer} /\ writer \in DOMAIN entry
          /\ writer' = writer + Bytes(writer)
          /\ Bytes(writer) >= 20 /\ writer \in Nat /\ HSize <= writer
      BY <1>1, SetHeadFacts DEF Layout, TypeOK
    <3>3. \A q \in NewLive : q < writer
      BY DEF NewLive
    <3> QED BY <2>1, <3>1, <3>2, <3>3, Geometry DEF Tiled
  <2>3. Tiled(OldLive, oldest, unused)'
    BY <2>1, <1>1, SetHeadFacts DEF Layout, Tiled, OldLive
  <2>4. HSize <= writer' /\ writer' <= oldest'
    BY <1>1, SetHeadFacts, Geometry DEF Layout, TypeOK
  <2> QED BY <2>2, <2>3, <2>4, <1>1, SetHeadFacts DEF Layout
<1>4. CallConsistent'
  BY <1>1, SetHeadFacts DEF CallConsistent
<1>5. HeaderCurrent'
  BY SetHeadFacts DEF HeaderCurrent, Idle
<1> QED BY <1>2, <1>3, <1>4, <1>5 DEF Ring

(* Steps that leave the block and the registers alone.                     *)
LEMMA RingQuiet ==
  ASSUME Ring, UNCHANGED <<heads, entry, writer, oldest, unused>>,
         call' \in Call, call'.pc \notin {"store", "head"},
         header' \in Nat \X Nat \X Nat, status' = "ok", now' \in Clock,
         HeaderCurrent'
  PROVE  Ring'
<1>1. TypeOK'
  BY DEF Ring, TypeOK
<1>2. Layout'
  BY DEF Ring, Layout, Tiled, NewLive, OldLive, Bytes
<1>3. CallConsistent'
  BY DEF Ring, CallConsistent
<1> QED BY <1>1, <1>2, <1>3 DEF Ring

LEMMA RingNext ==
  ASSUME UseFile => EntriesFit, Ring, [Next]_vars
  PROVE  Ring'
<1> USE DEF Ring
<1>1. ASSUME NEW k \in Keys, NEW d \in Data, NEW t \in TTLs, cache_set(k, d, t)
      PROVE  Ring'
  <2>1. AtMost(t) \in Nat
    BY TimeAssumption DEF AtMost
  <2>2. call' \in Call /\ call'.pc = "room"
    BY <1>1, <2>1 DEF cache_set, Call
  <2>3. HeaderCurrent'
    BY <2>2 DEF HeaderCurrent, Idle
  <2> QED BY <1>1, <2>2, <2>3, RingQuiet DEF cache_set, TypeOK
<1>2. CASE GiveUp
  <2>1. call' \in Call /\ call'.pc = "idle" /\ call' = Idle
    BY <1>2 DEF GiveUp, Call, Idle
  <2>2. ~UseFile
    <3>1. writer = HSize /\ oldest = Size
      BY <1>2, Geometry DEF GiveUp, Layout, TypeOK
    <3>2. call.key \in Keys /\ call.data \in Data
      BY <1>2, CallFacts DEF GiveUp, At
    <3>3. HSize + CallLen > Size
      BY <1>2, <3>1 DEF GiveUp
    <3>4. CallLen \in Nat
      BY <1>2, CallFacts DEF GiveUp, At
    <3> QED BY <3>2, <3>3, <3>4, Geometry DEF EntriesFit, CallLen
  <2>3. HeaderCurrent'
    BY <2>2 DEF HeaderCurrent
  <2> QED BY <1>2, <2>1, <2>3, RingQuiet DEF GiveUp, At, TypeOK
<1>3. CASE cache_update
  <2>1. call' \in Call /\ call'.pc = "idle"
    BY <1>3 DEF cache_update, Call, Idle
  <2>2. header' \in Nat \X Nat \X Nat
    BY <1>3 DEF cache_update, TypeOK
  <2>3. HeaderCurrent'
    BY <1>3 DEF cache_update, HeaderCurrent
  <2> QED BY <1>3, <2>1, <2>2, <2>3, RingQuiet DEF cache_update, At, TypeOK
<1>4. CASE Tick
  BY <1>4, RingQuiet DEF Tick, TypeOK, HeaderCurrent, Idle
<1>5. CASE Restart /\ UseFile
  <2>1. /\ header = <<writer, oldest, unused>>
        /\ cache_open
    BY <1>5 DEF Restart, HeaderCurrent, cache_init
  <2>2. /\ UNCHANGED <<heads, entry, writer, oldest, unused, header, now>>
        /\ call' = Idle /\ status' = "ok"
    BY <2>1 DEF cache_open, Load
  <2>3. call' \in Call /\ call'.pc = "idle" /\ HeaderCurrent'
    BY <2>1, <2>2 DEF Call, Idle, HeaderCurrent
  <2> QED BY <2>2, <2>3, RingQuiet DEF TypeOK
<1>6. CASE Restart /\ ~UseFile
  <2>1. /\ DOMAIN entry' = {}
        /\ heads' = [b \in Buckets |-> {}]
        /\ writer' = HSize /\ oldest' = Size /\ unused' = Size
        /\ header' = <<HSize, Size, Size>> /\ call' = Idle /\ status' = "ok"
        /\ now' = now
    BY <1>6 DEF Restart, cache_open, cache_init, Load, Fresh
  <2>2. entry' \in [DOMAIN entry' -> Entry]
    BY <1>6 DEF Restart, cache_open, cache_init, Load
  <2>3. TypeOK'
    BY <2>1, <2>2, Geometry DEF TypeOK, Link, Call
  <2>4. Layout'
    BY <2>1, Geometry DEF Layout, Tiled, NewLive, OldLive
  <2>5. CallConsistent'
    BY <2>1 DEF CallConsistent, Idle
  <2> QED BY <2>3, <2>4, <2>5, <1>6 DEF HeaderCurrent
<1>7. CASE UNCHANGED vars
  BY <1>7 DEF vars, TypeOK, Layout, Tiled, NewLive, OldLive, Bytes,
              CallConsistent, CallLen, HeaderCurrent
<1>8. ASSUME Evict \/ Wrap \/ Relink \/ Store \/ SetHead
      PROVE  Ring'
  BY <1>8, RingEvict, RingWrap, RingRelink, RingStore, RingSetHead
<1> QED BY <1>1, <1>2, <1>3, <1>4, <1>5, <1>6, <1>7, <1>8 DEF Next

(* hsize <= writer <= oldest <= unused <= size, and the two runs are tiled *)
(* by entries with no gap and no overlap: the comment on top of cache.c,   *)
(* for every size, every set of keys and data and every history of calls.  *)
THEOREM LayoutHolds ==
  ASSUME UseFile => EntriesFit
  PROVE  Spec => [](TypeOK /\ Layout)
<1>1. Init => Ring
  BY RingInit
<1>2. Ring /\ [Next]_vars => Ring'
  BY RingNext
<1>3. Ring => TypeOK /\ Layout
  BY DEF Ring
<1> QED BY <1>1, <1>2, <1>3, PTL DEF Spec
-----------------------------------------------------------------------------
(* The bucket lists.                                                       *)

LEMMA LiveFacts ==
  ASSUME Ring
  PROVE  /\ Live \subseteq DOMAIN entry
         /\ \A p \in Live : /\ p \in Nat /\ 0 < p /\ p < Size
                            /\ p \notin Buckets
                            /\ Rank(p) \in Nat
                            /\ HashAt(p) \in Buckets
         /\ \A p, q \in Live : Rank(p) = Rank(q) => p = q
         /\ \A p \in Live : p < writer \/ oldest <= p
         /\ writer \in Nat /\ oldest \in Nat /\ writer <= oldest
<1>1. TypeOK /\ Layout /\ CallConsistent
  BY DEF Ring
<1>2. Live \subseteq DOMAIN entry
  BY DEF Live, NewLive, OldLive
<1>3. /\ writer \in Nat /\ oldest \in Nat /\ unused \in Nat /\ Size \in Nat
      /\ HSize \in Nat /\ HSize <= writer /\ writer <= oldest
      /\ oldest <= unused /\ unused <= Size /\ 0 < HSize
  BY <1>1, Geometry DEF TypeOK, Layout
<1>4. \A p \in Live : p \in Nat /\ HSize <= p
  BY <1>1, <1>2, Geometry DEF TypeOK, Pos, CallConsistent
<1>5. \A p \in Live : p < writer \/ (oldest <= p /\ p < unused)
  BY DEF Live, NewLive, OldLive
<1>6. \A p \in Live : p \notin Buckets
  BY <1>4, Geometry
<1>7. \A p \in Live : Rank(p) \in Nat
  BY <1>3, <1>4 DEF Rank
<1>8. \A p \in Live : HashAt(p) \in Buckets
  BY <1>1, <1>2, KeyAssumption DEF TypeOK, Entry, HashAt
<1>9. \A p, q \in Live : Rank(p) = Rank(q) => p = q
  BY <1>3, <1>4, <1>5 DEF Rank
<1> QED BY <1>2, <1>3, <1>4, <1>5, <1>6, <1>7, <1>8, <1>9

(* Of two entries of a bucket one is newer.                                *)
LEMMA Compare ==
  ASSUME Ring, NEW p \in Live, NEW q \in Live, p # q, HashAt(p) = HashAt(q)
  PROVE  \/ q \in Newer(p) /\ p \in Older(q)
         \/ p \in Newer(q) /\ q \in Older(p)
<1>1. /\ Rank(p) \in Nat /\ Rank(q) \in Nat /\ Rank(p) # Rank(q)
  BY LiveFacts
<1>2. p \in Bucket(HashAt(q)) /\ q \in Bucket(HashAt(p))
  BY DEF Bucket
<1> QED BY <1>1, <1>2 DEF Newer, Older

LEMMA WordPosition ==
  ASSUME NEW u
  PROVE  /\ IsPosition(Word(u))
         /\ Position(Word(u)) = u
         /\ Xor(Word(u), Word(0)) = Word(u)
         /\ Xor(Word(0), Word(u)) = Word(u)
<1>1. IsPosition(Word(u))
  BY DEF IsPosition, Word
<1>2. CASE u = 0
  BY <1>2, <1>1 DEF Position, Word, Xor
<1>3. CASE u # 0
  <2>1. Word(u) = {u}
    BY <1>3 DEF Word
  <2>2. \E p \in {u} : {u} = {p}
    OBVIOUS
  <2>3. Position(Word(u)) = u
    BY <2>1, <2>2 DEF Position
  <2> QED BY <1>1, <2>3 DEF Word, Xor
<1> QED BY <1>2, <1>3

(* The entry stored first is the last of its list: its link is the         *)
(* position of the item above it.                                          *)
LEMMA TailLink ==
  ASSUME Ring, BucketLists, call.pc = "room",
         NEW old \in Live, \A q \in Live : Rank(old) <= Rank(q)
  PROVE  \E u \in Addressable :
           /\ entry[old].link = Word(u)
           /\ \/ u = HashAt(old) /\ Bucket(HashAt(old)) = {old}
              \/ /\ u \in Live /\ u # old /\ HashAt(u) = HashAt(old)
                 /\ \A q \in Bucket(HashAt(old)) : q = old \/ Rank(u) <= Rank(q)
<1>1. Linked(old)
  BY DEF BucketLists
<1>2. PICK u, l \in Addressable \cup {writer} :
        /\ Above(old, u)
        /\ Below(old, l)
        /\ entry[old].link = Xor(Word(u), Word(l))
  BY <1>1 DEF Linked
<1>3. Older(old) = {}
  BY LiveFacts DEF Older, Bucket
<1>4. l = 0
  BY <1>2, <1>3 DEF Below
<1>5. entry[old].link = Word(u)
  BY <1>2, <1>4, WordPosition
<1>6. CASE Newer(old) = {}
  <2>1. u = HashAt(old) /\ HashAt(old) \in Buckets
    BY <1>2, <1>6, LiveFacts DEF Above, Leader
  <2>2. Bucket(HashAt(old)) = {old}
    BY <1>3, <1>6, Compare DEF Bucket
  <2> QED BY <1>5, <2>1, <2>2 DEF Addressable
<1>7. CASE Newer(old) # {}
  <2>1. /\ u \in Newer(old)
        /\ \A q \in Newer(old) : Rank(u) <= Rank(q)
    BY <1>2, <1>7 DEF Above
  <2>2. u \in Live /\ u # old /\ HashAt(u) = HashAt(old)
    BY <2>1, LiveFacts DEF Newer, Bucket
  <2>3. \A q \in Bucket(HashAt(old)) : q = old \/ Rank(u) <= Rank(q)
    BY <2>1, <1>3, Compare DEF Bucket
  <2>4. u \in Addressable
    BY <2>2, LiveFacts DEF Addressable
  <2> QED BY <1>5, <2>2, <2>3, <2>4
<1> QED BY <1>6, <1>7
(* Between two calls, and while a call makes room, the neighbours of an    *)
(* entry are head links and entries.                                       *)
LEMMA Neighbours ==
  ASSUME Ring, NEW p \in Live, NEW u, NEW l, Above(p, u), Below(p, l)
  PROVE  /\ u = Leader(HashAt(p)) \/ u \in Live
         /\ l = 0 \/ l \in Live
         /\ l \in Addressable
         /\ u \in Addressable \cup {writer}
         /\ call.pc \notin {"store", "head"} => u \in Addressable
<1>1. u = Leader(HashAt(p)) \/ u \in Live
  BY DEF Above, Newer, Bucket
<1>2. l = 0 \/ l \in Live
  BY DEF Below, Older, Bucket
<1>3. HashAt(p) \in Buckets /\ Live \subseteq DOMAIN entry
  BY LiveFacts
<1>4. Leader(HashAt(p)) \in Buckets \cup {writer}
  BY <1>3 DEF Leader
<1>5. call.pc \notin {"store", "head"} => Leader(HashAt(p)) \in Buckets
  BY <1>3 DEF Leader
<1> QED BY <1>1, <1>2, <1>3, <1>4, <1>5, Geometry DEF Addressable

(* Evicting the entry stored first leaves every other list as it was, and  *)
(* its own without its last item.                                          *)
LEMMA UnlinkKeepsLists ==
  ASSUME Ring, BucketLists, call.pc = "room",
         NEW old \in Live, \A q \in Live : Rank(old) <= Rank(q),
         NEW u \in Addressable,
         \/ u = HashAt(old) /\ Bucket(HashAt(old)) = {old}
         \/ /\ u \in Live /\ u # old /\ HashAt(u) = HashAt(old)
            /\ \A q \in Bucket(HashAt(old)) : q = old \/ Rank(u) <= Rank(q),
         heads' = HeadsWith(u, Xor(get4(u), {old})),
         entry' = EntryWith(u, Xor(get4(u), {old})),
         call' = call,
         Live' = Live \ {old},
         \A q, r \in Live : /\ (Rank(q)' < Rank(r)') = (Rank(q) < Rank(r))
                            /\ (Rank(q)' <= Rank(r)') = (Rank(q) <= Rank(r))
  PROVE  BucketLists'
<1> DEFINE w == Xor(get4(u), {old})
           h == HashAt(old)
<1>0. /\ TypeOK /\ old \in Nat /\ 0 < old /\ old < Size /\ h \in Buckets
      /\ old \notin Buckets /\ old \in DOMAIN entry
  BY LiveFacts DEF Ring
<1>1. w \in Link
  <2>1. {old} \in Link
    BY <1>0, PosLink, Geometry
  <2> QED BY <1>0, <2>1, get4Link, XorLink
<1>2. /\ DOMAIN entry' = DOMAIN entry
      /\ \A q \in DOMAIN entry : entry'[q].key = entry[q].key
  BY <1>0, <1>1, SetLink
<1>3. \A q \in Live : HashAt(q)' = HashAt(q)
  BY <1>2, LiveFacts DEF HashAt
<1>4. \A b : Bucket(b)' = Bucket(b) \ {old}
  BY <1>3 DEF Bucket
<1>5. \A p \in Live \ {old} : Newer(p)' = Newer(p) /\ old \notin Newer(p)
  <2>1. ASSUME NEW p \in Live \ {old}
        PROVE  old \notin Newer(p)
    BY LiveFacts DEF Newer
  <2> QED BY <2>1, <1>3, <1>4 DEF Newer, Bucket
<1>6. \A p \in Live \ {old} : Older(p)' = Older(p) \ {old}
  BY <1>3, <1>4 DEF Older, Bucket
<1>7. \A p \in Live \ {old} : Leader(HashAt(p))' = HashAt(p) /\ Leader(HashAt(p)) = HashAt(p)
  BY <1>3 DEF Leader
<1>8. Addressable' = Addressable
  BY <1>2 DEF Addressable
<1>9. ASSUME NEW b \in Buckets
      PROVE  Headed(b)'
  <2>1. Headed(b)
    BY DEF BucketLists
  <2>2. CASE Bucket(b) = {} /\ heads[b] = {}
    <3>1. b # h
      BY <2>2 DEF Bucket
    <3>2. heads'[b] = heads[b]
      BY <3>1, <1>0, LiveFacts DEF HeadsWith, TypeOK
    <3> QED BY <3>2, <2>2, <1>4 DEF Headed
  <2>3. ASSUME NEW p \in Bucket(b), heads[b] = {p}, Newer(p) = {}
        PROVE  Headed(b)'
    <3>1. CASE u = h /\ b = h
      <4>1. Bucket(h) = {old}
        BY <3>1, <1>0, LiveFacts
      <4>2. heads[h] = {old}
        BY <4>1, <3>1, <2>3
      <4>3. heads'[h] = Xor({old}, {old})
        BY <3>1, <4>2, <1>0 DEF HeadsWith, get4, TypeOK
      <4>4. Bucket(b)' = {} /\ heads'[b] = {}
        BY <4>1, <4>3, <3>1, <1>4 DEF Xor
      <4> QED BY <4>4 DEF Headed
    <3>2. CASE ~(u = h /\ b = h)
      <4>1. heads'[b] = heads[b]
        BY <3>2, <1>0, LiveFacts DEF HeadsWith, TypeOK
      <4>2. p # old
        <5>1. SUFFICES ASSUME p = old
                       PROVE  FALSE
          OBVIOUS
        <5>2. b = h
          BY <5>1, <2>3 DEF Bucket
        <5>3. u \in Live /\ u # old /\ HashAt(u) = HashAt(old)
          BY <5>2, <3>2
        <5>4. u \in Newer(old)
          BY <5>3, Compare, LiveFacts DEF Newer, Older
        <5> QED BY <5>1, <5>4, <2>3
      <4>3. p \in Live \ {old} /\ p \in Bucket(b)'
        BY <4>2, <2>3, <1>4 DEF Bucket
      <4>4. Newer(p)' = {}
        BY <4>3, <2>3, <1>5
      <4> QED BY <4>1, <4>3, <4>4, <2>3 DEF Headed
    <3> QED BY <3>1, <3>2
  <2> QED BY <2>1, <2>2, <2>3 DEF Headed
<1>10. ASSUME NEW p \in Live \ {old}
       PROVE  Linked(p)'
  <2>1. PICK v, l \in Addressable \cup {writer} :
          /\ Above(p, v)
          /\ Below(p, l)
          /\ entry[p].link = Xor(Word(v), Word(l))
    BY DEF BucketLists, Linked
  <2>2. v \in Addressable /\ l \in Addressable
    BY <2>1, Neighbours
  <2>3. Above(p, v)'
    BY <2>1, <1>5, <1>7, <1>3 DEF Above, Newer, Bucket
  <2>4. CASE p = u
    <3>1. Older(p) = {old}
      <4>1. \A q \in Older(p) : q = old
        BY <2>4, <1>0, LiveFacts DEF Older, Bucket
      <4>2. old \in Older(p)
        BY <2>4, <1>0, Compare, LiveFacts DEF Newer, Older
      <4> QED BY <4>1, <4>2
    <3>2. l = old
      BY <3>1, <2>1 DEF Below
    <3>3. old \notin Word(v)
      <4>1. v = Leader(HashAt(p)) \/ v \in Newer(p)
        BY <2>1 DEF Above
      <4>2. v # old
        BY <4>1, <1>0, <1>5, <1>7, LiveFacts
      <4> QED BY <4>2 DEF Word
    <3>4. entry'[p].link = Xor(Xor(Word(v), Word(old)), {old})
      BY <2>1, <2>4, <3>2, <1>0, LiveFacts DEF EntryWith, get4, TypeOK, Entry
    <3>5. Word(old) = {old}
      BY <1>0 DEF Word
    <3>6. Xor(Xor(Word(v), {old}), {old}) = Word(v)
      BY <3>3 DEF Xor
    <3>7. entry'[p].link = Xor(Word(v), Word(0))
      BY <3>4, <3>5, <3>6, WordPosition
    <3>8. Below(p, 0)'
      BY <3>1, <1>6 DEF Below
    <3>9. 0 \in Addressable
      BY Geometry DEF Addressable
    <3> QED BY <2>2, <2>3, <3>7, <3>8, <3>9, <1>8 DEF Linked
  <2>5. CASE p # u
    <3>1. entry'[p].link = entry[p].link
      BY <2>5, <1>0, LiveFacts DEF EntryWith, TypeOK
    <3>2. old \notin Older(p) \/ \E q \in Older(p) : Rank(old) < Rank(q)
      <4>1. CASE HashAt(p) = h
        <5>1. p \in Bucket(h)
          BY <4>1 DEF Bucket
        <5>2. u \in Live /\ u # old /\ HashAt(u) = h /\ Rank(u) <= Rank(p)
          BY <5>1
        <5>3. u \in Older(p)
          BY <5>2, <4>1, <2>5, Compare, LiveFacts DEF Newer, Older
        <5>4. Rank(old) < Rank(u)
          BY <5>2, LiveFacts
        <5> QED BY <5>3, <5>4
      <4>2. CASE HashAt(p) # h
        BY <4>2 DEF Older, Bucket
      <4> QED BY <4>1, <4>2
    <3>3. l # old
      <4>1. CASE Older(p) = {}
        BY <4>1, <2>1, <1>0 DEF Below
      <4>2. CASE Older(p) # {}
        <5>1. l \in Older(p) /\ \A q \in Older(p) : Rank(q) <= Rank(l)
          BY <4>2, <2>1 DEF Below
        <5>2. \A q \in Older(p) : Rank(q) \in Nat
          BY LiveFacts DEF Older, Bucket
        <5> QED BY <5>1, <5>2, <3>2
      <4> QED BY <4>1, <4>2
    <3>4. Below(p, l)'
      <4>1. CASE Older(p) = {}
        BY <4>1, <2>1, <1>6 DEF Below
      <4>2. CASE Older(p) # {}
        <5>1. l \in Older(p) /\ \A q \in Older(p) : Rank(q) <= Rank(l)
          BY <4>2, <2>1 DEF Below
        <5>2. l \in Older(p)' /\ \A q \in Older(p)' : Rank(q)' <= Rank(l)'
          BY <5>1, <3>3, <1>6 DEF Older, Bucket
        <5> QED BY <5>2 DEF Below
      <4> QED BY <4>1, <4>2
    <3> QED BY <2>1, <2>2, <2>3, <3>1, <3>4, <1>8 DEF Linked
  <2> QED BY <2>4, <2>5
<1> QED BY <1>9, <1>10 DEF BucketLists
Lists == Ring /\ NoFault /\ BucketLists

(* The eviction finds an entry, a link it can follow and a length that     *)
(* stays in the run: cache_impossible is out of reach.                     *)
LEMMA EvictUnlinks ==
  ASSUME Lists, call.pc = "room",
         NEW old \in Live, \A q \in Live : Rank(old) <= Rank(q),
         NEW wr \in Nat, NEW un \in Nat, old + Bytes(old) <= un,
         EvictAt(old, wr, un)
  PROVE  /\ status' = "ok" /\ call' = call
         /\ \E u \in Addressable :
              /\ \/ u = HashAt(old) /\ Bucket(HashAt(old)) = {old}
                 \/ /\ u \in Live /\ u # old /\ HashAt(u) = HashAt(old)
                    /\ \A q \in Bucket(HashAt(old)) : q = old \/ Rank(u) <= Rank(q)
              /\ heads' = HeadsWith(u, Xor(get4(u), {old}))
              /\ entry' = EntryWith(u, Xor(get4(u), {old}))
<1>1. PICK u \in Addressable :
        /\ entry[old].link = Word(u)
        /\ \/ u = HashAt(old) /\ Bucket(HashAt(old)) = {old}
           \/ /\ u \in Live /\ u # old /\ HashAt(u) = HashAt(old)
              /\ \A q \in Bucket(HashAt(old)) : q = old \/ Rank(u) <= Rank(q)
  BY TailLink DEF Lists
<1>2. /\ old \in DOMAIN entry
      /\ IsPosition(entry[old].link)
      /\ Position(entry[old].link) = u
  BY <1>1, WordPosition, LiveFacts DEF Lists
<1>3. ~(old + Bytes(old) > un)
  <2>1. old + Bytes(old) \in Nat
    BY <1>2, BytesNat, LiveFacts DEF Lists, Ring
  <2> QED BY <2>1
<1>4. /\ heads' = HeadsWith(u, Xor(get4(u), {old}))
      /\ entry' = EntryWith(u, Xor(get4(u), {old}))
      /\ UNCHANGED <<header, call, status, now>>
  BY <1>1, <1>2, <1>3 DEF EvictAt
<1> QED BY <1>1, <1>4 DEF Lists, NoFault

(* The entry stored first goes, the others stay as they are and in the     *)
(* same order.                                                             *)
Drops(old) ==
  /\ old \in Live /\ Live' = Live \ {old} /\ call' = call
  /\ \A q \in Live : Rank(old) <= Rank(q)
  /\ \A q, r \in Live : (Rank(q)' < Rank(r)') = (Rank(q) < Rank(r))
  /\ \A q \in Live : /\ entry'[q].key = entry[q].key
                     /\ entry'[q].data = entry[q].data
                     /\ entry'[q].expire = entry[q].expire

LEMMA UnlinkKeepsItems ==
  ASSUME Ring, NEW old \in Live,
         \E u \in Addressable : entry' = EntryWith(u, Xor(get4(u), {old}))
  PROVE  \A q \in Live : /\ entry'[q].key = entry[q].key
                         /\ entry'[q].data = entry[q].data
                         /\ entry'[q].expire = entry[q].expire
<1>1. PICK u \in Addressable : entry' = EntryWith(u, Xor(get4(u), {old}))
  OBVIOUS
<1>2. old \in Nat /\ 0 < old /\ old <= Size /\ TypeOK /\ Live \subseteq DOMAIN entry
  BY LiveFacts, Geometry DEF Ring
<1>3. {old} \in Link /\ get4(u) \in Link
  BY <1>2, PosLink, get4Link
<1>4. Xor(get4(u), {old}) \in Link
  BY <1>3, XorLink
<1> QED BY <1>1, <1>2, <1>4, SetLink

LEMMA ListsEvict ==
  ASSUME Lists, Evict
  PROVE  Lists' /\ Drops(oldest)
<1>1. Ring /\ call.pc = "room" /\ EvictAt(oldest, writer, unused)
  BY DEF Lists, Evict, At
<1>2. Ring'
  BY <1>1, RingEvict DEF Lists
<1>3. /\ oldest < unused /\ oldest \in OldLive /\ oldest \in Live
      /\ writer \in Nat /\ unused \in Nat /\ oldest \in Nat
      /\ oldest + Bytes(oldest) <= unused
  BY <1>1 DEF Evict, Ring, Layout, Tiled, TypeOK, Live
<1>4. \A q \in Live : Rank(oldest) <= Rank(q)
  BY <1>1, <1>3, LiveFacts, Geometry DEF Rank, Ring, Layout
<1>5. /\ status' = "ok" /\ call' = call
      /\ \E u \in Addressable :
           /\ \/ u = HashAt(oldest) /\ Bucket(HashAt(oldest)) = {oldest}
              \/ /\ u \in Live /\ u # oldest /\ HashAt(u) = HashAt(oldest)
                 /\ \A q \in Bucket(HashAt(oldest)) : q = oldest \/ Rank(u) <= Rank(q)
           /\ heads' = HeadsWith(u, Xor(get4(u), {oldest}))
           /\ entry' = EntryWith(u, Xor(get4(u), {oldest}))
  BY <1>1, <1>3, <1>4, EvictUnlinks
<1>6. /\ DOMAIN entry' = DOMAIN entry
      /\ writer' = writer
      /\ \/ unused = oldest + Bytes(oldest) /\ oldest' = Size /\ unused' = Size
         \/ unused # oldest + Bytes(oldest) /\ oldest' = oldest + Bytes(oldest)
            /\ unused' = unused
  <2>1. EvictAt(oldest, writer, unused) /\ ~Fault
    BY <1>1, <1>5 DEF Fault
  <2> QED BY <2>1, <1>1 DEF EvictAt, EntryWith
<1>7. Live' = Live \ {oldest}
  <2>1. \A q \in OldLive : q = oldest \/ (q \in Nat /\ oldest + Bytes(oldest) <= q)
    BY <1>1, <1>3, LiveFacts DEF Ring, Layout, Tiled, Live, OldLive
  <2>2. \A q \in DOMAIN entry : q \in Nat
    BY <1>1, Geometry DEF Ring, TypeOK, Pos
  <2>3. oldest + Bytes(oldest) \in Nat /\ oldest < oldest + Bytes(oldest)
    BY <1>1, <1>3, BytesNat DEF Ring, OldLive
  <2>4. OldLive' = OldLive \ {oldest}
    <3>1. CASE unused = oldest + Bytes(oldest)
      BY <3>1, <1>6, <2>1, <2>2, Geometry DEF OldLive
    <3>2. CASE unused # oldest + Bytes(oldest)
      BY <3>2, <1>6, <1>3, <2>1, <2>2, <2>3 DEF OldLive
    <3> QED BY <3>1, <3>2
  <2>5. NewLive' = NewLive /\ oldest \notin NewLive
    BY <1>1, <1>3, <1>6 DEF NewLive, Ring, Layout
  <2> QED BY <2>4, <2>5 DEF Live
<1>8. \A q, r \in Live : /\ (Rank(q)' < Rank(r)') = (Rank(q) < Rank(r))
                         /\ (Rank(q)' <= Rank(r)') = (Rank(q) <= Rank(r))
  BY <1>6 DEF Rank
<1>9. BucketLists'
  BY <1>1, <1>3, <1>4, <1>5, <1>7, <1>8, UnlinkKeepsLists DEF Lists
<1>10. Drops(oldest)
  <2>1. \E u \in Addressable : entry' = EntryWith(u, Xor(get4(u), {oldest}))
    BY <1>5
  <2> QED BY <2>1, <1>1, <1>3, <1>4, <1>5, <1>7, <1>8, UnlinkKeepsItems DEF Drops
<1> QED BY <1>2, <1>5, <1>9, <1>10 DEF Lists, NoFault

LEMMA ListsWrap ==
  ASSUME Lists, Wrap
  PROVE  Lists' /\ Drops(HSize)
<1>1. /\ Ring /\ call.pc = "room" /\ EvictAt(HSize, HSize, writer)
      /\ oldest = Size /\ unused = Size /\ HSize < writer
      /\ writer <= Size /\ writer \in Nat /\ HSize \in Nat
  BY Geometry DEF Lists, Wrap, At, Ring, Layout, TypeOK
<1>2. Ring'
  BY RingWrap DEF Lists
<1>3. /\ HSize \in NewLive /\ HSize \in Live
      /\ HSize + Bytes(HSize) <= writer
  BY <1>1 DEF Ring, Layout, Tiled, Live
<1>4. /\ OldLive = {} /\ Live = NewLive
      /\ \A q \in Live : q \in Nat /\ HSize <= q /\ q < writer
  <2>1. \A q \in DOMAIN entry : q \in Nat /\ HSize <= q
    BY <1>1, Geometry DEF Ring, TypeOK, Pos, CallConsistent
  <2> QED BY <2>1, <1>1, Geometry DEF OldLive, NewLive, Live
<1>5. \A q \in Live : Rank(HSize) <= Rank(q)
  BY <1>1, <1>4, Geometry DEF Rank
<1>6. /\ status' = "ok" /\ call' = call
      /\ \E u \in Addressable :
           /\ \/ u = HashAt(HSize) /\ Bucket(HashAt(HSize)) = {HSize}
              \/ /\ u \in Live /\ u # HSize /\ HashAt(u) = HashAt(HSize)
                 /\ \A q \in Bucket(HashAt(HSize)) : q = HSize \/ Rank(u) <= Rank(q)
           /\ heads' = HeadsWith(u, Xor(get4(u), {HSize}))
           /\ entry' = EntryWith(u, Xor(get4(u), {HSize}))
  BY <1>1, <1>3, <1>5, EvictUnlinks
<1>7. /\ DOMAIN entry' = DOMAIN entry
      /\ writer' = HSize
      /\ \/ writer = HSize + Bytes(HSize) /\ oldest' = Size /\ unused' = Size
         \/ writer # HSize + Bytes(HSize) /\ oldest' = HSize + Bytes(HSize)
            /\ unused' = writer
  <2>1. EvictAt(HSize, HSize, writer) /\ ~Fault
    BY <1>1, <1>6 DEF Fault
  <2> QED BY <2>1, <1>1 DEF EvictAt, EntryWith
<1>8. Live' = Live \ {HSize}
  <2>1. \A q \in NewLive : q = HSize \/ HSize + Bytes(HSize) <= q
    BY <1>1, <1>3, <1>4 DEF Ring, Layout, Tiled
  <2>2. \A q \in DOMAIN entry : q \in Nat /\ HSize <= q /\ q <= Size
    BY <1>1, Geometry DEF Ring, TypeOK, Pos, CallConsistent
  <2>3. HSize + Bytes(HSize) \in Nat /\ HSize < HSize + Bytes(HSize)
    BY <1>1, <1>3, BytesNat DEF Ring, NewLive
  <2>4. NewLive' = {}
    BY <1>1, <1>7, <2>2 DEF NewLive
  <2>5. OldLive' = NewLive \ {HSize}
    <3>1. CASE writer = HSize + Bytes(HSize)
      <4>1. NewLive = {HSize}
        BY <3>1, <2>1, <1>3, <1>4
      <4> QED BY <4>1, <3>1, <1>7, <2>2, Geometry DEF OldLive
    <3>2. CASE writer # HSize + Bytes(HSize)
      BY <3>2, <1>1, <1>7, <2>1, <2>2, <2>3 DEF OldLive, NewLive
    <3> QED BY <3>1, <3>2
  <2> QED BY <2>4, <2>5, <1>4 DEF Live
<1>9. \A q, r \in Live : /\ (Rank(q)' < Rank(r)') = (Rank(q) < Rank(r))
                         /\ (Rank(q)' <= Rank(r)') = (Rank(q) <= Rank(r))
  <2>1. \A q \in Live : Rank(q)' = q /\ Rank(q) = q + Size
    BY <1>1, <1>4, <1>7 DEF Rank
  <2> QED BY <2>1, <1>4, Geometry
<1>10. BucketLists'
  BY <1>1, <1>3, <1>5, <1>6, <1>8, <1>9, UnlinkKeepsLists DEF Lists
<1>11. Drops(HSize)
  <2>1. \E u \in Addressable : entry' = EntryWith(u, Xor(get4(u), {HSize}))
    BY <1>6
  <2> QED BY <2>1, <1>1, <1>3, <1>5, <1>6, <1>8, <1>9, UnlinkKeepsItems DEF Drops
<1> QED BY <1>2, <1>6, <1>10, <1>11 DEF Lists, NoFault
(* Steps that move no live entry, nor the heads.                           *)
LEMMA SameLists ==
  ASSUME Ring, BucketLists,
         UNCHANGED <<heads, writer>>, Live' = Live,
         \A q \in Live : q \in DOMAIN entry' /\ entry'[q] = entry[q],
         \A b \in Buckets : Leader(b)' = Leader(b)
  PROVE  BucketLists'
<1>1. \A q \in Live : HashAt(q)' = HashAt(q) /\ Rank(q)' = Rank(q)
  BY DEF HashAt, Rank
<1>2. \A b : Bucket(b)' = Bucket(b)
  BY <1>1 DEF Bucket
<1>3. \A q \in Live : Newer(q)' = Newer(q) /\ Older(q)' = Older(q)
  BY <1>1, <1>2 DEF Newer, Older, Bucket
<1>4. ASSUME NEW b \in Buckets
      PROVE  Headed(b)'
  <2>1. Headed(b)
    BY DEF BucketLists
  <2> QED BY <2>1, <1>2, <1>3 DEF Headed, Bucket
<1>5. ASSUME NEW p \in Live
      PROVE  Linked(p)'
  <2>1. PICK u, l \in Addressable \cup {writer} :
          /\ Above(p, u)
          /\ Below(p, l)
          /\ entry[p].link = Xor(Word(u), Word(l))
    BY DEF BucketLists, Linked
  <2>2. Above(p, u)'
    <3>1. Leader(HashAt(p))' = Leader(HashAt(p))
      BY <1>1, LiveFacts
    <3> QED BY <2>1, <3>1, <1>1, <1>3 DEF Above, Newer, Bucket
  <2>3. Below(p, l)'
    BY <2>1, <1>1, <1>3 DEF Below, Older, Bucket
  <2>4. u \in (Addressable \cup {writer})' /\ l \in (Addressable \cup {writer})'
    <3>1. u = Leader(HashAt(p)) \/ u \in Live
      BY <2>1, Neighbours
    <3>2. l = 0 \/ l \in Live
      BY <2>1, Neighbours
    <3>3. Leader(HashAt(p)) \in Buckets \cup {writer}
      BY LiveFacts DEF Leader
    <3> QED BY <3>1, <3>2, <3>3, Geometry DEF Addressable
  <2> QED BY <2>1, <2>2, <2>3, <2>4 DEF Linked
<1> QED BY <1>4, <1>5 DEF BucketLists

LEMMA ListsStore ==
  ASSUME Lists, Store
  PROVE  Lists'
<1>1. Ring /\ BucketLists /\ Ring'
  BY RingStore DEF Lists
<1>2. /\ UNCHANGED <<heads, writer, status>> /\ Live' = Live
      /\ \A q \in Live : q \in DOMAIN entry' /\ entry'[q] = entry[q]
      /\ call.pc = "store" /\ call'.pc = "head" /\ call'.key = call.key
  BY <1>1, StoreFacts DEF Live, NewLive, OldLive
<1>3. \A b \in Buckets : Leader(b)' = Leader(b)
  BY <1>2 DEF Leader
<1> QED BY <1>1, <1>2, <1>3, SameLists DEF Lists, NoFault

LEMMA ListsRelink ==
  ASSUME Lists, Relink
  PROVE  Lists'
<1> DEFINE h == KeyHash[call.key]
<1>1. /\ Ring /\ BucketLists /\ Ring' /\ call.pc = "room" /\ status = "ok"
      /\ TypeOK
  BY RingRelink DEF Lists, Relink, At, Ring
<1>2. h \in Buckets /\ Headed(h)
  BY <1>1, CallFacts DEF BucketLists
<1>3. /\ call' = [call EXCEPT !.pc = "store"] => call'.pc = "store" /\ call'.key = call.key
  BY <1>1, CallMoves
<1>4. CASE Bucket(h) = {} /\ heads[h] = {}
  <2>1. /\ call'.pc = "store" /\ call'.key = call.key
        /\ UNCHANGED <<heads, entry, writer, oldest, unused, header, status, now>>
    BY <1>3, <1>4 DEF Relink
  <2>2. NewLive' = NewLive /\ OldLive' = OldLive /\ Live' = Live
    BY <2>1 DEF NewLive, OldLive, Live
  <2>3. \A q \in Live : HashAt(q)' = HashAt(q) /\ Rank(q)' = Rank(q) /\ HashAt(q) # h
    BY <2>1, <1>4 DEF HashAt, Rank, Bucket
  <2>4. \A b : Bucket(b)' = Bucket(b)
    BY <2>2, <2>3 DEF Bucket
  <2>5. \A q \in Live : Newer(q)' = Newer(q) /\ Older(q)' = Older(q)
    BY <2>3, <2>4 DEF Newer, Older, Bucket
  <2>6. \A b \in Buckets : Headed(b)'
    BY <2>1, <2>4, <2>5, <1>1 DEF BucketLists, Headed, Bucket
  <2>7. ASSUME NEW p \in Live
        PROVE  Linked(p)'
    <3>1. PICK u, l \in Addressable \cup {writer} :
            /\ Above(p, u)
            /\ Below(p, l)
            /\ entry[p].link = Xor(Word(u), Word(l))
      BY <1>1 DEF BucketLists, Linked
    <3>2. Leader(HashAt(p))' = Leader(HashAt(p))
      BY <2>1, <2>3, <1>1 DEF Leader
    <3>3. Above(p, u)'
      BY <3>1, <3>2, <2>3, <2>5 DEF Above, Newer, Bucket
    <3>4. Below(p, l)'
      BY <3>1, <2>3, <2>5 DEF Below, Older, Bucket
    <3> QED BY <3>1, <3>3, <3>4, <2>1 DEF Linked, Addressable
  <2> QED BY <2>1, <2>2, <2>6, <2>7, <1>1 DEF Lists, NoFault, BucketLists
<1>5. ASSUME NEW n \in Bucket(h), heads[h] = {n}, Newer(n) = {}
      PROVE  Lists'
  <2>1. /\ n \in Live /\ n \in DOMAIN entry /\ HashAt(n) = h /\ n # 0
        /\ Word(n) = {n}
    BY <1>1, <1>5, LiveFacts DEF Bucket, Word
  <2>2. IsPosition(heads[h]) /\ Position(heads[h]) = n
    BY <1>5, <2>1, WordPosition
  <2>3. /\ call'.pc = "store" /\ call'.key = call.key
        /\ UNCHANGED <<heads, writer, oldest, unused, header, status, now>>
        /\ entry' = [entry EXCEPT ![n].link = Xor(Xor(@, Word(h)), {writer})]
    BY <1>3, <1>5, <2>1, <2>2 DEF Relink
  <2>4. /\ DOMAIN entry' = DOMAIN entry
        /\ entry'[n].link = Xor(Xor(entry[n].link, Word(h)), {writer})
        /\ \A q \in DOMAIN entry : entry'[q].key = entry[q].key
        /\ \A q \in DOMAIN entry : q # n => entry'[q] = entry[q]
    BY <1>1, <2>1, <2>3 DEF TypeOK, Entry
  <2>5. Live' = Live
    BY <2>3, <2>4 DEF Live, NewLive, OldLive
  <2>6. \A q \in Live : HashAt(q)' = HashAt(q) /\ Rank(q)' = Rank(q)
    BY <2>3, <2>4, <1>1, LiveFacts DEF HashAt, Rank
  <2>7. \A b : Bucket(b)' = Bucket(b)
    BY <2>5, <2>6 DEF Bucket
  <2>8. \A q \in Live : Newer(q)' = Newer(q) /\ Older(q)' = Older(q)
    BY <2>6, <2>7 DEF Newer, Older, Bucket
  <2>9. \A b \in Buckets : Headed(b)'
    BY <2>3, <2>7, <2>8, <1>1 DEF BucketLists, Headed, Bucket
  <2>10. ASSUME NEW p \in Live
         PROVE  Linked(p)'
    <3>1. PICK u, l \in Addressable \cup {writer} :
            /\ Above(p, u)
            /\ Below(p, l)
            /\ entry[p].link = Xor(Word(u), Word(l))
      BY <1>1 DEF BucketLists, Linked
    <3>2. Below(p, l)'
      BY <3>1, <2>6, <2>8 DEF Below, Older, Bucket
    <3>3. l \in (Addressable \cup {writer})' /\ u \in (Addressable \cup {writer})'
      BY <3>1, <2>3, <2>4 DEF Addressable
    <3>4. CASE p = n
      <4>1. u = h
        BY <3>1, <3>4, <1>1, <1>5, <2>1 DEF Above, Leader
      <4>2. Above(p, writer)'
        BY <3>4, <2>1, <2>3, <2>6, <2>8, <1>5 DEF Above, Leader
      <4>3. writer # 0 /\ Word(writer) = {writer}
        BY <1>1, Geometry DEF Ring, Layout, TypeOK, Word
      <4>4. Xor(Xor(Xor(Word(h), Word(l)), Word(h)), {writer})
              = Xor({writer}, Word(l))
        BY DEF Xor
      <4>5. entry'[p].link = Xor(Word(writer), Word(l))
        BY <3>1, <3>4, <4>1, <4>3, <4>4, <2>4
      <4> QED BY <3>2, <3>3, <4>2, <4>5, <2>3 DEF Linked
    <3>5. CASE p # n
      <4>1. entry'[p].link = entry[p].link
        BY <3>5, <2>4, <1>1, LiveFacts
      <4>2. Above(p, u)'
        <5>1. CASE HashAt(p) = h
          <6>1. Newer(p) # {}
            BY <5>1, <3>5, <2>1, <1>1, <1>5, Compare
          <6> QED BY <6>1, <3>1, <2>6, <2>8 DEF Above, Newer, Bucket
        <5>2. CASE HashAt(p) # h
          <6>1. Leader(HashAt(p))' = Leader(HashAt(p))
            BY <5>2, <2>3, <2>6, <1>1 DEF Leader
          <6> QED BY <6>1, <3>1, <2>6, <2>8 DEF Above, Newer, Bucket
        <5> QED BY <5>1, <5>2
      <4> QED BY <3>1, <3>2, <3>3, <4>1, <4>2 DEF Linked
    <3> QED BY <3>4, <3>5
  <2> QED BY <2>3, <2>5, <2>9, <2>10, <1>1 DEF Lists, NoFault, BucketLists
<1> QED BY <1>2, <1>4, <1>5 DEF Headed
LEMMA ListsSetHead ==
  ASSUME Lists, SetHead
  PROVE  Lists'
(* n is the position of the new entry, h the bucket it goes to; writer    *)
(* and call change.                                                        *)
<1>0. PICK n, h : n = writer /\ h = KeyHash[call.key]
  OBVIOUS
<1>1. Ring /\ BucketLists /\ Ring' /\ TypeOK /\ Layout /\ CallConsistent
  BY RingSetHead DEF Lists, Ring
<1>2. /\ call.pc = "head" /\ status' = "ok" /\ call'.pc = "update"
      /\ UNCHANGED <<entry, oldest, unused>>
      /\ heads' = [heads EXCEPT ![h] = {n}]
      /\ writer' = writer + CallLen /\ CallLen \in Nat /\ CallLen >= 20
      /\ writer + CallLen <= oldest
      /\ h \in Buckets /\ writer \in DOMAIN entry
      /\ Live' = Live \cup {n}
  BY <1>0, <1>1, SetHeadFacts DEF Live, Lists, NoFault
<1>3. /\ HashAt(n) = h
      /\ entry[n].link = Xor(heads[h], Word(h))
      /\ writer \in Nat /\ 0 < writer
  BY <1>1, <1>0, <1>2, Geometry DEF CallConsistent, HashAt, TypeOK, Layout
<1>4. /\ \A q \in Live : /\ Rank(q)' = Rank(q) /\ HashAt(q)' = HashAt(q)
                         /\ Rank(q) \in Nat /\ q \in Nat
                         /\ Rank(q) < Rank(n)'
      /\ HashAt(n)' = h /\ Rank(n)' \in Nat
      /\ n \notin Live
  <2>1. \A q \in Live : /\ q \in Nat /\ q < Size /\ Rank(q) \in Nat
                        /\ q < writer \/ oldest <= q
    BY <1>1, LiveFacts
  <2>2. n \notin Live
    BY <2>1, <1>1, <1>0, <1>2 DEF TypeOK
  <2>3. Rank(n)' = n + Size
    BY <1>0, <1>2, <1>3 DEF Rank
  <2>4. \A q \in Live : Rank(q)' = Rank(q)
    BY <2>1, <1>1, <1>0, <1>2, <1>3 DEF Rank, TypeOK
  <2>5. \A q \in Live : Rank(q) < n + Size
    BY <2>1, <1>0, <1>3, Geometry DEF Rank
  <2> QED BY <2>1, <2>2, <2>3, <2>4, <2>5, <1>0, <1>2, <1>3, Geometry DEF HashAt
<1>5. \A b : Bucket(b)' = IF b = h THEN Bucket(b) \cup {n} ELSE Bucket(b)
  BY <1>0, <1>2, <1>4 DEF Bucket
<1>6. \A q \in Live : /\ Older(q)' = Older(q)
                      /\ Newer(q)' = IF HashAt(q) = h
                                     THEN Newer(q) \cup {n} ELSE Newer(q)
  BY <1>4, <1>5 DEF Newer, Older, Bucket
<1>7. Older(n)' = Bucket(h) /\ Newer(n)' = {}
  BY <1>4, <1>5 DEF Newer, Older, Bucket
<1>8. ASSUME NEW b \in Buckets
      PROVE  Headed(b)'
  <2>1. CASE b = h
    <3>1. heads'[b] = {n} /\ n \in Bucket(b)'
      BY <2>1, <1>1, <1>0, <1>2, <1>5 DEF TypeOK
    <3> QED BY <3>1, <1>7 DEF Headed
  <2>2. CASE b # h
    <3>1. heads'[b] = heads[b] /\ Bucket(b)' = Bucket(b)
      BY <2>2, <1>1, <1>0, <1>2, <1>5 DEF TypeOK
    <3>2. \A q \in Bucket(b) : q \in Live /\ Newer(q)' = Newer(q)
      BY <2>2, <1>6 DEF Bucket
    <3>3. Headed(b)
      BY <1>1 DEF BucketLists
    <3> QED BY <3>1, <3>2, <3>3 DEF Headed
  <2> QED BY <2>1, <2>2
<1>9. Addressable' = Addressable /\ 0 \in Addressable /\ h \in Addressable
        /\ n \in Addressable
  BY <1>0, <1>2, Geometry DEF Addressable
<1>10. Linked(n)'
  <2>1. Above(n, h)'
    BY <1>0, <1>2, <1>4, <1>7 DEF Above, Leader
  <2>2. \E l \in Addressable : heads[h] = Word(l) /\ Below(n, l)'
    <3>1. CASE Bucket(h) = {} /\ heads[h] = {}
      BY <3>1, <1>7, <1>9 DEF Below, Word
    <3>2. ASSUME NEW p \in Bucket(h), heads[h] = {p}, Newer(p) = {}
          PROVE  \E l \in Addressable : heads[h] = Word(l) /\ Below(n, l)'
      <4>1. /\ p \in Live /\ HashAt(p) = h /\ p \in Addressable
            /\ heads[h] = Word(p)
        BY <3>2, <1>1, LiveFacts DEF Bucket, Addressable, Word
      <4>2. \A q \in Bucket(h) : Rank(q) <= Rank(p)
        <5> SUFFICES ASSUME NEW q \in Bucket(h)
                     PROVE  Rank(q) <= Rank(p)
          OBVIOUS
        <5>1. q \in Live /\ HashAt(q) = h /\ Rank(q) \in Nat /\ Rank(p) \in Nat
          BY <4>1, <1>4 DEF Bucket
        <5>2. CASE q = p
          BY <5>1, <5>2
        <5>3. CASE q # p
          <6>1. q \in Older(p)
            BY <5>1, <5>3, <4>1, <3>2, <1>1, Compare
          <6> QED BY <6>1, <5>1 DEF Older
        <5> QED BY <5>2, <5>3
      <4>3. \A q \in Bucket(h) : Rank(q)' <= Rank(p)'
        BY <4>1, <4>2, <1>4 DEF Bucket
      <4>4. Below(n, p)'
        BY <3>2, <4>3, <1>7 DEF Below
      <4> QED BY <4>1, <4>4
    <3>3. Headed(h)
      BY <1>1, <1>0, <1>2 DEF BucketLists
    <3> QED BY <3>1, <3>2, <3>3 DEF Headed
  <2>3. PICK l \in Addressable : heads[h] = Word(l) /\ Below(n, l)'
    BY <2>2
  <2>4. entry'[n].link = Xor(Word(h), Word(l))
    BY <2>3, <1>0, <1>2, <1>3 DEF Xor
  <2> QED BY <2>1, <2>3, <2>4, <1>9 DEF Linked
<1>11. ASSUME NEW p \in Live
       PROVE  Linked(p)'
  <2>1. PICK u, l \in Addressable \cup {writer} :
          /\ Above(p, u)
          /\ Below(p, l)
          /\ entry[p].link = Xor(Word(u), Word(l))
    BY <1>1 DEF BucketLists, Linked
  <2>2. Below(p, l)'
    BY <2>1, <1>4, <1>6 DEF Below, Older, Bucket
  <2>3. u \in Addressable /\ l \in Addressable
    BY <2>1, <1>0, <1>9
  <2>4. Above(p, u)'
    <3>1. CASE HashAt(p) = h /\ Newer(p) = {}
      <4>1. u = n
        BY <3>1, <2>1, <1>0, <1>2 DEF Above, Leader
      <4>2. Newer(p)' = {n}
        BY <3>1, <1>6
      <4> QED BY <4>1, <4>2, <1>4 DEF Above
    <3>2. CASE HashAt(p) = h /\ Newer(p) # {}
      <4>1. u \in Newer(p) /\ \A q \in Newer(p) : Rank(u) <= Rank(q)
        BY <3>2, <2>1 DEF Above
      <4>2. Newer(p)' = Newer(p) \cup {n}
        BY <3>2, <1>6
      <4>3. Newer(p) \subseteq Live
        BY DEF Newer, Bucket
      <4>4. \A q \in Newer(p)' : Rank(u)' <= Rank(q)'
        BY <4>1, <4>2, <4>3, <1>4
      <4> QED BY <4>1, <4>2, <4>4 DEF Above
    <3>3. CASE HashAt(p) # h
      <4>1. Leader(HashAt(p))' = Leader(HashAt(p))
        BY <3>3, <1>0, <1>2, <1>4 DEF Leader
      <4>2. Newer(p)' = Newer(p) /\ Newer(p) \subseteq Live
        BY <3>3, <1>6 DEF Newer, Bucket
      <4> QED BY <4>1, <4>2, <2>1, <1>4 DEF Above
    <3> QED BY <3>1, <3>2, <3>3
  <2> QED BY <2>1, <2>2, <2>3, <2>4, <1>0, <1>2, <1>9 DEF Linked
<1> QED BY <1>1, <1>0, <1>2, <1>8, <1>10, <1>11 DEF Lists, NoFault, BucketLists

(* Steps between calls.                                                    *)
LEMMA ListsQuiet ==
  ASSUME Lists, Ring', status' = "ok",
         UNCHANGED <<heads, entry, writer, oldest, unused>>,
         call.pc \notin {"store", "head"}, call'.pc \notin {"store", "head"}
  PROVE  Lists'
<1>1. Live' = Live
  BY DEF Live, NewLive, OldLive
<1>2. \A b \in Buckets : Leader(b)' = Leader(b)
  BY DEF Leader
<1>3. \A q \in Live : q \in DOMAIN entry' /\ entry'[q] = entry[q]
  BY DEF Live, NewLive, OldLive
<1>4. BucketLists'
  BY <1>1, <1>2, <1>3, SameLists DEF Lists
<1> QED BY <1>4 DEF Lists, NoFault

LEMMA ListsNext ==
  ASSUME UseFile => EntriesFit, Lists, [Next]_vars
  PROVE  Lists'
<1>1. Ring /\ status = "ok" /\ Ring'
  BY RingNext DEF Lists, NoFault
<1>2. ASSUME NEW k \in Keys, NEW d \in Data, NEW t \in TTLs, cache_set(k, d, t)
      PROVE  Lists'
  BY <1>1, <1>2, ListsQuiet DEF cache_set, Idle
<1>3. CASE GiveUp
  BY <1>1, <1>3, ListsQuiet DEF GiveUp, Idle, At
<1>4. CASE cache_update
  BY <1>1, <1>4, ListsQuiet DEF cache_update, Idle, At
<1>5. CASE Tick
  BY <1>1, <1>5, ListsQuiet DEF Tick, Idle
<1>6. CASE Restart /\ UseFile
  <2>1. /\ header = <<writer, oldest, unused>>
        /\ cache_open
    BY <1>1, <1>6 DEF Restart, HeaderCurrent, cache_init, Ring
  <2>2. /\ UNCHANGED <<heads, entry, writer, oldest, unused>>
        /\ call' = Idle /\ status' = "ok" /\ call = Idle
    BY <2>1, <1>6 DEF cache_open, Load, Restart
  <2> QED BY <2>2, <1>1, ListsQuiet DEF Idle
<1>7. CASE Restart /\ ~UseFile
  <2>1. /\ DOMAIN entry' = {} /\ status' = "ok"
        /\ heads' = [b \in Buckets |-> {}]
    BY <1>7 DEF Restart, cache_open, cache_init, Load
  <2>2. Live' = {}
    BY <2>1 DEF Live, NewLive, OldLive
  <2>3. \A b \in Buckets : Headed(b)'
    BY <2>1, <2>2 DEF Headed, Bucket
  <2> QED BY <1>1, <2>1, <2>2, <2>3 DEF Lists, NoFault, BucketLists
<1>8. CASE UNCHANGED vars
  <2>1. Live' = Live
    BY <1>8 DEF vars, Live, NewLive, OldLive
  <2>2. \A b \in Buckets : Leader(b)' = Leader(b)
    BY <1>8 DEF vars, Leader
  <2>3. \A q \in Live : q \in DOMAIN entry' /\ entry'[q] = entry[q]
    BY <1>8 DEF vars, Live, NewLive, OldLive
  <2> QED BY <1>1, <1>8, <2>1, <2>2, <2>3, SameLists DEF vars, Lists, NoFault
<1>9. ASSUME Evict \/ Wrap \/ Relink \/ Store \/ SetHead
      PROVE  Lists'
  BY <1>9, ListsEvict, ListsWrap, ListsRelink, ListsStore, ListsSetHead
<1> QED BY <1>2, <1>3, <1>4, <1>5, <1>6, <1>7, <1>8, <1>9 DEF Next

LEMMA ListsInit == Init => Lists
<1> SUFFICES ASSUME Init PROVE Lists
  OBVIOUS
<1>1. Ring /\ status = "ok"
  BY RingInit DEF Init
<1>2. Live = {}
  BY DEF Init, Live, NewLive, OldLive
<1>3. \A b \in Buckets : Headed(b)
  BY <1>2 DEF Init, Headed, Bucket
<1> QED BY <1>1, <1>2, <1>3 DEF Lists, NoFault, BucketLists

(* Every bucket is the list of its live entries, newest first, and every   *)
(* link is the exclusive or of its neighbours, at every step of every      *)
(* cache_set.                                                              *)
THEOREM BucketListsHold ==
  ASSUME UseFile => EntriesFit
  PROVE  Spec => []BucketLists
<1>1. Init => Lists
  BY ListsInit
<1>2. Lists /\ [Next]_vars => Lists'
  BY ListsNext
<1>3. Lists => BucketLists
  BY DEF Lists
<1> QED BY <1>1, <1>2, <1>3, PTL DEF Spec

(* cache_set never runs cache_impossible, and never follows a link to      *)
(* bytes that are no link: a process that is stopped only between calls    *)
(* never exits with 111.                                                   *)
THEOREM NoFaultHolds ==
  ASSUME UseFile => EntriesFit
  PROVE  Spec => []NoFault
<1>1. Init => Lists
  BY ListsInit
<1>2. Lists /\ [Next]_vars => Lists'
  BY ListsNext
<1>3. Lists => NoFault
  BY DEF Lists
<1> QED BY <1>1, <1>2, <1>3, PTL DEF Spec

-----------------------------------------------------------------------------
(* What cache_get finds.                                                   *)

LEMMA LeastOf ==
  ASSUME NEW S, S \subseteq Nat, S # {}
  PROVE  \E x \in S : \A y \in S : x <= y
<1>1. PICK x \in S : \A y \in S : ~(<<y, x>> \in OpToRel(<, Nat))
  BY NatLessThanWellFounded, WFMin, Zenon
<1>2. \A y \in S : x <= y
  <2>1. SUFFICES ASSUME NEW y \in S PROVE x <= y
    OBVIOUS
  <2>2. ~(y < x)
    BY <1>1 DEF OpToRel
  <2> QED BY <2>2
<1> QED BY <1>2

(* The place of an entry in its list: how many come before it.             *)
Place(p) == Cardinality(Newer(p))

LEMMA PlaceFacts ==
  ASSUME Ring, NEW p \in Live
  PROVE  /\ IsFiniteSet(Newer(p)) /\ Place(p) \in Nat
         /\ IsFiniteSet(Bucket(HashAt(p)))
         /\ Cardinality(Bucket(HashAt(p))) \in Nat
         /\ Place(p) < Cardinality(Bucket(HashAt(p)))
<1>1. IsFiniteSet(0 .. Size)
  BY Geometry, FS_Interval
<1>2. Bucket(HashAt(p)) \in SUBSET (0 .. Size)
  BY LiveFacts, Geometry DEF Bucket
<1>3. IsFiniteSet(Bucket(HashAt(p)))
  BY <1>1, <1>2, FS_Subset
<1>4. Newer(p) \in SUBSET Bucket(HashAt(p))
  BY DEF Newer
<1>5. /\ IsFiniteSet(Newer(p)) /\ Place(p) <= Cardinality(Bucket(HashAt(p)))
      /\ Cardinality(Bucket(HashAt(p))) = Place(p) => Bucket(HashAt(p)) = Newer(p)
  BY <1>3, <1>4, FS_Subset DEF Place
<1>6. p \in Bucket(HashAt(p)) /\ p \notin Newer(p)
  BY LiveFacts DEF Bucket, Newer
<1>7. Place(p) \in Nat /\ Cardinality(Bucket(HashAt(p))) \in Nat
  BY <1>3, <1>5, FS_CardinalityType DEF Place
<1> QED BY <1>3, <1>5, <1>6, <1>7

(* A newer entry has an earlier place.                                     *)
LEMMA PlaceOrder ==
  ASSUME Ring, NEW p \in Live, NEW q \in Live, HashAt(p) = HashAt(q), Rank(p) < Rank(q)
  PROVE  Place(q) < Place(p)
<1>1. Rank(p) \in Nat /\ Rank(q) \in Nat /\ \A r \in Live : Rank(r) \in Nat
  BY LiveFacts
<1>2. \A r \in Newer(q) : r \in Live /\ HashAt(r) = HashAt(q) /\ Rank(q) < Rank(r)
  BY DEF Newer, Bucket
<1>3. \A r \in Newer(q) : r \in Newer(p)
  <2>1. SUFFICES ASSUME NEW r \in Newer(q) PROVE r \in Newer(p)
    OBVIOUS
  <2>2. r \in Live /\ HashAt(r) = HashAt(p) /\ Rank(p) < Rank(r)
    BY <1>1, <1>2
  <2> QED BY <2>2 DEF Newer, Bucket
<1>4. Newer(q) \in SUBSET Newer(p)
  BY <1>3
<1>5. q \in Newer(p) /\ q \notin Newer(q)
  BY <1>1 DEF Newer, Bucket
<1>6. Place(q) <= Place(p) /\ (Place(p) = Place(q) => Newer(p) = Newer(q))
  BY <1>4, PlaceFacts, FS_Subset DEF Place
<1>7. Place(q) \in Nat /\ Place(p) \in Nat
  BY PlaceFacts
<1> QED BY <1>5, <1>6, <1>7

(* The entry below p is in the next place, and p is above it; the last     *)
(* entry has all the others of its bucket before it.                       *)
LEMMA NextPlace ==
  ASSUME Ring, NEW p \in Live, NEW l, Below(p, l)
  PROVE  \/ /\ l = 0 /\ Cardinality(Bucket(HashAt(p))) = Place(p) + 1
         \/ /\ l \in Live /\ l # 0 /\ HashAt(l) = HashAt(p)
            /\ Place(l) = Place(p) + 1 /\ Above(l, p)
<1>1. Rank(p) \in Nat /\ \A r \in Live : Rank(r) \in Nat
  BY LiveFacts
<1>2. p \notin Newer(p) /\ p \in Bucket(HashAt(p))
  BY <1>1 DEF Newer, Bucket
<1>3. Cardinality(Newer(p) \cup {p}) = Place(p) + 1
  BY <1>2, PlaceFacts, FS_AddElement DEF Place
<1>4. CASE Older(p) = {} /\ l = 0
  <2>1. ASSUME NEW q \in Bucket(HashAt(p)), q # p PROVE q \in Newer(p)
    <3>1. q \in Live /\ HashAt(q) = HashAt(p)
      BY DEF Bucket
    <3> QED BY <2>1, <3>1, <1>4, Compare
  <2>2. Bucket(HashAt(p)) = Newer(p) \cup {p}
    BY <2>1, <1>2 DEF Newer
  <2> QED BY <2>2, <1>3, <1>4
<1>5. CASE l \in Older(p) /\ \A q \in Older(p) : Rank(q) <= Rank(l)
  <2>1. l \in Live /\ HashAt(l) = HashAt(p) /\ Rank(l) < Rank(p) /\ l # 0
    BY <1>5, LiveFacts DEF Older, Bucket
  <2>2. Rank(l) \in Nat
    BY <2>1, <1>1
  <2>3. ASSUME NEW q \in Newer(l), q # p PROVE q \in Newer(p) /\ Rank(p) < Rank(q)
    <3>1. q \in Live /\ HashAt(q) = HashAt(p) /\ Rank(l) < Rank(q) /\ Rank(q) \in Nat
      BY <2>1, <1>1 DEF Newer, Bucket
    <3>2. q \notin Older(p)
      BY <3>1, <2>2, <1>5
    <3>3. q \in Newer(p)
      BY <2>3, <3>1, <3>2, Compare
    <3> QED BY <3>3 DEF Newer
  <2>4. ASSUME NEW q \in Newer(p) PROVE q \in Newer(l)
    <3>1. q \in Live /\ HashAt(q) = HashAt(l) /\ Rank(p) < Rank(q) /\ Rank(q) \in Nat
      BY <2>1, <1>1 DEF Newer, Bucket
    <3>2. Rank(l) < Rank(q)
      BY <3>1, <2>1, <2>2, <1>1
    <3> QED BY <3>1, <3>2 DEF Newer, Bucket
  <2>5. p \in Newer(l)
    BY <2>1 DEF Newer, Bucket
  <2>6. Newer(l) = Newer(p) \cup {p}
    BY <2>3, <2>4, <2>5
  <2>7. Place(l) = Place(p) + 1
    BY <2>6, <1>3 DEF Place
  <2>8. Above(l, p)
    <3>1. \A q \in Newer(l) : Rank(p) <= Rank(q)
      <4>1. SUFFICES ASSUME NEW q \in Newer(l) PROVE Rank(p) <= Rank(q)
        OBVIOUS
      <4>2. Rank(q) \in Nat
        BY <1>1 DEF Newer, Bucket
      <4> QED BY <4>2, <2>3, <1>1
    <3> QED BY <3>1, <2>5 DEF Above
  <2> QED BY <2>1, <2>7, <2>8
<1> QED BY <1>4, <1>5 DEF Below

(* There is one item above an entry.                                       *)
LEMMA OneAbove ==
  ASSUME Ring, NEW p \in Live, NEW u, NEW v, Above(p, u), Above(p, v)
  PROVE  u = v
<1>1. CASE Newer(p) = {}
  BY <1>1 DEF Above
<1>2. CASE Newer(p) # {}
  <2>1. /\ u \in Newer(p) /\ v \in Newer(p)
        /\ Rank(u) <= Rank(v) /\ Rank(v) <= Rank(u)
    BY <1>2 DEF Above
  <2>2. u \in Live /\ v \in Live
    BY <2>1 DEF Newer, Bucket
  <2>3. Rank(u) \in Nat /\ Rank(v) \in Nat /\ (Rank(u) = Rank(v) => u = v)
    BY <2>2, LiveFacts
  <2> QED BY <2>1, <2>3
<1> QED BY <1>1, <1>2

LEMMA XorBack ==
  ASSUME NEW a, NEW b
  PROVE  Xor(a, Xor(a, b)) = b
BY DEF Xor

(* From above p, the link of p leads to what is below it.                  *)
LEMMA FollowLink ==
  ASSUME Ring, BucketLists, NEW p \in Live, NEW u, Above(p, u)
  PROVE  \E l : Below(p, l) /\ Xor(Word(u), entry[p].link) = Word(l)
<1>1. Linked(p)
  BY DEF BucketLists
<1>2. PICK v, l \in Addressable \cup {writer} :
        /\ Above(p, v)
        /\ Below(p, l)
        /\ entry[p].link = Xor(Word(v), Word(l))
  BY <1>1 DEF Linked
<1>3. v = u
  BY <1>2, OneAbove
<1> QED BY <1>2, <1>3, XorBack

(* One turn of the walk of cache_find: f are the turns so far.             *)
Turn(k, f, n) ==
  IF n = 0
  THEN [prev |-> KeyHash[k], pos |-> heads[KeyHash[k]]]
  ELSE IF OnEntry(f[n - 1].pos)
       THEN [prev |-> Position(f[n - 1].pos),
             pos |-> Xor(Word(f[n - 1].prev), entry[Position(f[n - 1].pos)].link)]
       ELSE [prev |-> 0, pos |-> {}]

Walks(k, n) == \E f : f = [m \in 0 .. n |-> Turn(k, f, m)]

LEMMA WalksNext ==
  ASSUME NEW k, NEW n \in Nat, NEW m, m = n + 1, Walks(k, n)
  PROVE  Walks(k, m)
<1>1. PICK f : f = [i \in 0 .. n |-> Turn(k, f, i)]
  BY DEF Walks
<1>2. PICK x : x = Turn(k, f, m)
  OBVIOUS
<1>3. PICK g : g = [i \in 0 .. m |-> IF i = m THEN x ELSE f[i]]
  OBVIOUS
<1>4. \A i \in 0 .. n : g[i] = f[i] /\ f[i] = Turn(k, f, i)
  BY <1>1, <1>3
<1>5. \A i : i # 0 /\ g[i - 1] = f[i - 1] => Turn(k, g, i) = Turn(k, f, i)
  BY DEF Turn
<1>6. ASSUME NEW i \in 0 .. m PROVE g[i] = Turn(k, g, i)
  <2>1. CASE i = m
    <3>1. g[i] = x /\ i # 0 /\ i - 1 = n /\ n \in 0 .. n
      BY <2>1, <1>3
    <3>2. g[i - 1] = f[i - 1]
      BY <3>1, <1>4
    <3> QED BY <2>1, <3>1, <3>2, <1>2, <1>5
  <2>2. CASE i # m
    <3>1. i \in 0 .. n /\ (i # 0 => i - 1 \in 0 .. n)
      BY <2>2
    <3>2. g[i] = Turn(k, f, i) /\ (i # 0 => g[i - 1] = f[i - 1])
      BY <3>1, <1>4
    <3>3. i = 0 => Turn(k, g, i) = Turn(k, f, i)
      BY DEF Turn
    <3> QED BY <3>2, <3>3, <1>5
  <2> QED BY <2>1, <2>2
<1>7. g = [i \in 0 .. m |-> Turn(k, g, i)]
  BY <1>3, <1>6
<1> QED BY <1>7 DEF Walks

LEMMA WalksExist == ASSUME NEW k, NEW N \in Nat PROVE Walks(k, N)
<1> DEFINE Bad == {n \in Nat : ~Walks(k, n)}
<1>1. Walks(k, 0)
  <2>1. PICK x : x = [prev |-> KeyHash[k], pos |-> heads[KeyHash[k]]]
    OBVIOUS
  <2>2. PICK f : f = [i \in 0 .. 0 |-> x]
    OBVIOUS
  <2>3. \A i \in 0 .. 0 : f[i] = Turn(k, f, i)
    BY <2>1, <2>2 DEF Turn
  <2>4. f = [i \in 0 .. 0 |-> Turn(k, f, i)]
    BY <2>2, <2>3
  <2> QED BY <2>4 DEF Walks
<1>2. ASSUME Bad # {} PROVE FALSE
  <2>1. PICK m \in Bad : \A y \in Bad : m <= y
    BY <1>2, LeastOf
  <2>2. m \in Nat /\ m - 1 \in Nat /\ m - 1 \notin Bad
    BY <2>1, <1>1
  <2>3. PICK n \in Nat : n = m - 1
    BY <2>2
  <2>4. Walks(k, n) /\ m = n + 1
    BY <2>2, <2>3
  <2> QED BY <2>1, <2>4, WalksNext
<1> QED BY <1>2

LEMMA WalkUnfold ==
  ASSUME NEW k
  PROVE  \E f : /\ \A n \in 0 .. MaxLoop : f[n] = Turn(k, f, n)
                /\ Walk(k) = [n \in 0 .. MaxLoop |-> f[n].pos]
<1> DEFINE f == CHOOSE f : f = [n \in 0 .. MaxLoop |-> Turn(k, f, n)]
<1>1. \E g : g = [n \in 0 .. MaxLoop |-> Turn(k, g, n)]
  BY WalksExist, LimitAssumption DEF Walks
<1>2. f = [n \in 0 .. MaxLoop |-> Turn(k, f, n)]
  BY <1>1
<1>3. Walk(k) = [n \in 0 .. MaxLoop |-> f[n].pos]
  BY DEF Walk, Turn
<1> HIDE DEF f
<1>4. \A n \in 0 .. MaxLoop : f[n] = Turn(k, f, n)
  BY <1>2
<1> QED BY <1>3, <1>4

(* The n-th turn of the walk stands on the entry in place n of the bucket, *)
(* or has left the list behind.                                            *)
OnPlace(h, w, n) ==
  \/ Cardinality(Bucket(h)) <= n /\ w.pos = {}
  \/ \E p \in Bucket(h) : w.pos = {p} /\ Place(p) = n /\ Above(p, w.prev)

LEMMA EntryWord ==
  ASSUME Ring, NEW p \in Live
  PROVE  /\ {p} = Word(p) /\ Position({p}) = p /\ OnEntry({p})
         /\ p \in DOMAIN entry /\ p # 0
<1>1. p # 0 /\ p \in DOMAIN entry
  BY LiveFacts
<1>2. {p} = Word(p)
  BY <1>1 DEF Word
<1>3. Position({p}) = p /\ IsPosition({p})
  BY <1>2, WordPosition
<1> QED BY <1>1, <1>2, <1>3 DEF OnEntry

LEMMA FirstTurn ==
  ASSUME Lists, call = Idle, NEW k \in Keys, NEW f
  PROVE  OnPlace(KeyHash[k], Turn(k, f, 0), 0)
<1>1. PICK h \in Buckets : h = KeyHash[k]
  BY KeyAssumption
<1>2. PICK w : w = heads[h]
  OBVIOUS
<1>3. Turn(k, f, 0) = [prev |-> h, pos |-> w]
  BY <1>1, <1>2 DEF Turn
<1>4. PICK x : x = [prev |-> h, pos |-> w]
  OBVIOUS
<1>5. x.prev = h /\ x.pos = w
  BY <1>4
<1>6. Headed(h) /\ Ring
  BY DEF Lists, BucketLists
<1>7. CASE Bucket(h) = {} /\ heads[h] = {}
  BY <1>2, <1>1, <1>3, <1>4, <1>5, <1>7, FS_EmptySet DEF OnPlace
<1>8. ASSUME NEW p \in Bucket(h), heads[h] = {p}, Newer(p) = {}
      PROVE  OnPlace(KeyHash[k], Turn(k, f, 0), 0)
  <2>1. Place(p) = 0
    BY <1>8, FS_EmptySet DEF Place
  <2>2. p \in Live /\ HashAt(p) = h
    BY DEF Bucket
  <2>3. Leader(h) = h
    BY DEF Leader, Idle
  <2>4. Above(p, h)
    BY <1>8, <2>2, <2>3 DEF Above
  <2>5. x.pos = {p} /\ Above(p, x.prev)
    BY <1>2, <1>5, <1>8, <2>4
  <2>6. OnPlace(h, x, 0)
    BY <2>1, <2>5 DEF OnPlace
  <2> QED BY <2>6, <1>1, <1>3, <1>4
<1> QED BY <1>6, <1>7, <1>8 DEF Headed

LEMMA NextTurn ==
  ASSUME Lists, NEW k \in Keys, NEW f, NEW n \in Nat, NEW m, m = n + 1,
         OnPlace(KeyHash[k], f[n], n)
  PROVE  OnPlace(KeyHash[k], Turn(k, f, m), m)
<1>1. PICK h \in Buckets : h = KeyHash[k]
  BY KeyAssumption
<1>2. PICK w : w = f[n]
  OBVIOUS
<1>3. PICK x : x = Turn(k, f, m)
  OBVIOUS
<1>4. m # 0 /\ m - 1 = n
  OBVIOUS
<1>5. x = IF OnEntry(w.pos)
          THEN [prev |-> Position(w.pos), pos |-> Xor(Word(w.prev), entry[Position(w.pos)].link)]
          ELSE [prev |-> 0, pos |-> {}]
  BY <1>2, <1>3, <1>4 DEF Turn
<1>6. Ring /\ BucketLists
  BY DEF Lists
<1>7. CASE Cardinality(Bucket(h)) <= n /\ w.pos = {}
  <2>1. x.pos = {}
    BY <1>5, <1>7 DEF OnEntry
  <2>2. Cardinality(Bucket(h)) \in Nat
    <3>1. CASE Bucket(h) = {}
      BY <3>1, FS_EmptySet
    <3>2. ASSUME NEW p \in Bucket(h) PROVE Cardinality(Bucket(h)) \in Nat
      BY <3>2, <1>6, PlaceFacts DEF Bucket
    <3> QED BY <3>1, <3>2
  <2>3. Cardinality(Bucket(h)) <= m
    BY <1>7, <2>2
  <2> QED BY <1>1, <1>3, <2>1, <2>3 DEF OnPlace
<1>8. ASSUME NEW p \in Bucket(h), w.pos = {p}, Place(p) = n, Above(p, w.prev)
      PROVE  OnPlace(h, x, m)
  <2>1. p \in Live /\ HashAt(p) = h
    BY DEF Bucket
  <2>2. OnEntry(w.pos) /\ Position(w.pos) = p
    BY <1>6, <1>8, <2>1, EntryWord
  <2>3. PICK u : u = w.prev
    OBVIOUS
  <2>4. PICK y : y = Xor(Word(u), entry[p].link)
    OBVIOUS
  <2>5. x = [prev |-> p, pos |-> y]
    BY <1>5, <2>2, <2>3, <2>4
  <2>6. x.prev = p /\ x.pos = y
    BY <2>5
  <2>7. Above(p, u)
    BY <1>8, <2>3
  <2>8. PICK l : Below(p, l) /\ y = Word(l)
    BY <1>6, <2>1, <2>4, <2>7, FollowLink
  <2>9. CASE l = 0 /\ Cardinality(Bucket(HashAt(p))) = Place(p) + 1
    <3>1. x.pos = {} /\ Cardinality(Bucket(h)) = m
      BY <1>8, <2>1, <2>6, <2>8, <2>9 DEF Word
    <3> QED BY <3>1 DEF OnPlace
  <2>10. CASE /\ l \in Live /\ l # 0 /\ HashAt(l) = HashAt(p)
              /\ Place(l) = Place(p) + 1 /\ Above(l, p)
    <3>1. l \in Bucket(h) /\ x.pos = {l} /\ Place(l) = m /\ Above(l, x.prev)
      BY <1>8, <2>1, <2>6, <2>8, <2>10 DEF Word, Bucket
    <3> QED BY <3>1 DEF OnPlace
  <2> QED BY <1>6, <2>1, <2>8, <2>9, <2>10, NextPlace
<1>9. OnPlace(h, w, n)
  BY <1>1, <1>2
<1> QED BY <1>1, <1>3, <1>7, <1>8, <1>9 DEF OnPlace

(* The walk sees the bucket from its newest entry on.                      *)
LEMMA WalkPlaces ==
  ASSUME Lists, call = Idle, NEW k \in Keys
  PROVE  \A n \in 0 .. MaxLoop :
           \/ Cardinality(Bucket(KeyHash[k])) <= n /\ Walk(k)[n] = {}
           \/ \E p \in Bucket(KeyHash[k]) : Walk(k)[n] = {p} /\ Place(p) = n
<1>1. MaxLoop \in Nat
  BY LimitAssumption
<1>2. PICK f : /\ \A n \in 0 .. MaxLoop : f[n] = Turn(k, f, n)
               /\ Walk(k) = [n \in 0 .. MaxLoop |-> f[n].pos]
  BY WalkUnfold
<1> DEFINE Bad == {n \in 0 .. MaxLoop : ~OnPlace(KeyHash[k], f[n], n)}
<1>3. ASSUME Bad # {} PROVE FALSE
  <2>1. Bad \subseteq Nat
    BY <1>1
  <2>2. PICK m \in Bad : \A y \in Bad : m <= y
    <3> HIDE DEF Bad
    <3> QED BY <2>1, <1>3, LeastOf
  <2>3. m \in 0 .. MaxLoop /\ f[m] = Turn(k, f, m) /\ ~OnPlace(KeyHash[k], f[m], m)
    BY <2>2, <1>2
  <2>4. m # 0
    BY <2>3, FirstTurn
  <2>5. PICK n \in Nat : m = n + 1 /\ n \in 0 .. MaxLoop /\ n < m
    BY <2>3, <2>4, <1>1
  <2>6. OnPlace(KeyHash[k], f[n], n)
    BY <2>2, <2>3, <2>5
  <2>7. OnPlace(KeyHash[k], Turn(k, f, m), m)
    BY <2>5, <2>6, NextTurn
  <2> QED BY <2>3, <2>7
<1>4. SUFFICES ASSUME NEW n \in 0 .. MaxLoop
               PROVE  \/ Cardinality(Bucket(KeyHash[k])) <= n /\ Walk(k)[n] = {}
                      \/ \E p \in Bucket(KeyHash[k]) : Walk(k)[n] = {p} /\ Place(p) = n
  OBVIOUS
<1>5. Walk(k)[n] = f[n].pos
  BY <1>2
<1>6. OnPlace(KeyHash[k], f[n], n)
  BY <1>3
<1> QED BY <1>5, <1>6 DEF OnPlace

(* The places where the walk finds the key k.                              *)
Hits(k) == {n \in 0 .. MaxLoop : OnEntry(Walk(k)[n]) /\ entry[Position(Walk(k)[n])].key = k}

With(k) == {p \in Live : entry[p].key = k}

LEMMA HitsFacts ==
  ASSUME Lists, call = Idle, NEW k \in Keys
  PROVE  /\ \A n \in Hits(k) : \E p \in With(k) : Walk(k)[n] = {p} /\ Place(p) = n
         /\ \A p \in With(k) : Place(p) <= MaxLoop => Place(p) \in Hits(k) /\ Walk(k)[Place(p)] = {p}
<1>1. Ring
  BY DEF Lists
<1>2. \A p \in With(k) : p \in Live /\ p \in Bucket(KeyHash[k]) /\ HashAt(p) = KeyHash[k]
  BY DEF With, Bucket, HashAt
<1>3. ASSUME NEW n \in Hits(k) PROVE \E p \in With(k) : Walk(k)[n] = {p} /\ Place(p) = n
  <2>1. n \in 0 .. MaxLoop /\ OnEntry(Walk(k)[n]) /\ entry[Position(Walk(k)[n])].key = k
    BY <1>3 DEF Hits
  <2>2. Walk(k)[n] # {}
    BY <2>1 DEF OnEntry
  <2>3. PICK p \in Bucket(KeyHash[k]) : Walk(k)[n] = {p} /\ Place(p) = n
    BY <2>1, <2>2, WalkPlaces
  <2>4. p \in Live
    BY DEF Bucket
  <2>5. Position(Walk(k)[n]) = p
    BY <1>1, <2>3, <2>4, EntryWord
  <2> QED BY <2>1, <2>3, <2>4, <2>5 DEF With
<1>4. ASSUME NEW p \in With(k), Place(p) <= MaxLoop
      PROVE  Place(p) \in Hits(k) /\ Walk(k)[Place(p)] = {p}
  <2>1. p \in Live /\ HashAt(p) = KeyHash[k] /\ entry[p].key = k
    BY <1>2 DEF With
  <2>2. PICK n \in Nat : n = Place(p) /\ n < Cardinality(Bucket(KeyHash[k]))
                         /\ Cardinality(Bucket(KeyHash[k])) \in Nat
    BY <1>1, <2>1, PlaceFacts
  <2>3. n \in 0 .. MaxLoop /\ ~(Cardinality(Bucket(KeyHash[k])) <= n)
    BY <1>4, <2>2, LimitAssumption
  <2>4. PICK q \in Bucket(KeyHash[k]) : Walk(k)[n] = {q} /\ Place(q) = n
    BY <2>3, WalkPlaces
  <2>5. q \in Live /\ HashAt(q) = HashAt(p)
    BY <2>1 DEF Bucket
  <2>6. Rank(p) \in Nat /\ Rank(q) \in Nat /\ (Rank(p) = Rank(q) => p = q)
    BY <1>1, <2>1, <2>5, LiveFacts
  <2>7. ~(Rank(p) < Rank(q)) /\ ~(Rank(q) < Rank(p))
    BY <1>1, <2>1, <2>2, <2>4, <2>5, PlaceOrder
  <2>8. q = p
    BY <2>6, <2>7
  <2>9. OnEntry(Walk(k)[n]) /\ Position(Walk(k)[n]) = p
    BY <1>1, <2>1, <2>4, <2>8, EntryWord
  <2> QED BY <2>1, <2>2, <2>3, <2>4, <2>8, <2>9 DEF Hits
<1> QED BY <1>3, <1>4

(* Of the entries with a key the newest comes first in the list.           *)
LEMMA NewestFacts ==
  ASSUME Ring, NEW k \in Keys, With(k) # {}
  PROVE  /\ Newest(With(k)) \in With(k)
         /\ \A q \in With(k) : Place(Newest(With(k))) <= Place(q)
<1>1. \A p \in With(k) : p \in Live /\ HashAt(p) = KeyHash[k] /\ Place(p) \in Nat /\ Rank(p) \in Nat
  BY PlaceFacts, LiveFacts DEF With, HashAt
<1>2. PICK S : S = {Place(p) : p \in With(k)}
  OBVIOUS
<1>3. S \subseteq Nat /\ S # {}
  BY <1>1, <1>2
<1>4. PICK x \in S : \A y \in S : x <= y
  BY <1>3, LeastOf
<1>5. PICK p \in With(k) : x = Place(p)
  BY <1>2
<1>6. ASSUME NEW q \in With(k) PROVE Rank(q) <= Rank(p)
  <2>1. x <= Place(q) /\ Place(q) \in Nat /\ Place(p) \in Nat
    BY <1>1, <1>2, <1>4
  <2>2. ~(Place(q) < Place(p))
    BY <1>5, <2>1
  <2>3. ~(Rank(p) < Rank(q))
    BY <1>1, <2>2, PlaceOrder
  <2> QED BY <2>3, <1>1
<1>7. \E y \in With(k) : \A q \in With(k) : Rank(q) <= Rank(y)
  BY <1>6
<1>8. PICK n : n = Newest(With(k))
  OBVIOUS
<1>9. n \in With(k) /\ \A q \in With(k) : Rank(q) <= Rank(n)
  BY <1>7, <1>8 DEF Newest
<1>10. ASSUME NEW q \in With(k) PROVE Place(n) <= Place(q)
  <2>1. Rank(q) < Rank(n) \/ Rank(q) = Rank(n)
    BY <1>1, <1>9
  <2>2. CASE Rank(q) < Rank(n)
    <3>1. Place(n) < Place(q)
      BY <2>2, <1>1, <1>9, PlaceOrder
    <3> QED BY <3>1, <1>1, <1>9
  <2>3. CASE Rank(q) = Rank(n)
    <3>1. q = n
      BY <2>3, <1>1, <1>9, LiveFacts
    <3> QED BY <3>1, <1>1, <1>9
  <2> QED BY <2>1, <2>2, <2>3
<1> QED BY <1>8, <1>9, <1>10

(* cache_find gives the newest entry with the key, if the walk gets there. *)
LEMMA Finds ==
  ASSUME Lists, call = Idle, NEW k \in Keys,
         \A p \in With(k) : KeyLen[entry[p].key] <= MaxKeyLen
  PROVE  cache_find(k) = IF With(k) = {} \/ Place(Newest(With(k))) > MaxLoop
                         THEN 0 ELSE Newest(With(k))
<1>1. Ring /\ MaxLoop \in Nat /\ MaxKeyLen \in Nat /\ KeyLen[k] \in Nat
  BY LimitAssumption, KeyAssumption DEF Lists
<1>2. cache_find(k) = IF KeyLen[k] > MaxKeyLen \/ Hits(k) = {}
                      THEN 0
                      ELSE Position(Walk(k)[CHOOSE n \in Hits(k) : \A m \in Hits(k) : n <= m])
  BY DEF cache_find, Hits
<1>3. CASE With(k) = {}
  <2>1. Hits(k) = {}
    BY <1>3, HitsFacts
  <2> QED BY <2>1, <1>2, <1>3
<1>4. CASE With(k) # {}
  <2>1. PICK p \in With(k) : p = Newest(With(k)) /\ \A q \in With(k) : Place(p) <= Place(q)
    BY <1>1, <1>4, NewestFacts
  <2>2. ~(KeyLen[k] > MaxKeyLen) /\ p \in Live
    BY <1>1 DEF With
  <2>3. Place(p) \in Nat
    BY <1>1, <2>2, PlaceFacts
  <2>4. ASSUME NEW n \in Hits(k) PROVE Place(p) <= n /\ n \in 0 .. MaxLoop
    <3>1. PICK q \in With(k) : Place(q) = n
      BY HitsFacts
    <3> QED BY <3>1, <2>1 DEF Hits
  <2>5. CASE Place(p) > MaxLoop
    <3>1. Hits(k) = {}
      BY <2>3, <2>4, <2>5, <1>1
    <3> QED BY <3>1, <2>1, <2>5, <1>2
  <2>6. CASE ~(Place(p) > MaxLoop)
    <3>1. Place(p) \in Hits(k) /\ Walk(k)[Place(p)] = {p}
      BY <2>3, <2>6, <1>1, HitsFacts
    <3>2. PICK n : n = CHOOSE i \in Hits(k) : \A m \in Hits(k) : i <= m
      OBVIOUS
    <3>3. n \in Hits(k) /\ \A m \in Hits(k) : n <= m
      <4>1. \E i \in Hits(k) : \A m \in Hits(k) : i <= m
        BY <3>1, <2>4
      <4> QED BY <4>1, <3>2
    <3>4. n = Place(p)
      BY <3>1, <3>3, <2>3, <2>4, <1>1
    <3>5. Position(Walk(k)[n]) = p
      BY <3>1, <3>4, <1>1, <2>2, EntryWord
    <3> QED BY <3>1, <3>2, <3>5, <2>1, <2>2, <2>6, <1>2, <1>4
  <2> QED BY <2>5, <2>6
<1> QED BY <1>3, <1>4

(* No key is stored that cache_find would turn away for its length, and    *)
(* nothing for longer than MaxTTL.                                         *)
Times == {n + t : n \in Clock, t \in 0 .. MaxTTL}

Admitted ==
  /\ \A p \in DOMAIN entry : KeyLen[entry[p].key] <= MaxKeyLen /\ entry[p].expire \in Times
  /\ call.pc # "idle" => KeyLen[call.key] <= MaxKeyLen /\ call.ttl \in 0 .. MaxTTL

LEMMA AdmittedSame ==
  ASSUME Admitted, DOMAIN entry' = DOMAIN entry,
         \A q \in DOMAIN entry : entry'[q].key = entry[q].key /\ entry'[q].expire = entry[q].expire,
         call'.pc = "idle" \/ (call.pc # "idle" /\ call'.key = call.key /\ call'.ttl = call.ttl)
  PROVE  Admitted'
BY DEF Admitted

LEMMA AdmittedEvictAt ==
  ASSUME Ring, Admitted, NEW old, NEW wr, NEW un, EvictAt(old, wr, un)
  PROVE  Admitted'
<1>1. CASE Fault
  BY <1>1, AdmittedSame DEF Fault, Idle
<1>2. CASE ~Fault
  <2>1. PICK p \in Addressable : p = Position(entry[old].link) /\ old \in DOMAIN entry
    BY <1>2 DEF EvictAt
  <2>2. PICK w : w = Xor(get4(p), {old})
    OBVIOUS
  <2>3. entry' = EntryWith(p, w) /\ call' = call
    BY <1>2, <2>1, <2>2 DEF EvictAt
  <2>4. w \in Link
    <3>1. old \in Pos /\ HSize <= old /\ TypeOK
      BY <2>1 DEF Ring, TypeOK, CallConsistent
    <3>2. {old} \in Link
      BY <3>1, Geometry DEF Link, Pos
    <3> QED BY <2>2, <3>1, <3>2, get4Link, XorLink
  <2>5. /\ DOMAIN entry' = DOMAIN entry
        /\ \A q \in DOMAIN entry : entry'[q].key = entry[q].key /\ entry'[q].expire = entry[q].expire
    BY <2>3, <2>4, SetLink DEF Ring
  <2>6. call'.pc = "idle" \/ (call.pc # "idle" /\ call'.key = call.key /\ call'.ttl = call.ttl)
    BY <2>3
  <2> QED BY <2>5, <2>6, AdmittedSame
<1> QED BY <1>1, <1>2

LEMMA AdmittedNext ==
  ASSUME Ring, Admitted, [Next]_vars
  PROVE  Admitted'
<1>1. ASSUME NEW k \in Keys, NEW d \in Data, NEW t \in TTLs, cache_set(k, d, t)
      PROVE  Admitted'
  <2>1. /\ call'.key = k /\ KeyLen[k] <= MaxKeyLen /\ entry' = entry
        /\ call'.ttl = AtMost(t)
    BY <1>1 DEF cache_set
  <2>2. AtMost(t) \in 0 .. MaxTTL
    BY TimeAssumption DEF AtMost
  <2> QED BY <2>1, <2>2 DEF Admitted
<1>2. CASE GiveUp \/ cache_update
  BY <1>2, AdmittedSame DEF GiveUp, cache_update, Idle
<1>3. CASE Evict \/ Wrap
  BY <1>3, AdmittedEvictAt DEF Evict, Wrap
<1>4. CASE Relink
  <2>1. CASE Fault
    BY <2>1, AdmittedSame DEF Fault, Idle
  <2>2. CASE ~Fault
    <3>1. call.pc = "room" /\ call' = [call EXCEPT !.pc = "store"]
      BY <1>4, <2>2 DEF Relink, At
    <3>2. call'.key = call.key /\ call'.ttl = call.ttl
      BY <3>1, CallMoves DEF Ring
    <3>3. CASE entry' = entry
      BY <3>1, <3>2, <3>3, AdmittedSame
    <3>4. CASE entry' # entry
      <4>1. PICK p \in DOMAIN entry :
              entry' = [entry EXCEPT ![p].link =
                          Xor(Xor(@, Word(KeyHash[call.key])), {writer})]
        BY <1>4, <2>2, <3>4 DEF Relink
      <4>2. entry \in [DOMAIN entry -> Entry]
        BY DEF Ring, TypeOK
      <4>3. /\ DOMAIN entry' = DOMAIN entry
            /\ \A q \in DOMAIN entry : entry'[q].key = entry[q].key /\ entry'[q].expire = entry[q].expire
        BY <4>1, <4>2 DEF Entry
      <4> QED BY <3>1, <3>2, <4>3, AdmittedSame
    <3> QED BY <3>3, <3>4
  <2> QED BY <2>1, <2>2
<1>5. CASE Store
  <2>1. call.pc = "store" /\ call' = [call EXCEPT !.pc = "head"]
    BY <1>5 DEF Store, At
  <2>2. call'.key = call.key /\ call'.ttl = call.ttl
    BY <2>1, CallMoves DEF Ring
  <2>3. PICK e : /\ e.key = call.key /\ e.expire = now + call.ttl
                 /\ entry' = [q \in Surviving(writer, CallLen) \cup {writer} |->
                                IF q = writer THEN e ELSE entry[q]]
    BY <1>5 DEF Store
  <2>4. Surviving(writer, CallLen) \subseteq DOMAIN entry
    BY DEF Surviving
  <2>5. \A q \in DOMAIN entry' : \/ entry'[q].key = call.key /\ entry'[q].expire = now + call.ttl
                                 \/ q \in DOMAIN entry /\ entry'[q] = entry[q]
    BY <2>3, <2>4
  <2>6. now + call.ttl \in Times
    BY <2>1 DEF Ring, TypeOK, Admitted, Times
  <2> QED BY <2>1, <2>2, <2>5, <2>6 DEF Admitted
<1>6. CASE SetHead
  <2>1. call.pc = "head" /\ call' = [call EXCEPT !.pc = "update"] /\ entry' = entry
    BY <1>6 DEF SetHead, At
  <2>2. call'.key = call.key /\ call'.ttl = call.ttl
    BY <2>1, CallMoves DEF Ring
  <2> QED BY <2>1, <2>2, AdmittedSame
<1>7. CASE Restart
  <2>1. call' = Idle /\ (entry' = entry \/ DOMAIN entry' = {})
    BY <1>7 DEF Restart, cache_init, cache_open, Load
  <2> QED BY <2>1 DEF Admitted, Idle
<1>8. CASE Tick \/ UNCHANGED vars
  BY <1>8 DEF Tick, vars, Admitted
<1> QED BY <1>1, <1>2, <1>3, <1>4, <1>5, <1>6, <1>7, <1>8 DEF Next

(* cache_get answers with the data last stored under the key and the time  *)
(* it still has, for every size, all keys and data and every history of    *)
(* calls and restarts, and misses only what was evicted, has expired or    *)
(* lies further down its bucket than cache_find looks.                     *)
THEOREM GetsLatestHolds ==
  ASSUME UseFile => EntriesFit
  PROVE  Spec => []GetsLatest
<1>1. Init => Lists /\ Admitted
  BY ListsInit DEF Init, Admitted, Idle
<1>2. (Lists /\ Admitted) /\ [Next]_vars => (Lists /\ Admitted)'
  BY ListsNext, AdmittedNext DEF Lists
<1>3. Lists /\ Admitted => GetsLatest
  <2>1. SUFFICES ASSUME Lists, Admitted, call = Idle, NEW k \in Keys
                 PROVE  LET p == Newest(With(k))
                        IN  cache_get(k) =
                              IF \/ With(k) = {}
                                 \/ Place(p) > MaxLoop
                                 \/ entry[p].expire < now
                              THEN Miss
                              ELSE [hit |-> TRUE, data |-> entry[p].data,
                                    ttl |-> AtMost(entry[p].expire - now)]
    BY DEF GetsLatest, With, Place
  <2>2. PICK p : p = Newest(With(k))
    OBVIOUS
  <2>3. \A q \in With(k) : KeyLen[entry[q].key] <= MaxKeyLen
    BY <2>1, LiveFacts DEF Lists, With, Admitted
  <2>4. cache_find(k) = IF With(k) = {} \/ Place(p) > MaxLoop THEN 0 ELSE p
    BY <2>1, <2>2, <2>3, Finds
  <2>5. ASSUME With(k) # {} PROVE p # 0
    <3>1. p \in Live
      BY <2>1, <2>2, <2>5, NewestFacts DEF Lists, With
    <3> QED BY <3>1, <2>1, EntryWord DEF Lists
  <2>6. CASE With(k) = {} \/ Place(p) > MaxLoop
    BY <2>2, <2>4, <2>6 DEF cache_get
  <2>7. CASE ~(With(k) = {} \/ Place(p) > MaxLoop)
    BY <2>2, <2>4, <2>5, <2>7 DEF cache_get
  <2> QED BY <2>6, <2>7
<1> QED BY <1>1, <1>2, <1>3, PTL DEF Spec

-----------------------------------------------------------------------------
(* The log.                                                                *)

LEMMA BeforeFacts ==
  ASSUME Ring
  PROVE  /\ IsFiniteSet(Live) /\ Cardinality(Live) \in Nat
         /\ \A p \in Live : /\ IsFiniteSet(Before(p)) /\ Cardinality(Before(p)) \in Nat
                            /\ Cardinality(Before(p)) < Cardinality(Live)
<1>1. IsFiniteSet(0 .. Size)
  BY Geometry, FS_Interval
<1>2. Live \in SUBSET (0 .. Size)
  BY LiveFacts, Geometry
<1>3. IsFiniteSet(Live) /\ Cardinality(Live) \in Nat
  BY <1>1, <1>2, FS_Subset, FS_CardinalityType
<1>4. ASSUME NEW p \in Live
      PROVE  /\ IsFiniteSet(Before(p)) /\ Cardinality(Before(p)) \in Nat
             /\ Cardinality(Before(p)) < Cardinality(Live)
  <2>1. Before(p) \in SUBSET Live
    BY DEF Before
  <2>2. /\ IsFiniteSet(Before(p)) /\ Cardinality(Before(p)) <= Cardinality(Live)
        /\ Cardinality(Live) = Cardinality(Before(p)) => Live = Before(p)
    BY <1>3, <2>1, FS_Subset
  <2>3. Cardinality(Before(p)) \in Nat
    BY <2>2, FS_CardinalityType
  <2>4. p \notin Before(p)
    BY LiveFacts DEF Before
  <2> QED BY <1>3, <2>2, <2>3, <2>4
<1> QED BY <1>3, <1>4

LEMMA BeforeOrder ==
  ASSUME Ring, NEW p \in Live, NEW q \in Live, Rank(p) < Rank(q)
  PROVE  Cardinality(Before(p)) < Cardinality(Before(q))
<1>1. \A r \in Live : Rank(r) \in Nat
  BY LiveFacts
<1>2. Before(p) \in SUBSET Before(q)
  BY <1>1 DEF Before
<1>3. p \in Before(q) /\ p \notin Before(p)
  BY <1>1 DEF Before
<1>4. /\ IsFiniteSet(Before(q)) /\ Cardinality(Before(q)) \in Nat
      /\ Cardinality(Before(p)) \in Nat
  BY BeforeFacts
<1>5. /\ Cardinality(Before(p)) <= Cardinality(Before(q))
      /\ Cardinality(Before(q)) = Cardinality(Before(p)) => Before(q) = Before(p)
  BY <1>2, <1>4, FS_Subset
<1> QED BY <1>3, <1>4, <1>5

(* The entry stored first among the later ones has just these before it.   *)
LEMMA FirstOf ==
  ASSUME Ring, NEW S, S \subseteq Live, S # {}
  PROVE  \E p \in S : \A q \in S : Rank(p) <= Rank(q)
<1>1. \A r \in Live : Rank(r) \in Nat
  BY LiveFacts
<1>2. PICK T : T = {Rank(p) : p \in S}
  OBVIOUS
<1>3. T \subseteq Nat /\ T # {}
  BY <1>1, <1>2
<1>4. PICK x \in T : \A y \in T : x <= y
  BY <1>3, LeastOf
<1> QED BY <1>2, <1>4

LEMMA NthExists ==
  ASSUME Ring
  PROVE  \A i \in 1 .. Cardinality(Live) : \E p \in Live : Cardinality(Before(p)) = i - 1
<1> DEFINE N == Cardinality(Live)
           Bad == {i \in 1 .. N : ~\E p \in Live : Cardinality(Before(p)) = i - 1}
<1>1. N \in Nat /\ IsFiniteSet(Live)
  BY BeforeFacts
<1>2. \A r \in Live : Rank(r) \in Nat
  BY LiveFacts
<1>3. ASSUME Bad # {} PROVE FALSE
  <2>1. Bad \subseteq Nat
    BY <1>1
  <2>2. PICK m \in Bad : \A y \in Bad : m <= y
    <3> HIDE DEF Bad
    <3> QED BY <2>1, <1>3, LeastOf
  <2>3. m \in 1 .. N /\ \A p \in Live : Cardinality(Before(p)) # m - 1
    BY <2>2
  <2>4. ASSUME NEW p \in Live PROVE ~(\A q \in Live : Rank(p) <= Rank(q)) \/ m # 1
    <3>1. ASSUME \A q \in Live : Rank(p) <= Rank(q) PROVE Before(p) = {}
      BY <1>2, <3>1 DEF Before
    <3>2. Before(p) = {} => Cardinality(Before(p)) = 0
      BY FS_EmptySet
    <3> QED BY <3>1, <3>2, <2>3
  <2>5. Live # {}
    BY <2>3, <1>1, FS_EmptySet
  <2>6. m # 1
    BY <2>4, <2>5, FirstOf
  <2>7. m - 1 \in 1 .. N /\ m - 1 \notin Bad
    BY <2>2, <2>3, <2>6, <1>1
  <2>8. PICK p \in Live : Cardinality(Before(p)) = m - 1 - 1
    BY <2>7
  <2>9. PICK S : S = {q \in Live : Rank(p) < Rank(q)}
    OBVIOUS
  <2>10. p \notin Before(p) /\ IsFiniteSet(Before(p))
    BY <1>2, BeforeFacts DEF Before
  <2>11. Cardinality(Before(p) \cup {p}) = m - 1
    BY <2>3, <2>8, <2>10, FS_AddElement
  <2>12. S # {}
    <3>1. SUFFICES ASSUME S = {} PROVE FALSE
      OBVIOUS
    <3>2. ASSUME NEW q \in Live PROVE q \in Before(p) \cup {p}
      <4>1. ~(Rank(p) < Rank(q)) /\ (Rank(p) = Rank(q) => p = q)
        BY <3>1, <2>9, LiveFacts
      <4> QED BY <4>1, <1>2 DEF Before
    <3>3. Live = Before(p) \cup {p}
      BY <3>2 DEF Before
    <3> QED BY <3>3, <2>3, <2>11, <1>1
  <2>13. PICK q \in S : \A r \in S : Rank(q) <= Rank(r)
    <3>1. S \subseteq Live
      BY <2>9
    <3> QED BY <3>1, <2>12, FirstOf
  <2>14. q \in Live /\ Rank(p) < Rank(q)
    BY <2>9
  <2>15. Before(q) = Before(p) \cup {p}
    <3>1. ASSUME NEW r \in Before(q) PROVE r \in Before(p) \cup {p}
      <4>1. r \in Live /\ Rank(r) < Rank(q) /\ Rank(r) \in Nat
        BY <1>2 DEF Before
      <4>2. r \notin S
        BY <4>1, <2>13, <2>14, <1>2
      <4>3. ~(Rank(p) < Rank(r)) /\ (Rank(p) = Rank(r) => p = r)
        BY <4>1, <4>2, <2>9, LiveFacts
      <4> QED BY <4>1, <4>3, <1>2 DEF Before
    <3>2. ASSUME NEW r \in Before(p) PROVE r \in Before(q)
      <4>1. r \in Live /\ Rank(r) < Rank(p) /\ Rank(r) \in Nat
        BY <1>2 DEF Before
      <4> QED BY <4>1, <2>14, <1>2 DEF Before
    <3>3. p \in Before(q)
      BY <2>14 DEF Before
    <3> QED BY <3>1, <3>2, <3>3
  <2> QED BY <2>3, <2>11, <2>14, <2>15
<1> QED BY <1>3

(* The i-th entry is there, and there is only one.                         *)
LEMMA NthFacts ==
  ASSUME Ring, NEW i \in 1 .. Cardinality(Live)
  PROVE  /\ Nth(i) \in Live /\ Cardinality(Before(Nth(i))) = i - 1
         /\ \A p \in Live : Cardinality(Before(p)) = i - 1 => p = Nth(i)
<1>1. Nth(i) \in Live /\ Cardinality(Before(Nth(i))) = i - 1
  BY NthExists DEF Nth
<1>2. ASSUME NEW p \in Live, Cardinality(Before(p)) = i - 1 PROVE p = Nth(i)
  <2>1. PICK q \in Live : q = Nth(i) /\ Cardinality(Before(q)) = i - 1
    BY <1>1
  <2>2. Cardinality(Before(p)) \in Nat /\ Cardinality(Before(q)) \in Nat
    BY BeforeFacts
  <2>3. ~(Rank(p) < Rank(q)) /\ ~(Rank(q) < Rank(p))
    BY <1>2, <2>1, <2>2, BeforeOrder
  <2>4. Rank(p) \in Nat /\ Rank(q) \in Nat /\ (Rank(p) = Rank(q) => p = q)
    BY LiveFacts
  <2> QED BY <2>1, <2>3, <2>4
<1> QED BY <1>1, <1>2

(* What a step leaves alone of an entry.                                   *)
Kept(q) == /\ entry'[q].key = entry[q].key
           /\ entry'[q].data = entry[q].data
           /\ entry'[q].expire = entry[q].expire

LEMMA LogSame ==
  ASSUME Ring, Live' = Live,
         \A q, r \in Live : (Rank(q)' < Rank(r)') = (Rank(q) < Rank(r)),
         \A q \in Live : Kept(q)
  PROVE  LogOf' = LogOf
<1>1. \A p \in Live : Before(p)' = Before(p)
  BY DEF Before
<1>2. \A i : Nth(i)' = CHOOSE p \in Live : Cardinality(Before(p)') = i - 1
  BY DEF Nth
<1>3. ASSUME NEW i \in 1 .. Cardinality(Live) PROVE ItemAt(Nth(i))' = ItemAt(Nth(i))
  <2>1. PICK p \in Live : p = Nth(i) /\ Cardinality(Before(p)) = i - 1
    BY NthFacts
  <2>2. Cardinality(Before(p)') = i - 1 /\ p \in Live
    BY <2>1, <1>1
  <2>3. PICK q : q = Nth(i)'
    OBVIOUS
  <2>4. q \in Live /\ Cardinality(Before(q)') = i - 1
    BY <2>2, <2>3, <1>2
  <2>5. q = p
    BY <2>1, <2>4, <1>1, NthFacts
  <2>6. ItemAt(Nth(i))' = [key |-> entry'[q].key, data |-> entry'[q].data,
                           expire |-> entry'[q].expire]
    BY <2>3 DEF ItemAt
  <2> QED BY <2>1, <2>5, <2>6 DEF ItemAt, Kept
<1>4. LogOf' = [i \in 1 .. Cardinality(Live) |-> ItemAt(Nth(i))']
  BY DEF LogOf
<1> QED BY <1>3, <1>4 DEF LogOf

(* Sequences given by their elements.                                      *)
LEMMA TailOf ==
  ASSUME NEW s, NEW n \in Nat, n # 0, s = [i \in 1 .. n |-> s[i]],
         NEW t, t = [i \in 1 .. n - 1 |-> s[i + 1]]
  PROVE  t = Tail(s) /\ s # << >>
<1>1. PICK S : S = {s[i] : i \in 1 .. n}
  OBVIOUS
<1>2. s \in [1 .. n -> S]
  BY <1>1
<1>3. s \in Seq(S) /\ Len(s) = n
  BY <1>2
<1>4. s # << >>
  BY <1>3
<1> QED BY <1>3, <1>4

LEMMA AppendOf ==
  ASSUME NEW s, NEW n \in Nat, s = [i \in 1 .. n |-> s[i]], NEW e,
         NEW t, t = [i \in 1 .. n + 1 |-> IF i = n + 1 THEN e ELSE s[i]]
  PROVE  t = Append(s, e)
<1>1. PICK S : S = {s[i] : i \in 1 .. n} \cup {e}
  OBVIOUS
<1>2. s \in [1 .. n -> S] /\ e \in S
  BY <1>1
<1>3. s \in Seq(S) /\ Len(s) = n
  BY <1>2
<1> QED BY <1>2, <1>3

LEMMA LogEmpty == ASSUME Live = {} PROVE LogOf = << >>
<1>1. Cardinality(Live) = 0
  BY FS_EmptySet
<1>2. LogOf = [i \in 1 .. 0 |-> ItemAt(Nth(i))]
  BY <1>1 DEF LogOf
<1> QED BY <1>2

LEMMA LogDrop ==
  ASSUME Ring, NEW old, Drops(old)
  PROVE  LogOf' = Tail(LogOf) /\ LogOf # << >>
<1>1. /\ old \in Live /\ Live' = Live \ {old}
      /\ \A q \in Live : Rank(old) <= Rank(q)
      /\ \A q, r \in Live : (Rank(q)' < Rank(r)') = (Rank(q) < Rank(r))
      /\ \A q \in Live : Kept(q)
  BY DEF Drops, Kept
<1>2. \A r \in Live : Rank(r) \in Nat
  BY LiveFacts
<1>3. PICK n \in Nat : n = Cardinality(Live) /\ n # 0 /\ Cardinality(Live') = n - 1
  BY <1>1, BeforeFacts, FS_RemoveElement, FS_EmptySet
<1>4. Before(old) = {}
  BY <1>1, <1>2 DEF Before
<1>5. ASSUME NEW p \in Live, p # old
      PROVE  /\ Cardinality(Before(p)) \in Nat
             /\ Cardinality(Before(p)') = Cardinality(Before(p)) - 1
  <2>1. Rank(old) < Rank(p)
    BY <1>1, <1>2, <1>5, LiveFacts
  <2>2. old \in Before(p)
    BY <1>1, <2>1 DEF Before
  <2>3. Before(p)' = Before(p) \ {old}
    BY <1>1 DEF Before
  <2> QED BY <2>2, <2>3, BeforeFacts, FS_RemoveElement
<1>6. \A i : Nth(i)' = CHOOSE p \in Live \ {old} : Cardinality(Before(p)') = i - 1
  BY <1>1 DEF Nth
<1>7. ASSUME NEW i \in 1 .. n - 1 PROVE ItemAt(Nth(i))' = LogOf[i + 1]
  <2>1. i + 1 \in 1 .. n /\ i + 1 - 1 = i /\ i # 0
    BY <1>3
  <2>2. PICK p \in Live : p = Nth(i + 1) /\ Cardinality(Before(p)) = i
    BY <1>3, <2>1, NthFacts
  <2>3. p # old
    BY <1>4, <2>1, <2>2, FS_EmptySet
  <2>4. p \in Live \ {old} /\ Cardinality(Before(p)') = i - 1
    BY <1>5, <2>2, <2>3
  <2>5. PICK q : q = Nth(i)'
    OBVIOUS
  <2>6. q \in Live \ {old} /\ Cardinality(Before(q)') = i - 1
    BY <1>6, <2>4, <2>5
  <2>7. Cardinality(Before(q)) = i
    BY <1>5, <2>1, <2>6
  <2>8. q = p
    BY <1>3, <2>1, <2>2, <2>6, <2>7, NthFacts
  <2>9. ItemAt(Nth(i))' = [key |-> entry'[q].key, data |-> entry'[q].data,
                           expire |-> entry'[q].expire]
    BY <2>5 DEF ItemAt
  <2>10. ItemAt(Nth(i))' = ItemAt(p)
    BY <1>1, <2>8, <2>9 DEF ItemAt, Kept
  <2> QED BY <1>3, <2>1, <2>2, <2>10 DEF LogOf
<1>8. LogOf' = [i \in 1 .. n - 1 |-> ItemAt(Nth(i))']
  BY <1>3 DEF LogOf
<1>9. LogOf' = [i \in 1 .. n - 1 |-> LogOf[i + 1]]
  BY <1>7, <1>8
<1>10. LogOf = [i \in 1 .. n |-> LogOf[i]]
  BY <1>3 DEF LogOf
<1> QED BY <1>3, <1>9, <1>10, TailOf

LEMMA LogPut ==
  ASSUME Ring, NEW new, new \notin Live, Live' = Live \cup {new},
         \A q \in Live : Rank(q)' < Rank(new)' /\ ~(Rank(new)' < Rank(q)'),
         ~(Rank(new)' < Rank(new)'),
         \A q, r \in Live : (Rank(q)' < Rank(r)') = (Rank(q) < Rank(r)),
         \A q \in Live : Kept(q)
  PROVE  LogOf' = Append(LogOf, ItemAt(new)')
<1>1. PICK n \in Nat : n = Cardinality(Live) /\ Cardinality(Live') = n + 1 /\ IsFiniteSet(Live)
  BY BeforeFacts, FS_AddElement
<1>2. \A p \in Live : Before(p)' = Before(p)
  BY DEF Before
<1>3. Before(new)' = Live
  BY DEF Before
<1>4. \A i : Nth(i)' = CHOOSE p \in Live \cup {new} : Cardinality(Before(p)') = i - 1
  BY DEF Nth
<1>5. PICK e : e = ItemAt(new)'
  OBVIOUS
<1>6. ASSUME NEW i \in 1 .. n PROVE ItemAt(Nth(i))' = LogOf[i]
  <2>1. PICK p \in Live : p = Nth(i) /\ Cardinality(Before(p)) = i - 1
    BY <1>1, NthFacts
  <2>2. p \in Live \cup {new} /\ Cardinality(Before(p)') = i - 1
    BY <1>2, <2>1
  <2>3. PICK q : q = Nth(i)'
    OBVIOUS
  <2>4. q \in Live \cup {new} /\ Cardinality(Before(q)') = i - 1
    BY <1>4, <2>2, <2>3
  <2>5. q # new
    BY <1>1, <1>3, <2>4
  <2>6. q = p
    BY <1>1, <1>2, <2>1, <2>4, <2>5, NthFacts
  <2>7. ItemAt(Nth(i))' = [key |-> entry'[q].key, data |-> entry'[q].data,
                           expire |-> entry'[q].expire]
    BY <2>3 DEF ItemAt
  <2>8. ItemAt(Nth(i))' = ItemAt(p)
    BY <2>6, <2>7 DEF ItemAt, Kept
  <2> QED BY <1>1, <2>1, <2>8 DEF LogOf
<1>7. ItemAt(Nth(n + 1))' = e
  <2>1. Cardinality(Before(new)') = n + 1 - 1
    BY <1>1, <1>3
  <2>2. PICK q : q = Nth(n + 1)'
    OBVIOUS
  <2>3. q \in Live \cup {new} /\ Cardinality(Before(q)') = n + 1 - 1
    BY <1>4, <2>1, <2>2
  <2>4. q = new
    BY <1>1, <1>2, <2>3, BeforeFacts
  <2> QED BY <2>2, <2>4, <1>5 DEF ItemAt
<1>8. LogOf' = [i \in 1 .. n + 1 |-> ItemAt(Nth(i))']
  BY <1>1 DEF LogOf
<1>9. LogOf' = [i \in 1 .. n + 1 |-> IF i = n + 1 THEN e ELSE LogOf[i]]
  <2>1. ASSUME NEW i \in 1 .. n + 1
        PROVE  ItemAt(Nth(i))' = IF i = n + 1 THEN e ELSE LogOf[i]
    <3>1. CASE i = n + 1
      BY <3>1, <1>7
    <3>2. CASE i # n + 1
      <4>1. i \in 1 .. n
        BY <3>2
      <4> QED BY <4>1, <3>2, <1>6
    <3> QED BY <3>1, <3>2
  <2> QED BY <2>1, <1>8
<1>10. LogOf = [i \in 1 .. n |-> LogOf[i]]
  BY <1>1 DEF LogOf
<1> QED BY <1>5, <1>9, <1>10, AppendOf

(* A call that has stored nothing yet.                                     *)
Pending == call.pc \in {"room", "store", "head"}

(* Every step of the cache is a step of the log, or none.                  *)
LEMMA LogStep ==
  ASSUME UseFile => EntriesFit, Lists, Admitted, [Next]_vars
  PROVE  \/ ~Pending /\ Pending' /\ LogOf' = LogOf
         \/ Pending /\ LogOf # << >> /\ LogOf' = Tail(LogOf) /\ Pending' = Pending
         \/ \E e \in [key : Keys, data : Data, expire : Times] :
              Pending /\ LogOf' = Append(LogOf, e) /\ ~Pending'
         \/ Pending /\ LogOf = << >> /\ ~Pending' /\ LogOf' = LogOf
         \/ ~UseFile /\ ~Pending /\ LogOf' = << >> /\ Pending' = Pending
         \/ LogOf' = LogOf /\ Pending' = Pending
<1>1. Ring /\ status = "ok" /\ Lists'
  BY ListsNext DEF Lists, NoFault
<1>2. ASSUME UNCHANGED <<entry, writer, oldest, unused>> PROVE LogOf' = LogOf
  <2>1. Live' = Live /\ \A q \in Live : Kept(q) /\ Rank(q)' = Rank(q)
    BY <1>2 DEF Live, NewLive, OldLive, Kept, Rank
  <2> QED BY <2>1, <1>1, LogSame
<1>3. ASSUME NEW k \in Keys, NEW d \in Data, NEW t \in TTLs, cache_set(k, d, t)
      PROVE  ~Pending /\ Pending' /\ LogOf' = LogOf
  BY <1>2, <1>3 DEF cache_set, Pending, Idle
<1>4. CASE GiveUp
  <2>1. Pending /\ ~Pending'
    BY <1>4 DEF GiveUp, At, Pending, Idle
  <2>2. Live = {}
    <3>1. writer = HSize /\ oldest = unused
      BY <1>1, <1>4, Geometry DEF GiveUp, Ring, Layout, TypeOK
    <3>2. NewLive = {}
      BY <3>1, <1>1, Geometry DEF NewLive, Ring, CallConsistent, TypeOK, Pos
    <3>3. OldLive = {}
      BY <3>1, <1>1, Geometry DEF OldLive, Ring, TypeOK, Pos
    <3> QED BY <3>2, <3>3 DEF Live
  <2>3. LogOf' = LogOf
    BY <1>2, <1>4 DEF GiveUp
  <2> QED BY <2>1, <2>2, <2>3, LogEmpty
<1>5. CASE Evict \/ Wrap
  <2>1. PICK old : Drops(old)
    BY <1>5, ListsEvict, ListsWrap
  <2>2. Pending /\ Pending' = Pending
    BY <1>5, <2>1 DEF Evict, Wrap, At, Pending, Drops
  <2> QED BY <2>1, <2>2, <1>1, LogDrop
<1>6. CASE Relink
  <2>1. ~Fault
    BY <1>1 DEF Fault, Lists, NoFault
  <2>2. /\ call.pc = "room" /\ call' = [call EXCEPT !.pc = "store"]
        /\ UNCHANGED <<writer, oldest, unused>>
    BY <1>6, <2>1 DEF Relink, At
  <2>3. call'.pc = "store"
    BY <1>1, <2>2, CallMoves DEF Ring
  <2>4. CASE entry' = entry
    BY <2>2, <2>3, <2>4, <1>2 DEF Pending
  <2>5. CASE entry' # entry
    <3>1. PICK p \in DOMAIN entry :
            entry' = [entry EXCEPT ![p].link =
                        Xor(Xor(@, Word(KeyHash[call.key])), {writer})]
      BY <1>6, <2>1, <2>5 DEF Relink
    <3>2. entry \in [DOMAIN entry -> Entry]
      BY <1>1 DEF Ring, TypeOK
    <3>3. DOMAIN entry' = DOMAIN entry /\ \A q \in DOMAIN entry : Kept(q)
      BY <3>1, <3>2 DEF Entry, Kept
    <3>4. Live' = Live /\ \A q \in Live : Kept(q) /\ Rank(q)' = Rank(q)
      BY <2>2, <3>3 DEF Live, NewLive, OldLive, Rank
    <3> QED BY <2>2, <2>3, <3>4, <1>1, LogSame DEF Pending
  <2> QED BY <2>4, <2>5
<1>7. CASE Store
  <2>1. /\ UNCHANGED writer /\ Live' = Live
        /\ \A q \in Live : entry'[q] = entry[q]
        /\ call.pc = "store" /\ call'.pc = "head"
    BY <1>1, <1>7, StoreFacts DEF Live, NewLive, OldLive
  <2>2. \A q \in Live : Kept(q) /\ Rank(q)' = Rank(q)
    BY <2>1 DEF Kept, Rank
  <2> QED BY <2>1, <2>2, <1>1, LogSame DEF Pending
<1>8. CASE SetHead
  <2>1. /\ call.pc = "head" /\ call'.pc = "update" /\ UNCHANGED <<entry, oldest>>
        /\ writer' = writer + CallLen /\ CallLen \in Nat /\ CallLen >= 20
        /\ writer \in DOMAIN entry /\ writer + CallLen <= oldest
        /\ Live' = Live \cup {writer}
    BY <1>1, <1>8, SetHeadFacts DEF Live
  <2>2. /\ writer \in Nat /\ oldest \in Nat /\ writer <= oldest /\ Size \in Nat
        /\ \A q \in Live : q \in Nat /\ q < Size /\ (q < writer \/ oldest <= q)
    BY <1>1, LiveFacts, Geometry
  <2>3. writer \notin Live
    BY <2>1, <2>2
  <2>4. \A q \in Live : Rank(q)' = Rank(q)
    BY <2>1, <2>2 DEF Rank
  <2>6. \A q \in Live : Rank(q) \in Nat /\ Rank(q) < writer + Size
    BY <2>2 DEF Rank
  <2>7. /\ \A q, r \in Live : (Rank(q)' < Rank(r)') = (Rank(q) < Rank(r))
        /\ \A q \in Live : Kept(q)
    BY <2>1, <2>4 DEF Kept
  <2>8. PICK w : w = writer
    OBVIOUS
  <2>9. LogOf' = Append(LogOf, ItemAt(w)')
    <3>1. /\ \A q \in Live : Rank(q)' < Rank(w)' /\ ~(Rank(w)' < Rank(q)')
          /\ ~(Rank(w)' < Rank(w)')
      BY <2>1, <2>2, <2>4, <2>6, <2>8 DEF Rank
    <3> QED BY <3>1, <2>1, <2>3, <2>7, <2>8, <1>1, LogPut
  <2>10. ItemAt(w)' \in [key : Keys, data : Data, expire : Times]
    <3>1. entry[w] \in Entry /\ entry[w].expire \in Times
      BY <2>1, <2>8, <1>1 DEF Ring, TypeOK, Admitted
    <3>2. ItemAt(w)' = [key |-> entry[w].key, data |-> entry[w].data,
                        expire |-> entry[w].expire]
      BY <2>1 DEF ItemAt
    <3> QED BY <3>1, <3>2 DEF Entry
  <2> QED BY <2>1, <2>9, <2>10 DEF Pending
<1>9. CASE cache_update
  BY <1>2, <1>9 DEF cache_update, At, Pending, Idle
<1>10. CASE Restart /\ UseFile
  <2>1. header = <<writer, oldest, unused>> /\ cache_open /\ call = Idle
    BY <1>1, <1>10 DEF Restart, HeaderCurrent, cache_init, Ring
  <2>2. /\ UNCHANGED <<entry, writer, oldest, unused>> /\ call' = Idle
    BY <2>1 DEF cache_open, Load
  <2> QED BY <2>1, <2>2, <1>2 DEF Pending, Idle
<1>11. CASE Restart /\ ~UseFile
  <2>1. DOMAIN entry' = {} /\ call' = Idle /\ call = Idle
    BY <1>11 DEF Restart, cache_open, cache_init, Load
  <2>2. Live' = {}
    BY <2>1 DEF Live, NewLive, OldLive
  <2>3. LogOf' = << >>
    <3>1. Cardinality(Live') = 0
      BY <2>2, FS_EmptySet
    <3>2. LogOf' = [i \in 1 .. 0 |-> ItemAt(Nth(i))']
      BY <3>1 DEF LogOf
    <3> QED BY <3>2
  <2> QED BY <1>11, <2>1, <2>3 DEF Pending, Idle
<1>12. CASE Tick \/ UNCHANGED vars
  BY <1>2, <1>12 DEF Tick, vars, Pending
<1> QED BY <1>3, <1>4, <1>5, <1>6, <1>7, <1>8, <1>9, <1>10, <1>11, <1>12 DEF Next

(* The ring implements the log, for every size, all keys and data: a       *)
(* cache_set appends one entry, drops only from the other end and only     *)
(* while it makes room for its own, and gives up only with nothing left;   *)
(* a restart on a file loses nothing.                                      *)
THEOREM RefinesLogHolds ==
  ASSUME UseFile => EntriesFit
  PROVE  Spec => RefinesLog
<1>1. Init => Lists /\ Admitted
  BY ListsInit DEF Init, Admitted, Idle
<1>2. (Lists /\ Admitted) /\ [Next]_vars => (Lists /\ Admitted)'
  BY ListsNext, AdmittedNext DEF Lists
<1>3. Init => L!LogInit
  <2>1. SUFFICES ASSUME Init PROVE LogOf = << >> /\ ~Pending
    BY DEF L!LogInit, Pending
  <2>2. Live = {}
    BY <2>1 DEF Init, Live, NewLive, OldLive
  <2> QED BY <2>1, <2>2, LogEmpty DEF Init, Pending, Idle
<1>4. (Lists /\ Admitted) /\ [Next]_vars => [L!LogNext]_(L!logVars)
  <2>1. SUFFICES ASSUME Lists, Admitted, [Next]_vars PROVE [L!LogNext]_(L!logVars)
    OBVIOUS
  <2> QED BY <2>1, LogStep DEF L!LogNext, L!logVars, L!Request, L!Drop, L!Put,
                               L!Refuse, L!Lose, Pending, Times
<1> QED BY <1>1, <1>2, <1>3, <1>4, PTL DEF Spec, RefinesLog, L!LogSpec
=============================================================================
