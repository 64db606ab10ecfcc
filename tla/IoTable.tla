------------------------------ MODULE IoTable ------------------------------
(***************************************************************************)
(* The functions of lib/io on the table of descriptors, in the build whose *)
(* io_waituntil2 uses poll: what each of them makes of the state           *)
(*                                                                         *)
(*   s = [ent, first, wanted, len, mapped]                                 *)
(*                                                                         *)
(* ent[d] is the io_entry of descriptor d.  Its bits are members of sets:  *)
(* inuse and nonblock of flags; those that exist once for reading and once *)
(* for writing are directions, so that wantread is "r" \in want and        *)
(* kernelwantwrite is "w" \in kern.  next_read and next_write              *)
(* link the entries to two queues that start in first_readable             *)
(* and first_writeable: first["r"] and first["w"].  wanted is              *)
(* io_wanted_fds and len the length of the table, the iarray of IArray.    *)
(* mapped has the descriptors whose entry is on a page of it; for any      *)
(* other iarray_get returns NULL, and the functions do nothing.            *)
(*                                                                         *)
(* They are operators and not actions since a program calls several of     *)
(* them in one step: IoLoop has a step for each call of any program, and   *)
(* TinyProxy the steps of one.                                             *)
(***************************************************************************)
EXTENDS Integers, FiniteSets, FiniteSetsExt

CONSTANTS
  Fds,         \* the numbers of descriptors
  Wrap,        \* io_wanted_fds is counted modulo Wrap, 2^64 in the code
  Fanout,      \* how many lists of pages the table has
  PerPage      \* how many entries a page has

ASSUME IoTableAssumption ==
  /\ Fds \subseteq Nat /\ IsFiniteSet(Fds)
  /\ Wrap \in Nat /\ Cardinality(Fds) < Wrap
  /\ {Fanout, PerPage} \subseteq Nat \ {0}

Dirs == {"r", "w"}
Other(dir) == IF dir = "r" THEN "w" ELSE "r"

\* The end of a queue.
None == -1

\* An entry that no queue leads on from, and queues without entries.
NoNext == [dir \in Dirs |-> None]

\* An entry of a new page.
Zero == [flags |-> {}, want |-> {}, can |-> {}, kern |-> {},
         next |-> [dir \in Dirs |-> 0]]

\* Before the first io_fd.
NoEntries == [ent |-> [d \in Fds |-> Zero], first |-> NoNext,
              wanted |-> 0, len |-> 0, mapped |-> {}]

EntryType ==
  [flags : SUBSET {"inuse", "nonblock"}, want : SUBSET Dirs, can : SUBSET Dirs,
   kern : SUBSET Dirs, next : [Dirs -> Fds \cup {None, 0}]]

TableType ==
  [ent : [Fds -> EntryType],
   first : [Dirs -> Fds \cup {None, 0}], wanted : 0 .. Wrap - 1, len : Nat,
   mapped : SUBSET Fds]

\* The descriptors whose entries are on the pages up to that of d in its list,
\* all of which iarray_allocate maps.  It is taken not to fail.
Allocated(d) ==
  {x \in Fds : /\ x % Fanout = d % Fanout
               /\ (x \div Fanout) \div PerPage <= (d \div Fanout) \div PerPage}

Flags(nonblock) == IF nonblock THEN {"inuse", "nonblock"} ELSE {"inuse"}

\* Mutant: the entry keeps what it was told of its last descriptor.
io_fd_internal_Kept(s, d, nonblock) ==
  [s EXCEPT !.len = d + 1, !.mapped = @ \cup Allocated(d),
            !.ent[d].flags = Flags(nonblock),
            !.ent[d].next = NoNext,
            !.first = IF "inuse" \in s.ent[d].flags THEN @ ELSE NoNext]

\* iarray_allocate sets the length to that of the position, also when it was
\* longer.  io_waitmode stays UNDECIDED in this build, so that every new entry
\* empties both queues.
io_fd_internal(s, d, nonblock) ==
  LET t == [s EXCEPT !.len = d + 1, !.mapped = @ \cup Allocated(d)]
  IN  IF "inuse" \in s.ent[d].flags THEN t
      ELSE [t EXCEPT !.ent[d] = [Zero EXCEPT !.flags = Flags(nonblock), !.next = NoNext],
                     !.first = NoNext]

io_fd_canwrite(s, d, nonblock) ==
  [io_fd_internal(s, d, nonblock) EXCEPT !.ent[d].can = @ \cup {"w"}]

io_nonblock(s, d) ==
  IF d \notin s.mapped THEN s ELSE [s EXCEPT !.ent[d].flags = @ \cup {"nonblock"}]

-----------------------------------------------------------------------------
(* Interest in a descriptor.  The functions that can only take something   *)
(* from an entry (io_dontwantread, io_eagain and the like) need no case    *)
(* for an entry that is not mapped: ent has it as Zero.                    *)

Push(s, dir, d) ==
  [s EXCEPT !.ent[d].next[dir] = s.first[dir], !.first[dir] = d]

\* Mutant: a descriptor that the kernel watches already is counted again.
want_really_Again(s, dir, d) ==
  [s EXCEPT !.wanted = (@ + 1) % Wrap,
            !.ent[d].want = @ \cup {dir}, !.ent[d].kern = @ \cup {dir}]

\* io_wantread_really, io_wantwrite_really
want_really(s, dir, d) ==
  [s EXCEPT !.wanted = IF Other(dir) \in s.ent[d].kern THEN @ ELSE (@ + 1) % Wrap,
            !.ent[d].want = @ \cup {dir}, !.ent[d].kern = @ \cup {dir}]

\* Mutant: the interest is noted, and the kernel's part forgotten.
Want_Noted(s, dir, d) ==
  LET t == [s EXCEPT !.ent[d].want = @ \cup {dir}, !.wanted = (@ + 1) % Wrap]
  IN  IF dir \in s.ent[d].can THEN Push(t, dir, d) ELSE t

\* A descriptor that is ready is put in its queue at once.
Want(s, dir, d) ==
  LET t == [s EXCEPT !.ent[d].want = @ \cup {dir}]
  IN  CASE dir \in s.ent[d].can -> Push(t, dir, d)
        [] dir \in s.ent[d].kern \ s.ent[d].can -> t
        [] OTHER -> want_really(s, dir, d)

io_wantread(s, d) ==
  IF d \notin s.mapped \/ "r" \in s.ent[d].want THEN s ELSE Want(s, "r", d)

io_wantwrite(s, d) ==
  IF d \notin s.mapped \/ "w" \in s.ent[d].want \cap s.ent[d].kern THEN s ELSE Want(s, "w", d)

\* Mutant: a descriptor that is still watched for the other is counted off.
dontwant_really_Twice(s, dir, d) ==
  [s EXCEPT !.wanted = (@ - 1) % Wrap,
            !.ent[d].want = @ \ {dir}, !.ent[d].kern = @ \ {dir}]

\* io_dontwantread_really, io_dontwantwrite_really; they assert that the
\* kernel watches the descriptor.
dontwant_really(s, dir, d) ==
  [s EXCEPT !.wanted = IF Other(dir) \in s.ent[d].kern THEN @ ELSE (@ - 1) % Wrap,
            !.ent[d].want = @ \ {dir}, !.ent[d].kern = @ \ {dir}]

DontWant(s, dir, d) ==
  IF dir \in s.ent[d].can THEN dontwant_really(s, dir, d)
                          ELSE [s EXCEPT !.ent[d].want = @ \ {dir}]

io_dontwantread(s, d) == DontWant(s, "r", d)
io_dontwantwrite(s, d) == DontWant(s, "w", d)

io_onlywantread(s, d) == io_wantread(io_dontwantwrite(s, d), d)
io_onlywantwrite(s, d) == io_wantwrite(io_dontwantread(s, d), d)

-----------------------------------------------------------------------------
(* Waiting.                                                                *)

\* The descriptors that poll is asked about.
Polled(s) == {d \in Fds : d <= s.len /\ s.ent[d].want # {}}

\* What poll may find: rev[d] has some of the directions asked for, all of
\* them after an error.
Findings(s) == {rev \in [Polled(s) -> SUBSET Dirs] :
                  \A d \in Polled(s) : rev[d] \subseteq s.ent[d].want}

Readied(rev, dir) == {d \in DOMAIN rev : dir \in rev[d]}

\* The descriptors are visited downwards, so that the queue goes upwards from
\* the lowest and then on to what it was.
Queued(rev, dir, d, first) ==
  LET higher == {x \in Readied(rev, dir) : x > d}
  IN  IF higher = {} THEN first ELSE Min(higher)

\* Mutant: what was ready before stays so.
io_waituntil2_Keep(s, rev) ==
  [s EXCEPT
    !.ent = [d \in Fds |->
      IF d > s.len \/ d \notin DOMAIN rev THEN s.ent[d]
      ELSE [s.ent[d] EXCEPT
             !.can = @ \cup rev[d],
             !.next = [dir \in Dirs |->
               IF dir \in rev[d] \ s.ent[d].can
                 THEN Queued(rev, dir, d, s.first[dir]) ELSE @[dir]]]],
    !.first = [dir \in Dirs |->
      IF Readied(rev, dir) = {} THEN @[dir] ELSE Min(Readied(rev, dir))]]

io_waituntil2(s, rev) ==
  IF s.wanted = 0 THEN s
  ELSE [s EXCEPT
    !.ent = [d \in Fds |->
      IF d > s.len THEN s.ent[d]
      ELSE LET found == IF d \in DOMAIN rev THEN rev[d] ELSE {}
           IN  [s.ent[d] EXCEPT
                 !.can = found,
                 !.next = [dir \in Dirs |->
                   IF dir \in found THEN Queued(rev, dir, d, s.first[dir])
                                    ELSE @[dir]]]],
    !.first = [dir \in Dirs |->
      IF Readied(rev, dir) = {} THEN @[dir] ELSE Min(Readied(rev, dir))]]

\* The n-th entry of a queue; a queue may lead back to itself.
Entry(s, dir) ==
  LET at[n \in 0 .. Cardinality(Fds)] ==
        IF n = 0 THEN s.first[dir]
        ELSE IF at[n - 1] = None THEN None ELSE s.ent[at[n - 1]].next[dir]
  IN  at

InQueue(s, dir) ==
  {d \in Fds : \E n \in 0 .. Cardinality(Fds) : Entry(s, dir)[n] = d}

Ready(s, dir, d) == dir \in s.ent[d].want \cap s.ent[d].can

\* The entries before d and d leave the queue, all of them if d is None.
Dequeued(s, dir, d, gone) ==
  LET left == [x \in Fds |-> IF x \in gone THEN [s.ent[x] EXCEPT !.next[dir] = None]
                                           ELSE s.ent[x]]
  IN  [s EXCEPT !.ent = IF left = @ THEN @ ELSE left,   \* compared so that TLC evaluates it
                !.first[dir] = IF d = None THEN None ELSE s.ent[d].next[dir]]

\* Descriptor d is handed out.
Taken(s, dir, d) ==
  LET t == [s EXCEPT !.ent[d].can = @ \ {dir}]
  IN  IF dir \in s.ent[d].kern THEN t ELSE want_really(t, dir, d)

\* An entry that the queue leads back to has lost its successor by then.
Next_ready(s, dir) ==
  LET at   == Entry(s, dir)
      hits == {n \in 0 .. Cardinality(Fds) : at[n] \in Fds /\ Ready(s, dir, at[n])}
      last == IF hits = {} THEN Cardinality(Fds) ELSE Min(hits)
      ret  == IF hits = {} THEN None ELSE at[last]
      gone == {d \in Fds : \E n \in 0 .. last : at[n] = d}
      t    == Dequeued(s, dir, ret, gone)
  IN  [fd |-> ret, s |-> IF ret = None THEN t ELSE Taken(t, dir, ret)]

io_canread(s) == Next_ready(s, "r")
io_canwrite(s) == Next_ready(s, "w")

-----------------------------------------------------------------------------
(* Reading, writing and closing.                                           *)

\* io_tryread and io_trywrite: all that was asked for was transferred, or not;
\* a blocking descriptor is polled first, and may not be ready.
Try(s, dir, d) ==
  {s, [s EXCEPT !.ent[d].can = @ \ {dir}]} \cup
  IF d \notin s.mapped \/ "nonblock" \in s.ent[d].flags THEN {}
  ELSE {[s EXCEPT !.ent[d].can = @ \ {dir}, !.ent[d].next[dir] = None]}

io_tryread(s, d) == Try(s, "r", d)
io_trywrite(s, d) == Try(s, "w", d)

io_eagain(s, d) == [s EXCEPT !.ent[d].can = @ \ s.ent[d].want]
io_eagain_read(s, d) == [s EXCEPT !.ent[d].can = @ \ {"r"}]
io_eagain_write(s, d) == [s EXCEPT !.ent[d].can = @ \ {"w"}]

\* Mutant: the interest in the descriptor outlives it.
io_close_Wanted(s, d) ==
  IF d \notin s.mapped THEN s
  ELSE [s EXCEPT !.ent[d].flags = @ \ {"inuse"}, !.ent[d].kern = {},
                 !.wanted = IF s.ent[d].kern = {} THEN @ ELSE (@ - 1) % Wrap]

\* The descriptor stays in the queues.
io_close(s, d) ==
  LET t == [s EXCEPT !.ent[d].flags = @ \ {"inuse"}]
      u == IF "r" \in t.ent[d].kern THEN dontwant_really(t, "r", d) ELSE t
  IN  CASE d \notin s.mapped -> s
        [] d \in s.mapped /\ "w" \in u.ent[d].kern -> dontwant_really(u, "w", d)
        [] OTHER -> u
=============================================================================
