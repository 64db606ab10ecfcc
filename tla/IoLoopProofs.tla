---------------------------- MODULE IoLoopProofs ----------------------------
(* Theorems about IoLoop.                                                  *)
EXTENDS IoLoop, IoTableProofs

\* The calls that leave the history alone.
LEMMA CallsMild ==
  ASSUME io \in TableType, open \subseteq Fds, NEW d \in open, NEW t \in Calls(d)
  PROVE  Mild(io, t, open, d)
<1>1. d \in open \cap Fds /\ "r" \in Dirs /\ "w" \in Dirs
  BY DEF Dirs
<1>2. io.ent[d].want \in SUBSET Dirs /\ {"r"} \in SUBSET Dirs /\ {"w"} \in SUBSET Dirs
  BY <1>1 DEF TableType, EntryType
<1>3. \A D \in SUBSET Dirs :
        /\ Mild(io, [io EXCEPT !.ent[d].can = @ \ D], open, d)
        /\ \A dir \in Dirs :
             Mild(io, [io EXCEPT !.ent[d].can = @ \ D, !.ent[d].next[dir] = None], open, d)
  BY <1>1, LessReadyMild
<1>4. CASE t \in {io_eagain(io, d), io_eagain_read(io, d), io_eagain_write(io, d)}
  BY <1>2, <1>3, <1>4 DEF io_eagain, io_eagain_read, io_eagain_write
<1>5. CASE t \in {io_wantread(io, d), io_wantwrite(io, d)}
  BY <1>1, <1>5, InterestMild
<1>6. ASSUME NEW dir \in Dirs, t \in Try(io, dir, d) PROVE Mild(io, t, open, d)
  <2>1. {dir} \in SUBSET Dirs
    OBVIOUS
  <2>2. \/ t = io
        \/ t = [io EXCEPT !.ent[d].can = @ \ {dir}]
        \/ t = [io EXCEPT !.ent[d].can = @ \ {dir}, !.ent[d].next[dir] = None]
    BY <1>6, Zenon DEF Try
  <2>3. /\ Mild(io, [io EXCEPT !.ent[d].can = @ \ {dir}], open, d)
        /\ Mild(io, [io EXCEPT !.ent[d].can = @ \ {dir},
                               !.ent[d].next[dir] = None], open, d)
    BY <1>3, <2>1, Zenon
  <2>4. Mild(io, io, open, d)
    BY <1>1, Unchanged
  <2> QED BY <2>2, <2>3, <2>4, Zenon
<1>7. \/ t \in {io_eagain(io, d), io_eagain_read(io, d), io_eagain_write(io, d)}
      \/ t \in {io_wantread(io, d), io_wantwrite(io, d)}
      \/ t \in Try(io, "r", d) \/ t \in Try(io, "w", d)
  BY Zenon DEF Calls, io_tryread, io_trywrite
<1> QED BY <1>1, <1>4, <1>5, <1>6, <1>7

-----------------------------------------------------------------------------
(* The inductive invariant.  NoStranger and WantedCount rest on calmness:  *)
(* what is wanted is watched, and nothing of a closed descriptor is.  A    *)
(* registered descriptor has an entry, so that io_close ends its interest. *)

IInv ==
  /\ TypeOK
  /\ \A d \in Fds \ open : "inuse" \notin io.ent[d].flags
  /\ \A d \in open : \A dir \in io.ent[d].can : <<dir, d>> \in news
  /\ rash = 0 => Calm(io, open)
  /\ open \subseteq io.mapped
  /\ NoStranger

LEMMA NoReturnFacts == NoReturn \in Dirs \X (Fds \cup {None}) /\ NoReturn[2] = None
BY DEF NoReturn, Dirs

LEMMA IInvInit == Init => IInv
<1> SUFFICES ASSUME Init PROVE IInv
  OBVIOUS
<1>1. NoEntries \in TableType
  <2>1. Zero \in EntryType
    BY DEF Zero, EntryType
  <2>2. [d \in Fds |-> Zero] \in [Fds -> EntryType]
    BY <2>1
  <2>3. NoNext \in [Dirs -> Fds \cup {None, 0}]
    BY DEF NoNext
  <2>4. 0 \in 0 .. Wrap - 1
    BY WrapFacts
  <2> QED BY <2>2, <2>3, <2>4 DEF NoEntries, TableType
<1>2. TypeOK
  <2>1. rash \in 0 .. MaxRash
    BY IoLoopAssumption DEF Init
  <2> QED BY <1>1, <2>1, NoReturnFacts DEF Init, TypeOK
<1>3. \A d \in Fds : io.ent[d] = Zero
  BY DEF Init, NoEntries
<1>4. Zero.flags = {} /\ Zero.want = {} /\ Zero.can = {} /\ Zero.kern = {}
  BY DEF Zero
<1>5. Calm(io, open)
  <2>1. Watched(io) = {}
    BY <1>3, <1>4 DEF Watched
  <2>2. io.wanted = 0
    BY DEF Init, NoEntries
  <2>3. Counted(io)
    BY <2>1, <2>2, FS_EmptySet DEF Counted
  <2>4. \A x \in Fds : CalmEntry(io.ent[x], x \in open)
    BY <1>3, <1>4 DEF CalmEntry
  <2> QED BY <2>3, <2>4 DEF Calm
<1>6. NoStranger
  BY NoReturnFacts DEF Init, NoStranger
<1>7. open = {}
  BY DEF Init
<1> QED BY <1>2, <1>3, <1>4, <1>5, <1>6, <1>7 DEF IInv

\* The steps that are calls for one open descriptor.
LEMMA CallKeeps ==
  ASSUME IInv, NEW d \in open,
         Frame(io, io', d), io'.ent[d].can \subseteq io.ent[d].can,
         rash' \in 0 .. MaxRash,
         rash' = 0 => rash = 0 /\ (Calm(io, open) => Calm(io', open)),
         open' = open, news' = news, ret' = NoReturn
  PROVE  IInv'
<1>1. TypeOK'
  BY NoReturnFacts DEF IInv, TypeOK, Frame
<1>2. d \in Fds /\ open \subseteq Fds
  BY DEF IInv, TypeOK
<1>3. \A x \in Fds \ open : "inuse" \notin io'.ent[x].flags
  BY <1>2 DEF IInv, Frame
<1>4. \A x \in open : \A dir \in io'.ent[x].can : <<dir, x>> \in news
  BY <1>2 DEF IInv, Frame
<1>5. rash' = 0 => Calm(io', open)
  BY DEF IInv
<1>6. NoStranger'
  BY NoReturnFacts DEF NoStranger
<1>7. open' \subseteq io'.mapped
  BY DEF IInv, Frame
<1> QED BY <1>1, <1>3, <1>4, <1>5, <1>6, <1>7 DEF IInv

LEMMA WaitKeeps ==
  ASSUME IInv, Wait
  PROVE  IInv'
<1>1. PICK rev \in Findings(io) :
        /\ io' = io_waituntil2(io, rev)
        /\ news' = IF io.wanted = 0 THEN news
                   ELSE news \cup {x \in Dirs \X open : x[2] \in Readied(rev, x[1])}
  BY DEF Wait
<1>2. open' = open /\ rash' = rash /\ ret' = NoReturn
  BY DEF Wait
<1>3. io \in TableType /\ open \subseteq Fds /\ news \subseteq Dirs \X open
  BY DEF IInv, TypeOK
<1>4. NoStranger'
  BY <1>2, NoReturnFacts DEF NoStranger
<1>5. CASE io.wanted = 0
  <2>1. io' = io /\ news' = news
    BY <1>1, <1>5 DEF io_waituntil2
  <2>2. TypeOK'
    BY <2>1, <1>2, NoReturnFacts DEF IInv, TypeOK
  <2> QED BY <2>1, <2>2, <1>2, <1>4 DEF IInv
<1>6. CASE io.wanted # 0
  <2>1. /\ io' \in TableType
        /\ Alike(io, io')
        /\ \A d \in Fds : \A dir \in io'.ent[d].can :
             \/ dir \in io.ent[d].can
             \/ d \in Polled(io) /\ dir \in rev[d] /\ dir \in io.ent[d].want
    BY <1>1, <1>3, <1>6, WaitEffect
  <2>2. news' = news \cup {x \in Dirs \X open : x[2] \in Readied(rev, x[1])}
    BY <1>1, <1>6
  <2>3. TypeOK'
    BY <2>1, <2>2, <1>2, <1>3, NoReturnFacts DEF IInv, TypeOK
  <2>4. \A d \in Fds \ open : "inuse" \notin io'.ent[d].flags
    BY <2>1 DEF IInv, Alike
  <2>5. ASSUME NEW d \in open, NEW dir \in io'.ent[d].can
        PROVE  <<dir, d>> \in news'
    <3>1. CASE dir \in io.ent[d].can
      BY <3>1, <2>2 DEF IInv
    <3>2. CASE d \in Polled(io) /\ dir \in rev[d] /\ dir \in io.ent[d].want
      <4>1. DOMAIN rev = Polled(io)
        BY DEF Findings
      <4>2. d \in Readied(rev, dir)
        BY <3>2, <4>1 DEF Readied
      <4>3. dir \in Dirs
        BY <3>2, <1>3 DEF TableType, EntryType
      <4> QED BY <4>2, <4>3, <2>2
    <3> QED BY <3>1, <3>2, <2>1, <1>3
  <2>6. ASSUME rash = 0 PROVE Calm(io', open)
    <3>1. Calm(io, open)
      BY <2>6 DEF IInv
    <3>2. \A x \in Fds \cap open : io'.ent[x].can \subseteq io.ent[x].kern
      BY <3>1, <2>1 DEF Calm, CalmEntry
    <3> QED BY <3>1, <3>2, <2>1, AlikeCalm
  <2>7. open' \subseteq io'.mapped
    BY <2>1, <1>2 DEF IInv, Alike
  <2> QED BY <2>3, <2>4, <2>5, <2>6, <2>7, <1>2, <1>4 DEF IInv
<1> QED BY <1>5, <1>6

LEMMA HandOutKeeps ==
  ASSUME IInv, NEW dir \in Dirs, HandOut(dir)
  PROVE  IInv' /\ (ret'[2] \in open => ret' \in news)
<1>1. PICK r : r = Next_ready(io, dir)
  OBVIOUS
<1>2. /\ io' = r.s /\ ret' = <<dir, r.fd>> /\ news' = news \ {<<dir, r.fd>>}
      /\ open' = open /\ rash' = rash
  BY <1>1 DEF HandOut, io_canread, io_canwrite, Dirs
<1>3. io \in TableType /\ open \subseteq Fds /\ news \subseteq Dirs \X open
  BY DEF IInv, TypeOK
<1>4. /\ r.s \in TableType
      /\ r.fd \in Fds \cup {None}
      /\ r.fd # None => Ready(io, dir, r.fd)
      /\ \A x \in Fds : /\ r.s.ent[x].can \subseteq io.ent[x].can
                        /\ x = r.fd => dir \notin r.s.ent[x].can
                        /\ r.s.ent[x].flags = io.ent[x].flags
      /\ r.s.mapped = io.mapped
      /\ Calm(io, open) => Calm(r.s, open)
  BY <1>1, <1>3, HandOutEffect
<1>5. TypeOK'
  BY <1>2, <1>3, <1>4 DEF IInv, TypeOK
<1>6. \A d \in Fds \ open : "inuse" \notin io'.ent[d].flags
  BY <1>2, <1>4 DEF IInv
<1>7. \A d \in open : \A x \in io'.ent[d].can : <<x, d>> \in news'
  BY <1>2, <1>3, <1>4 DEF IInv
<1>8. rash' = 0 => Calm(io', open')
  BY <1>2, <1>4 DEF IInv
<1>9. ASSUME rash = 0, r.fd # None PROVE r.fd \in open
  BY <1>4, <1>9 DEF IInv, Ready, Calm, CalmEntry
<1>10. NoStranger'
  BY <1>2, <1>9 DEF NoStranger
<1>11. ret'[2] \in open => ret' \in news
  <2>1. None \notin Fds
    BY IoTableAssumption DEF None
  <2> QED BY <2>1, <1>2, <1>3, <1>4 DEF IInv, Ready
<1>12. open' \subseteq io'.mapped
  BY <1>2, <1>4 DEF IInv
<1> QED BY <1>2, <1>5, <1>6, <1>7, <1>8, <1>10, <1>11, <1>12 DEF IInv

LEMMA RegisterKeeps ==
  ASSUME IInv, NEW d \in Fds, Register(d)
  PROVE  IInv'
<1>1. /\ d \notin open /\ open' = open \cup {d} /\ ret' = NoReturn
      /\ io \in TableType /\ open \subseteq Fds /\ news \subseteq Dirs \X open
  BY DEF Register, IInv, TypeOK
<1>2. "inuse" \notin io.ent[d].flags /\ d \in Fds /\ d \notin open
  BY <1>1 DEF IInv
<1>3. NoStranger'
  BY <1>1, NoReturnFacts DEF NoStranger
<1>4. CASE io' = io_fd_internal(io, d, d \notin Blocking) /\ UNCHANGED <<news, rash>>
  <2>1. PICK nonblock : nonblock = (d \notin Blocking)
    OBVIOUS
  <2>2. io' = io_fd_internal(io, d, nonblock)
    BY <2>1, <1>4
  <2>3. /\ io' \in TableType
        /\ io'.ent[d].can = {}
        /\ \A x \in Fds \ {d} : io'.ent[x] = io.ent[x]
        /\ io.mapped \cup {d} \subseteq io'.mapped
        /\ Calm(io, open) => Calm(io', open')
    <3>1. /\ io' \in TableType
          /\ io'.ent[d].can = {} /\ io'.ent[d].want = {} /\ io'.ent[d].kern = {}
          /\ \A x \in Fds \ {d} : io'.ent[x] = io.ent[x]
          /\ io'.wanted = io.wanted
          /\ io.mapped \cup {d} \subseteq io'.mapped
      BY <2>2, <1>1, <1>2, NewEntry
    <3>2. \A x \in Fds : x \in open' <=> x \in open \/ x = d
      BY <1>1
    <3>3. ASSUME Calm(io, open) PROVE Calm(io', open')
      BY <3>1, <3>2, <3>3, <1>2, NewEntryCalm
    <3> QED BY <3>1, <3>3
  <2>4. TypeOK'
    BY <2>3, <1>1, <1>4, NoReturnFacts DEF IInv, TypeOK
  <2>5. \A x \in Fds \ open' : "inuse" \notin io'.ent[x].flags
    BY <2>3, <1>1 DEF IInv
  <2>6. \A x \in open' : \A dir \in io'.ent[x].can : <<dir, x>> \in news'
    BY <2>3, <1>1, <1>4 DEF IInv
  <2>7. open' \subseteq io'.mapped
    BY <2>3, <1>1 DEF IInv
  <2> QED BY <2>3, <2>4, <2>5, <2>6, <2>7, <1>1, <1>3, <1>4 DEF IInv
<1>5. CASE /\ rash < MaxRash /\ rash' = rash + 1
           /\ io' = io_fd_canwrite(io, d, d \notin Blocking)
           /\ news' = news \cup {<<"w", d>>}
  <2>1. PICK nonblock : nonblock = (d \notin Blocking)
    OBVIOUS
  <2>2. io' = io_fd_canwrite(io, d, nonblock)
    BY <2>1, <1>5
  <2>3. /\ io' \in TableType
        /\ io'.ent[d].can = {"w"}
        /\ \A x \in Fds \ {d} : io'.ent[x] = io.ent[x]
        /\ io.mapped \cup {d} \subseteq io'.mapped
    BY <2>2, <1>1, <1>2, CanWriteEffect
  <2>4. rash \in 0 .. MaxRash /\ MaxRash \in Nat /\ "w" \in Dirs
    BY IoLoopAssumption DEF IInv, TypeOK, Dirs
  <2>5. rash' \in 0 .. MaxRash /\ rash' # 0
    BY <2>4, <1>5
  <2>6. TypeOK'
    BY <2>3, <2>4, <2>5, <1>1, <1>5, NoReturnFacts DEF IInv, TypeOK
  <2>7. \A x \in Fds \ open' : "inuse" \notin io'.ent[x].flags
    BY <2>3, <1>1 DEF IInv
  <2>8. \A x \in open' : \A dir \in io'.ent[x].can : <<dir, x>> \in news'
    BY <2>3, <1>1, <1>5 DEF IInv
  <2>9. open' \subseteq io'.mapped
    BY <2>3, <1>1 DEF IInv
  <2> QED BY <2>5, <2>6, <2>7, <2>8, <2>9, <1>3 DEF IInv
<1> QED BY <1>4, <1>5 DEF Register

LEMMA CloseKeeps ==
  ASSUME IInv, NEW d \in Fds, Close(d)
  PROVE  IInv'
<1>1. /\ d \in open /\ open' = open \ {d} /\ io' = io_close(io, d)
      /\ news' = {x \in news : x[2] # d} /\ ret' = NoReturn /\ rash' = rash
      /\ io \in TableType /\ open \subseteq Fds /\ news \subseteq Dirs \X open
  BY DEF Close, IInv, TypeOK
<1>2. /\ io' \in TableType
      /\ "inuse" \notin io'.ent[d].flags
      /\ \A x \in Fds \ {d} : io'.ent[x] = io.ent[x]
      /\ io'.mapped = io.mapped
      /\ Calm(io, open) => Calm(io', open')
  <2>1. d \in open \cap Fds /\ d \in io.mapped /\ io \in TableType
    BY <1>1 DEF IInv
  <2>2. \A x \in Fds : x \in open' <=> x \in open /\ x # d
    BY <1>1
  <2> QED BY <2>1, <2>2, <1>1, CloseEffect
<1>3. news' \subseteq Dirs \X open'
  BY <1>1
<1>4. TypeOK'
  BY <1>1, <1>2, <1>3, NoReturnFacts DEF IInv, TypeOK
<1>5. \A x \in Fds \ open' : "inuse" \notin io'.ent[x].flags
  BY <1>1, <1>2 DEF IInv
<1>6. \A x \in open' : \A dir \in io'.ent[x].can : <<dir, x>> \in news'
  BY <1>1, <1>2 DEF IInv
<1>7. NoStranger'
  BY <1>1, NoReturnFacts DEF NoStranger
<1>8. open' \subseteq io'.mapped
  BY <1>1, <1>2 DEF IInv
<1> QED BY <1>1, <1>2, <1>4, <1>5, <1>6, <1>7, <1>8 DEF IInv

\* No step breaks the invariant, and each returns what was reported.
LEMMA IInvNext ==
  ASSUME IInv, [Next]_vars
  PROVE  IInv' /\ [ret'[2] \in open => ret' \in news]_vars
<1> DEFINE Fresh1 == [ret'[2] \in open => ret' \in news]_vars
<1>1. io \in TableType /\ open \subseteq Fds /\ rash \in 0 .. MaxRash /\ MaxRash \in Nat
  BY IoLoopAssumption DEF IInv, TypeOK
<1>2. NoReturn[2] \notin open
  BY <1>1, NoReturnFacts, IoTableAssumption DEF None
<1>3. ASSUME NEW d \in Fds, Register(d) PROVE IInv' /\ Fresh1
  BY <1>2, <1>3, RegisterKeeps DEF Register
<1>4. ASSUME NEW d \in Fds, Call(d) PROVE IInv' /\ Fresh1
  <2>1. /\ d \in open /\ io' \in Calls(d) /\ ret' = NoReturn
        /\ open' = open /\ rash' = rash /\ news' = news
    BY <1>4 DEF Call
  <2>2. Mild(io, io', open, d)
    BY <2>1, <1>1, CallsMild
  <2>3. IInv'
    BY <2>1, <2>2, <1>1, CallKeeps DEF Mild
  <2> QED BY <2>1, <2>3, <1>2
<1>5. ASSUME NEW d \in Fds, Close(d) PROVE IInv' /\ Fresh1
  BY <1>2, <1>5, CloseKeeps DEF Close
<1>6. ASSUME NEW d \in Fds, NEW dir \in Dirs, GiveUp(dir, d) PROVE IInv' /\ Fresh1
  <2>1. /\ d \in open \cap Fds /\ ret' = NoReturn /\ open' = open /\ news' = news
        /\ rash' = rash + IF dir \in io.ent[d].can THEN 1 ELSE 0
        /\ rash' <= MaxRash
    BY <1>6 DEF GiveUp
  <2>2. io' = DontWant(io, dir, d)
    BY <1>6 DEF GiveUp, io_dontwantread, io_dontwantwrite, Dirs
  <2>3. /\ Frame(io, io', d)
        /\ io'.ent[d].can = io.ent[d].can
        /\ dir \notin io.ent[d].can => Mild(io, io', open, d)
    BY <2>1, <2>2, <1>1, DontWantEffect
  <2>4. rash' \in 0 .. MaxRash /\ (rash' = 0 => rash = 0 /\ dir \notin io.ent[d].can)
    BY <2>1, <1>1
  <2>5. IInv'
    BY <2>1, <2>3, <2>4, CallKeeps DEF Mild
  <2> QED BY <2>1, <2>5, <1>2
<1>7. ASSUME NEW d \in Fds, NEW dir \in Dirs, Exchange(dir, d) PROVE IInv' /\ Fresh1
  <2>1. /\ d \in open \cap Fds /\ ret' = NoReturn /\ open' = open /\ news' = news
        /\ rash' = rash + IF Other(dir) \in io.ent[d].can THEN 1 ELSE 0
        /\ rash' <= MaxRash
        /\ io' = IF dir = "r" THEN io_onlywantread(io, d) ELSE io_onlywantwrite(io, d)
    BY <1>7 DEF Exchange
  <2>2. /\ Frame(io, io', d)
        /\ io'.ent[d].can \subseteq io.ent[d].can
        /\ Other(dir) \notin io.ent[d].can => Mild(io, io', open, d)
    BY <2>1, <1>1, OnlyWantEffect
  <2>3. rash' \in 0 .. MaxRash /\ (rash' = 0 => rash = 0 /\ Other(dir) \notin io.ent[d].can)
    BY <2>1, <1>1
  <2>4. IInv'
    BY <2>1, <2>2, <2>3, CallKeeps DEF Mild
  <2> QED BY <2>1, <2>4, <1>2
<1>8. ASSUME Wait PROVE IInv' /\ Fresh1
  BY <1>2, <1>8, WaitKeeps DEF Wait
<1>9. ASSUME NEW dir \in Dirs, HandOut(dir) PROVE IInv' /\ Fresh1
  BY <1>9, HandOutKeeps
<1>10. CASE UNCHANGED vars
  BY <1>10 DEF vars, IInv, TypeOK, NoStranger
<1> QED BY <1>3, <1>4, <1>5, <1>6, <1>7, <1>8, <1>9, <1>10 DEF Next

LEMMA IInvHolds == Spec => []IInv
<1>1. IInv /\ [Next]_vars => IInv'
  BY IInvNext
<1> QED BY <1>1, IInvInit, PTL DEF Spec

\* An event is handed out once, and only to the descriptor that had it: what
\* io_canread and io_canwrite return is open only if poll has reported it since
\* it was registered, and it was not returned since.
THEOREM FreshHolds == Spec => Fresh
<1>1. IInv /\ [Next]_vars => [ret'[2] \in open => ret' \in news]_vars
  BY IInvNext
<1> QED BY <1>1, IInvHolds, PTL DEF Spec, Fresh

\* io_wanted_fds is the number of descriptors that the kernel is to watch, in
\* every program that is not rash.
THEOREM WantedCountHolds == Spec => []WantedCount
<1>1. IInv => WantedCount
  BY DEF IInv, Calm, Counted, Watched, WantedCount
<1> QED BY <1>1, IInvHolds, PTL

\* In such a program io_canread and io_canwrite return no closed descriptor.
THEOREM NoStrangerHolds == Spec => []NoStranger
<1>1. IInv => NoStranger
  BY DEF IInv
<1> QED BY <1>1, IInvHolds, PTL

\* And the assertions of io_dontwantread and io_dontwantwrite hold, until the
\* interest in a descriptor that is ready is given up once.
THEOREM AssertsHoldHolds == Spec => []AssertsHold
<1>1. IInv => AssertsHold
  BY DEF IInv, TypeOK, Calm, CalmEntry, AssertsHold
<1> QED BY <1>1, IInvHolds, PTL

\* After a wait, all that poll reported is in the queues, whatever they were
\* before, so that asking until -1 returns all of it.
THEOREM AllQueuedHolds == Spec => AllQueued
<1> DEFINE A == \A dir \in Dirs :
                  Wait /\ io.wanted # 0 =>
                    {d \in Polled(io) : Ready(io', dir, d)} \subseteq InQueue(io', dir)
<1>1. IInv /\ [Next]_vars => [A]_vars
  <2>1. SUFFICES ASSUME IInv, NEW dir \in Dirs, Wait, io.wanted # 0,
                        NEW d \in Polled(io), Ready(io', dir, d)
                 PROVE  d \in InQueue(io', dir)
    OBVIOUS
  <2>2. PICK rev \in Findings(io) : io' = io_waituntil2(io, rev)
    BY <2>1 DEF Wait
  <2>3. io \in TableType
    BY <2>1 DEF IInv, TypeOK
  <2>4. d \in Readied(rev, dir)
    BY <2>1, <2>2, <2>3, WaitLinks DEF Ready
  <2>5. Readied(rev, dir) \subseteq InQueue(io', dir)
    BY <2>1, <2>2, <2>3, WaitQueues
  <2> QED BY <2>4, <2>5
<1> QED BY <1>1, IInvHolds, PTL DEF Spec, AllQueued
=============================================================================
