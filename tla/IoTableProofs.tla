--------------------------- MODULE IoTableProofs ----------------------------
(***************************************************************************)
(* What each function of lib/io makes of the table: the lemmas that the    *)
(* theorems about its programs, any program (IoLoopProofs) and tinyproxy   *)
(* (TinyProxyProofs), rest on.                                             *)
(***************************************************************************)
EXTENDS IoTable, WellFoundedInduction, FiniteSetTheorems, TLAPS

LEMMA MinOf ==
  ASSUME NEW S, S \subseteq Nat, S # {}
  PROVE  Min(S) \in S /\ \A y \in S : Min(S) <= y
<1>1. PICK x \in S : \A y \in S : ~(<<y, x>> \in OpToRel(<, Nat))
  BY NatLessThanWellFounded, WFMin, Zenon
<1>2. \A y \in S : x <= y
  <2>1. SUFFICES ASSUME NEW y \in S PROVE x <= y
    OBVIOUS
  <2>2. ~(y < x)
    BY <1>1 DEF OpToRel
  <2> QED BY <2>2
<1> QED BY <1>2 DEF Min

-----------------------------------------------------------------------------
(* What the calls make of the table s: t.  They change no more than one    *)
(* entry, and not its flags.                                               *)

Frame(s, t, d) ==
  /\ t \in TableType
  /\ t.ent[d].flags = s.ent[d].flags
  /\ \A x \in Fds \ {d} : t.ent[x] = s.ent[x]
  /\ t.mapped = s.mapped

\* A direction is entered in two of the sets of an entry, or removed.
LEMMA Entries ==
  ASSUME NEW e \in EntryType, NEW D \in SUBSET Dirs,
         NEW next \in [Dirs -> Fds \cup {None, 0}]
  PROVE  /\ [e EXCEPT !.want = @ \cup D, !.kern = @ \cup D] \in EntryType
         /\ [e EXCEPT !.want = @ \ D, !.kern = @ \ D] \in EntryType
         /\ [e EXCEPT !.want = @ \cup D] \in EntryType
         /\ [e EXCEPT !.want = @ \ D] \in EntryType
         /\ [e EXCEPT !.can = @ \ D] \in EntryType
         /\ [e EXCEPT !.can = @ \ D, !.next = next] \in EntryType
         /\ [e EXCEPT !.can = D, !.next = next] \in EntryType
         /\ [e EXCEPT !.next = next] \in EntryType
BY DEF EntryType

LEMMA OneEntry ==
  ASSUME NEW f \in [Fds -> EntryType], NEW d \in Fds, NEW e \in EntryType,
         NEW g, g = [f EXCEPT ![d] = e]
  PROVE  /\ g \in [Fds -> EntryType]
         /\ g[d] = e
         /\ \A x \in Fds \ {d} : g[x] = f[x]
OBVIOUS

LEMMA WrapFacts ==
  /\ Wrap \in Nat /\ Cardinality(Fds) \in Nat /\ Cardinality(Fds) < Wrap
  /\ \A n \in Int : n % Wrap \in 0 .. Wrap - 1
  /\ \A n \in 0 .. Wrap - 1 : n % Wrap = n
<1>1. Cardinality(Fds) \in Nat
  BY IoTableAssumption, FS_CardinalityType
<1>2. Wrap \in Nat /\ Cardinality(Fds) < Wrap
  BY <1>1, IoTableAssumption
<1> QED BY <1>1, <1>2

LEMMA PushEffect ==
  ASSUME NEW s \in TableType, NEW dir \in Dirs, NEW d \in Fds,
         NEW t, t = Push(s, dir, d)
  PROVE  /\ Frame(s, t, d)
         /\ t.ent[d].want = s.ent[d].want
         /\ t.ent[d].can = s.ent[d].can
         /\ t.ent[d].kern = s.ent[d].kern
         /\ t.wanted = s.wanted
<1> DEFINE next == [s.ent[d].next EXCEPT ![dir] = s.first[dir]]
           e == [s.ent[d] EXCEPT !.next = next]
<1>1. s.ent[d] \in EntryType /\ next \in [Dirs -> Fds \cup {None, 0}]
  BY DEF TableType, EntryType
<1>2. e \in EntryType
  BY <1>1, Entries
<1>3. /\ t.ent = [s.ent EXCEPT ![d] = e]
      /\ t.first = [s.first EXCEPT ![dir] = d]
      /\ t.wanted = s.wanted /\ t.mapped = s.mapped
  BY DEF Push, TableType
<1>4. s.ent \in [Fds -> EntryType] /\ t.first \in [Dirs -> Fds \cup {None, 0}]
  BY <1>3 DEF TableType
<1>5. /\ t.ent \in [Fds -> EntryType] /\ t.ent[d] = e
      /\ \A x \in Fds \ {d} : t.ent[x] = s.ent[x]
  BY <1>2, <1>3, <1>4, OneEntry
<1>6. t \in TableType
  BY <1>4, <1>5 DEF Push, TableType
<1>7. /\ e.want = s.ent[d].want /\ e.can = s.ent[d].can
      /\ e.kern = s.ent[d].kern /\ e.flags = s.ent[d].flags
  BY <1>1 DEF EntryType
<1> QED BY <1>3, <1>5, <1>6, <1>7 DEF Frame

LEMMA WantReallyEffect ==
  ASSUME NEW s \in TableType, NEW dir \in Dirs, NEW d \in Fds,
         NEW t, t = want_really(s, dir, d)
  PROVE  /\ Frame(s, t, d)
         /\ t.ent[d].want = s.ent[d].want \cup {dir}
         /\ t.ent[d].can = s.ent[d].can
         /\ t.ent[d].kern = s.ent[d].kern \cup {dir}
         /\ t.wanted = IF Other(dir) \in s.ent[d].kern THEN s.wanted
                                                      ELSE (s.wanted + 1) % Wrap
<1> DEFINE e == [s.ent[d] EXCEPT !.want = @ \cup {dir}, !.kern = @ \cup {dir}]
           w == IF Other(dir) \in s.ent[d].kern THEN s.wanted ELSE (s.wanted + 1) % Wrap
<1>1. s.ent[d] \in EntryType /\ {dir} \in SUBSET Dirs
  BY DEF TableType
<1>2. e \in EntryType
  BY <1>1, Entries DEF EntryType
<1>3. /\ t.ent = [s.ent EXCEPT ![d] = e]
      /\ t.wanted = w /\ t.mapped = s.mapped
  BY DEF want_really, TableType
<1>4. s.ent \in [Fds -> EntryType] /\ s.wanted \in 0 .. Wrap - 1
  BY DEF TableType
<1>5. w \in 0 .. Wrap - 1
  <2>1. (s.wanted + 1) % Wrap \in 0 .. Wrap - 1
    BY <1>4, WrapFacts
  <2> QED BY <2>1, <1>4
<1>6. /\ t.ent \in [Fds -> EntryType] /\ t.ent[d] = e
      /\ \A x \in Fds \ {d} : t.ent[x] = s.ent[x]
  BY <1>2, <1>3, <1>4, OneEntry
<1>7. t \in TableType
  BY <1>3, <1>5, <1>6 DEF want_really, TableType
<1>8. /\ e.want = s.ent[d].want \cup {dir} /\ e.can = s.ent[d].can
      /\ e.kern = s.ent[d].kern \cup {dir} /\ e.flags = s.ent[d].flags
  BY <1>1 DEF EntryType
<1> QED BY <1>3, <1>6, <1>7, <1>8 DEF Frame

LEMMA DontWantReallyEffect ==
  ASSUME NEW s \in TableType, NEW dir \in Dirs, NEW d \in Fds,
         NEW t, t = dontwant_really(s, dir, d)
  PROVE  /\ Frame(s, t, d)
         /\ t.ent[d].want = s.ent[d].want \ {dir}
         /\ t.ent[d].can = s.ent[d].can
         /\ t.ent[d].kern = s.ent[d].kern \ {dir}
         /\ t.wanted = IF Other(dir) \in s.ent[d].kern THEN s.wanted
                                                      ELSE (s.wanted - 1) % Wrap
<1> DEFINE e == [s.ent[d] EXCEPT !.want = @ \ {dir}, !.kern = @ \ {dir}]
           w == IF Other(dir) \in s.ent[d].kern THEN s.wanted ELSE (s.wanted - 1) % Wrap
<1>1. s.ent[d] \in EntryType /\ {dir} \in SUBSET Dirs
  BY DEF TableType
<1>2. e \in EntryType
  BY <1>1, Entries DEF EntryType
<1>3. /\ t.ent = [s.ent EXCEPT ![d] = e]
      /\ t.wanted = w /\ t.mapped = s.mapped
  BY DEF dontwant_really, TableType
<1>4. s.ent \in [Fds -> EntryType] /\ s.wanted \in 0 .. Wrap - 1
  BY DEF TableType
<1>5. w \in 0 .. Wrap - 1
  <2>1. (s.wanted - 1) % Wrap \in 0 .. Wrap - 1
    BY <1>4, WrapFacts
  <2> QED BY <2>1, <1>4
<1>6. /\ t.ent \in [Fds -> EntryType] /\ t.ent[d] = e
      /\ \A x \in Fds \ {d} : t.ent[x] = s.ent[x]
  BY <1>2, <1>3, <1>4, OneEntry
<1>7. t \in TableType
  BY <1>3, <1>5, <1>6 DEF dontwant_really, TableType
<1>8. /\ e.want = s.ent[d].want \ {dir} /\ e.can = s.ent[d].can
      /\ e.kern = s.ent[d].kern \ {dir} /\ e.flags = s.ent[d].flags
  BY <1>1 DEF EntryType
<1> QED BY <1>3, <1>6, <1>7, <1>8 DEF Frame

-----------------------------------------------------------------------------
(* The number of descriptors that are watched.                             *)

Watched(s) == {x \in Fds : s.ent[x].kern # {}}
Counted(s) == s.wanted = Cardinality(Watched(s))

LEMMA WatchedFinite ==
  ASSUME NEW s
  PROVE  /\ IsFiniteSet(Watched(s))
         /\ Cardinality(Watched(s)) \in Nat
         /\ Cardinality(Watched(s)) <= Cardinality(Fds)
BY IoTableAssumption, FS_Subset, FS_CardinalityType DEF Watched

LEMMA CountSame ==
  ASSUME NEW s, NEW t, NEW d \in Fds, Counted(s),
         \A x \in Fds \ {d} : t.ent[x] = s.ent[x],
         t.ent[d].kern = {} <=> s.ent[d].kern = {},
         t.wanted = s.wanted
  PROVE  Counted(t)
<1>1. \A x \in Fds : t.ent[x].kern # {} <=> s.ent[x].kern # {}
  OBVIOUS
<1>2. Watched(t) = Watched(s)
  BY <1>1 DEF Watched
<1> QED BY <1>2 DEF Counted

LEMMA CountUp ==
  ASSUME NEW s, NEW t, NEW d \in Fds, Counted(s),
         \A x \in Fds \ {d} : t.ent[x] = s.ent[x],
         s.ent[d].kern = {}, t.ent[d].kern # {},
         t.wanted = (s.wanted + 1) % Wrap
  PROVE  Counted(t)
<1>1. Watched(t) = Watched(s) \cup {d} /\ d \notin Watched(s)
  BY DEF Watched
<1>2. Cardinality(Watched(t)) = Cardinality(Watched(s)) + 1
  BY <1>1, WatchedFinite, FS_AddElement
<1>3. s.wanted + 1 = Cardinality(Watched(t)) /\ s.wanted + 1 \in 0 .. Wrap - 1
  BY <1>2, WatchedFinite, WrapFacts DEF Counted
<1> QED BY <1>3, WrapFacts DEF Counted

LEMMA CountDown ==
  ASSUME NEW s, NEW t, NEW d \in Fds, Counted(s),
         \A x \in Fds \ {d} : t.ent[x] = s.ent[x],
         s.ent[d].kern # {}, t.ent[d].kern = {},
         t.wanted = (s.wanted - 1) % Wrap
  PROVE  Counted(t)
<1>1. Watched(t) = Watched(s) \ {d} /\ d \in Watched(s)
  BY DEF Watched
<1>2. Cardinality(Watched(t)) = Cardinality(Watched(s)) - 1
  BY <1>1, WatchedFinite, FS_RemoveElement
<1>3. s.wanted - 1 = Cardinality(Watched(t)) /\ s.wanted - 1 \in 0 .. Wrap - 1
  BY <1>2, WatchedFinite, WrapFacts DEF Counted
<1> QED BY <1>3, WrapFacts DEF Counted

-----------------------------------------------------------------------------
(* A table is calm, with the open descriptors o, when the kernel watches   *)
(* what is wanted and what is ready, nothing of a closed descriptor, and   *)
(* the count is right.                                                     *)

CalmEntry(e, isopen) ==
  /\ e.want \subseteq e.kern
  /\ isopen => e.can \subseteq e.kern
  /\ ~isopen => e.kern = {}

Calm(s, o) ==
  /\ \A x \in Fds : CalmEntry(s.ent[x], x \in o)
  /\ Counted(s)

\* A call for d that readies nothing, and leaves a calm table calm.
Mild(s, t, o, d) ==
  /\ Frame(s, t, d)
  /\ t.ent[d].can \subseteq s.ent[d].can
  /\ Calm(s, o) => Calm(t, o)

LEMMA MildTrans ==
  ASSUME NEW s, NEW t, NEW u, NEW o, NEW d, Mild(s, t, o, d), Mild(t, u, o, d)
  PROVE  Mild(s, u, o, d)
BY DEF Mild, Frame

\* No change of what is watched.
LEMMA MildSame ==
  ASSUME NEW s \in TableType, NEW t, NEW o, NEW d \in o \cap Fds,
         Frame(s, t, d),
         t.ent[d].can \subseteq s.ent[d].can,
         t.ent[d].kern = s.ent[d].kern,
         Calm(s, o) => t.ent[d].want \subseteq s.ent[d].kern,
         t.wanted = s.wanted
  PROVE  Mild(s, t, o, d)
<1>1. ASSUME Calm(s, o) PROVE Calm(t, o)
  <2>1. Counted(t)
    BY <1>1, CountSame DEF Calm, Frame
  <2>2. \A x \in Fds \ {d} : CalmEntry(t.ent[x], x \in o)
    BY <1>1 DEF Calm, Frame
  <2>3. CalmEntry(t.ent[d], d \in o)
    BY <1>1 DEF Calm, CalmEntry
  <2> QED BY <2>1, <2>2, <2>3 DEF Calm
<1> QED BY <1>1 DEF Mild

LEMMA WantReallyMild ==
  ASSUME NEW s \in TableType, NEW dir \in Dirs, NEW o, NEW d \in o \cap Fds,
         dir \notin s.ent[d].kern
  PROVE  Mild(s, want_really(s, dir, d), o, d)
<1> DEFINE t == want_really(s, dir, d)
<1>1. /\ Frame(s, t, d)
      /\ t.ent[d].want = s.ent[d].want \cup {dir}
      /\ t.ent[d].can = s.ent[d].can
      /\ t.ent[d].kern = s.ent[d].kern \cup {dir}
      /\ t.wanted = IF Other(dir) \in s.ent[d].kern THEN s.wanted
                                                   ELSE (s.wanted + 1) % Wrap
  BY WantReallyEffect
<1>2. s.ent[d].kern \subseteq Dirs
  BY DEF TableType, EntryType
<1> HIDE DEF t
<1>3. ASSUME Calm(s, o) PROVE Calm(t, o)
  <2>1. Counted(t)
    <3>1. CASE Other(dir) \in s.ent[d].kern
      BY <3>1, <1>1, <1>3, CountSame DEF Calm, Frame
    <3>2. CASE Other(dir) \notin s.ent[d].kern
      <4>1. s.ent[d].kern = {}
        BY <3>2, <1>2 DEF Dirs, Other
      <4> QED BY <3>2, <4>1, <1>1, <1>3, CountUp DEF Calm, Frame
    <3> QED BY <3>1, <3>2
  <2>2. \A x \in Fds \ {d} : CalmEntry(t.ent[x], x \in o)
    BY <1>1, <1>3 DEF Calm, Frame
  <2>3. CalmEntry(t.ent[d], d \in o)
    BY <1>1, <1>3 DEF Calm, CalmEntry
  <2> QED BY <2>1, <2>2, <2>3 DEF Calm
<1> QED BY <1>1, <1>3 DEF Mild, t

(* The effect of a call that changes want, can or next of one entry.       *)

SetEntry(s, d, e) == [s EXCEPT !.ent[d] = e]

LEMMA EntryEffect ==
  ASSUME NEW s \in TableType, NEW d \in Fds, NEW e \in EntryType,
         e.flags = s.ent[d].flags,
         NEW t, t = SetEntry(s, d, e)
  PROVE  Frame(s, t, d) /\ t.ent[d] = e /\ t.wanted = s.wanted
<1>1. /\ t.ent = [s.ent EXCEPT ![d] = e]
      /\ t.wanted = s.wanted /\ t.mapped = s.mapped
  BY DEF TableType, SetEntry
<1>2. s.ent \in [Fds -> EntryType]
  BY DEF TableType
<1>3. /\ t.ent \in [Fds -> EntryType] /\ t.ent[d] = e
      /\ \A x \in Fds \ {d} : t.ent[x] = s.ent[x]
  BY <1>1, <1>2, OneEntry
<1>4. t \in TableType
  BY <1>1, <1>3 DEF TableType, SetEntry
<1> QED BY <1>1, <1>3, <1>4 DEF Frame

\* What is wanted besides must be watched already.
LEMMA WantedMild ==
  ASSUME NEW s \in TableType, NEW dir \in Dirs, NEW o, NEW d \in o \cap Fds,
         Calm(s, o) => dir \in s.ent[d].kern
  PROVE  LET t == [s EXCEPT !.ent[d].want = @ \cup {dir}]
         IN  /\ Mild(s, t, o, d)
             /\ t.ent[d].kern = s.ent[d].kern /\ t.ent[d].can = s.ent[d].can
<1> DEFINE e == [s.ent[d] EXCEPT !.want = @ \cup {dir}]
           t == [s EXCEPT !.ent[d].want = @ \cup {dir}]
<1>1. s.ent[d] \in EntryType /\ {dir} \in SUBSET Dirs
  BY DEF TableType
<1>2. e \in EntryType
  BY <1>1, Entries DEF EntryType
<1>3. /\ e.want = s.ent[d].want \cup {dir} /\ e.can = s.ent[d].can
      /\ e.kern = s.ent[d].kern /\ e.flags = s.ent[d].flags
  BY <1>1 DEF EntryType
<1>4. t = SetEntry(s, d, e)
  BY DEF TableType, SetEntry
<1> HIDE DEF e, t
<1>5. Frame(s, t, d) /\ t.ent[d] = e /\ t.wanted = s.wanted
  BY <1>2, <1>3, <1>4, EntryEffect
<1>6. Calm(s, o) => e.want \subseteq s.ent[d].kern
  BY <1>3 DEF Calm, CalmEntry
<1>7. Mild(s, t, o, d)
  BY <1>3, <1>5, <1>6, MildSame
<1> QED BY <1>3, <1>5, <1>7 DEF t

LEMMA WantMild ==
  ASSUME NEW s \in TableType, NEW dir \in Dirs, NEW o, NEW d \in o \cap Fds
  PROVE  Mild(s, Want(s, dir, d), o, d)
<1> DEFINE t == [s EXCEPT !.ent[d].want = @ \cup {dir}]
<1>1. CASE dir \in s.ent[d].can
  <2>1. Calm(s, o) => dir \in s.ent[d].kern
    BY <1>1 DEF Calm, CalmEntry
  <2>2. Mild(s, t, o, d)
    BY <2>1, WantedMild
  <2>3. t \in TableType
    BY <2>2 DEF Mild, Frame
  <2>4. Want(s, dir, d) = Push(t, dir, d)
    BY <1>1 DEF Want
  <2> HIDE DEF t
  <2>5. /\ Frame(t, Push(t, dir, d), d)
        /\ Push(t, dir, d).ent[d].want = t.ent[d].want
        /\ Push(t, dir, d).ent[d].can = t.ent[d].can
        /\ Push(t, dir, d).ent[d].kern = t.ent[d].kern
        /\ Push(t, dir, d).wanted = t.wanted
    BY <2>3, PushEffect
  <2>6. Mild(t, Push(t, dir, d), o, d)
    BY <2>3, <2>5, MildSame DEF Calm, CalmEntry
  <2> QED BY <2>2, <2>4, <2>6, MildTrans
<1>2. CASE dir \in s.ent[d].kern \ s.ent[d].can
  BY <1>2, WantedMild DEF Want
<1>3. CASE dir \notin s.ent[d].can /\ dir \notin s.ent[d].kern
  BY <1>3, WantReallyMild DEF Want
<1> QED BY <1>1, <1>2, <1>3

LEMMA Unchanged ==
  ASSUME NEW s \in TableType, NEW o, NEW d \in Fds
  PROVE  Mild(s, s, o, d)
BY DEF Mild, Frame

LEMMA InterestMild ==
  ASSUME NEW s \in TableType, NEW o, NEW d \in o \cap Fds
  PROVE  Mild(s, io_wantread(s, d), o, d) /\ Mild(s, io_wantwrite(s, d), o, d)
<1>1. \A dir \in Dirs : Mild(s, Want(s, dir, d), o, d)
  BY WantMild
<1>2. "r" \in Dirs /\ "w" \in Dirs
  BY DEF Dirs
<1> QED BY <1>1, <1>2, Unchanged DEF io_wantread, io_wantwrite

\* Some directions are no longer ready, or the entry is the last in a queue.
LEMMA LessReadyMild ==
  ASSUME NEW s \in TableType, NEW D \in SUBSET Dirs, NEW dir \in Dirs,
         NEW o, NEW d \in o \cap Fds
  PROVE  /\ Mild(s, [s EXCEPT !.ent[d].can = @ \ D], o, d)
         /\ Mild(s, [s EXCEPT !.ent[d].can = @ \ D, !.ent[d].next[dir] = None], o, d)
<1>1. s.ent[d] \in EntryType
  BY DEF TableType
<1>2. Mild(s, [s EXCEPT !.ent[d].can = @ \ D], o, d)
  <2> DEFINE e == [s.ent[d] EXCEPT !.can = @ \ D]
               t == [s EXCEPT !.ent[d].can = @ \ D]
  <2>2. e \in EntryType
    BY <1>1, Entries DEF EntryType
  <2>3. /\ e.want = s.ent[d].want /\ e.can \subseteq s.ent[d].can
        /\ e.kern = s.ent[d].kern /\ e.flags = s.ent[d].flags
    BY <1>1 DEF EntryType
  <2>4. t = SetEntry(s, d, e)
    BY DEF TableType, SetEntry
  <2> HIDE DEF e, t
  <2>5. Frame(s, t, d) /\ t.ent[d] = e /\ t.wanted = s.wanted
    BY <2>2, <2>3, <2>4, EntryEffect
  <2>6. Mild(s, t, o, d)
    BY <2>3, <2>5, MildSame DEF Calm, CalmEntry
  <2> QED BY <2>6 DEF t
<1>3. Mild(s, [s EXCEPT !.ent[d].can = @ \ D, !.ent[d].next[dir] = None], o, d)
  <2> DEFINE next == [s.ent[d].next EXCEPT ![dir] = None]
             e == [s.ent[d] EXCEPT !.can = @ \ D, !.next = next]
               t == [s EXCEPT !.ent[d].can = @ \ D, !.ent[d].next[dir] = None]
  <2>1. next \in [Dirs -> Fds \cup {None, 0}]
    BY <1>1 DEF EntryType
  <2>2. e \in EntryType
    BY <1>1, <2>1, Entries
  <2>3. /\ e.want = s.ent[d].want /\ e.can \subseteq s.ent[d].can
        /\ e.kern = s.ent[d].kern /\ e.flags = s.ent[d].flags
    BY <1>1 DEF EntryType
  <2>4. t = SetEntry(s, d, e)
    BY <1>1 DEF TableType, EntryType, SetEntry
  <2> HIDE DEF e, t
  <2>5. Frame(s, t, d) /\ t.ent[d] = e /\ t.wanted = s.wanted
    BY <2>2, <2>3, <2>4, EntryEffect
  <2>6. Mild(s, t, o, d)
    BY <2>3, <2>5, MildSame DEF Calm, CalmEntry
  <2> QED BY <2>6 DEF t
<1> QED BY <1>2, <1>3

\* Interest is given up.  When the descriptor is ready the table may not stay
\* calm.
LEMMA DontWantEffect ==
  ASSUME NEW s \in TableType, NEW dir \in Dirs, NEW o, NEW d \in o \cap Fds
  PROVE  /\ Frame(s, DontWant(s, dir, d), d)
         /\ DontWant(s, dir, d).ent[d].can = s.ent[d].can
         /\ dir \notin s.ent[d].can => Mild(s, DontWant(s, dir, d), o, d)
<1>1. CASE dir \in s.ent[d].can
  <2>1. DontWant(s, dir, d) = dontwant_really(s, dir, d)
    BY <1>1 DEF DontWant
  <2>2. /\ Frame(s, dontwant_really(s, dir, d), d)
        /\ dontwant_really(s, dir, d).ent[d].can = s.ent[d].can
    BY DontWantReallyEffect
  <2> QED BY <1>1, <2>1, <2>2
<1>2. CASE dir \notin s.ent[d].can
  <2> DEFINE e == [s.ent[d] EXCEPT !.want = @ \ {dir}]
             t == [s EXCEPT !.ent[d].want = @ \ {dir}]
  <2>1. s.ent[d] \in EntryType /\ {dir} \in SUBSET Dirs
    BY DEF TableType
  <2>2. e \in EntryType
    BY <2>1, Entries DEF EntryType
  <2>3. /\ e.want \subseteq s.ent[d].want /\ e.can = s.ent[d].can
        /\ e.kern = s.ent[d].kern /\ e.flags = s.ent[d].flags
    BY <2>1 DEF EntryType
  <2>4. t = SetEntry(s, d, e)
    BY DEF TableType, SetEntry
  <2>5. DontWant(s, dir, d) = t
    BY <1>2 DEF DontWant
  <2> HIDE DEF e, t
  <2>6. Frame(s, t, d) /\ t.ent[d] = e /\ t.wanted = s.wanted
    BY <2>2, <2>3, <2>4, EntryEffect
  <2>7. Mild(s, t, o, d)
    BY <2>3, <2>6, MildSame DEF Calm, CalmEntry
  <2> QED BY <2>3, <2>5, <2>6, <2>7
<1> QED BY <1>1, <1>2

LEMMA OnlyWantEffect ==
  ASSUME NEW s \in TableType, NEW dir \in Dirs, NEW o, NEW d \in o \cap Fds,
         NEW t, t = IF dir = "r" THEN io_onlywantread(s, d) ELSE io_onlywantwrite(s, d)
  PROVE  /\ Frame(s, t, d)
         /\ t.ent[d].can \subseteq s.ent[d].can
         /\ Other(dir) \notin s.ent[d].can => Mild(s, t, o, d)
<1> DEFINE u == DontWant(s, Other(dir), d)
<1>1. Other(dir) \in Dirs
  BY DEF Dirs, Other
<1>2. /\ Frame(s, u, d)
      /\ u.ent[d].can = s.ent[d].can
      /\ Other(dir) \notin s.ent[d].can => Mild(s, u, o, d)
  BY <1>1, DontWantEffect
<1>3. t = IF dir = "r" THEN io_wantread(u, d) ELSE io_wantwrite(u, d)
  BY DEF io_onlywantread, io_onlywantwrite, io_dontwantread, io_dontwantwrite,
         Dirs, Other
<1> HIDE DEF u
<1>4. u \in TableType
  BY <1>2 DEF Frame
<1>5. Mild(u, t, o, d)
  BY <1>3, <1>4, InterestMild
<1>6. Frame(s, t, d) /\ t.ent[d].can \subseteq s.ent[d].can
  BY <1>2, <1>5 DEF Mild, Frame
<1>7. ASSUME Other(dir) \notin s.ent[d].can PROVE Mild(s, t, o, d)
  BY <1>2, <1>5, <1>7, MildTrans
<1> QED BY <1>6, <1>7

-----------------------------------------------------------------------------
(* Closing and opening.                                                    *)

\* One of the two directions of io_close.
Drop(s, dir, d) == IF dir \in s.ent[d].kern THEN dontwant_really(s, dir, d) ELSE s

LEMMA DropEffect ==
  ASSUME NEW s \in TableType, NEW dir \in Dirs, NEW d \in Fds,
         NEW t, t = Drop(s, dir, d)
  PROVE  /\ Frame(s, t, d)
         /\ t.ent[d].can = s.ent[d].can
         /\ t.ent[d].kern = s.ent[d].kern \ {dir}
         /\ s.ent[d].want \subseteq s.ent[d].kern => t.ent[d].want \subseteq t.ent[d].kern
         /\ Counted(s) => Counted(t)
<1>1. CASE dir \in s.ent[d].kern
  <2>1. /\ Frame(s, t, d)
        /\ t.ent[d].want = s.ent[d].want \ {dir}
        /\ t.ent[d].can = s.ent[d].can
        /\ t.ent[d].kern = s.ent[d].kern \ {dir}
        /\ t.wanted = IF Other(dir) \in s.ent[d].kern THEN s.wanted
                                                     ELSE (s.wanted - 1) % Wrap
    BY <1>1, DontWantReallyEffect DEF Drop
  <2>2. s.ent[d].kern \subseteq Dirs
    BY DEF TableType, EntryType
  <2>3. ASSUME Counted(s) PROVE Counted(t)
    <3>1. CASE Other(dir) \in s.ent[d].kern
      <4>1. t.ent[d].kern # {} /\ s.ent[d].kern # {}
        BY <3>1, <2>1 DEF Dirs, Other
      <4> QED BY <3>1, <4>1, <2>1, <2>3, CountSame DEF Frame
    <3>2. CASE Other(dir) \notin s.ent[d].kern
      <4>1. t.ent[d].kern = {} /\ s.ent[d].kern # {}
        BY <3>2, <1>1, <2>1, <2>2 DEF Dirs, Other
      <4> QED BY <3>2, <4>1, <2>1, <2>3, CountDown DEF Frame
    <3> QED BY <3>1, <3>2
  <2> QED BY <2>1, <2>3
<1>2. CASE dir \notin s.ent[d].kern
  BY <1>2 DEF Frame, Drop
<1> QED BY <1>1, <1>2

LEMMA CloseEffect ==
  ASSUME NEW s \in TableType, NEW o, NEW d \in o \cap Fds, d \in s.mapped,
         NEW p, \A x \in Fds : x \in p <=> x \in o /\ x # d,
         NEW t, t = io_close(s, d)
  PROVE  /\ t \in TableType
         /\ "inuse" \notin t.ent[d].flags
         /\ \A x \in Fds \ {d} : t.ent[x] = s.ent[x]
         /\ t.mapped = s.mapped
         /\ Calm(s, o) => Calm(t, p)
<1> DEFINE e == [s.ent[d] EXCEPT !.flags = @ \ {"inuse"}]
           v == [s EXCEPT !.ent[d].flags = @ \ {"inuse"}]
           u == Drop(v, "r", d)
<1>1. s.ent[d] \in EntryType /\ d \in Fds /\ "r" \in Dirs /\ "w" \in Dirs
  BY DEF TableType, Dirs
<1>2. e \in EntryType
  BY <1>1 DEF EntryType
<1>3. /\ e.want = s.ent[d].want /\ e.kern = s.ent[d].kern
      /\ "inuse" \notin e.flags
  BY <1>1 DEF EntryType
<1>4. /\ v.ent = [s.ent EXCEPT ![d] = e]
      /\ v.wanted = s.wanted /\ v.mapped = s.mapped
  BY DEF TableType
<1>5. s.ent \in [Fds -> EntryType]
  BY DEF TableType
<1>6. /\ v.ent \in [Fds -> EntryType] /\ v.ent[d] = e
      /\ \A x \in Fds \ {d} : v.ent[x] = s.ent[x]
  BY <1>1, <1>2, <1>4, <1>5, OneEntry
<1>7. v \in TableType
  BY <1>6 DEF TableType
<1>8. t = Drop(u, "w", d)
  BY DEF io_close, Drop
<1>9. u = Drop(v, "r", d)
  OBVIOUS
<1> HIDE DEF e, v, u
<1>10. /\ Frame(v, u, d)
       /\ u.ent[d].kern = v.ent[d].kern \ {"r"}
       /\ v.ent[d].want \subseteq v.ent[d].kern => u.ent[d].want \subseteq u.ent[d].kern
       /\ Counted(v) => Counted(u)
  BY <1>1, <1>7, <1>9, DropEffect
<1>11. u \in TableType
  BY <1>10 DEF Frame
<1>12. /\ Frame(u, t, d)
       /\ t.ent[d].kern = u.ent[d].kern \ {"w"}
       /\ u.ent[d].want \subseteq u.ent[d].kern => t.ent[d].want \subseteq t.ent[d].kern
       /\ Counted(u) => Counted(t)
  BY <1>1, <1>8, <1>11, DropEffect
<1>13. /\ t \in TableType
       /\ "inuse" \notin t.ent[d].flags
       /\ \A x \in Fds \ {d} : t.ent[x] = s.ent[x]
       /\ t.mapped = s.mapped
  BY <1>3, <1>4, <1>6, <1>10, <1>12 DEF Frame
<1>14. t.ent[d].kern = {}
  <2>1. s.ent[d].kern \subseteq Dirs
    BY <1>1 DEF EntryType
  <2> QED BY <2>1, <1>3, <1>6, <1>10, <1>12 DEF Dirs
<1>15. ASSUME Calm(s, o) PROVE Calm(t, p)
  <2>1. Counted(v)
    BY <1>1, <1>3, <1>4, <1>6, <1>15, CountSame DEF Calm
  <2>2. CalmEntry(t.ent[d], d \in p)
    BY <1>3, <1>6, <1>10, <1>12, <1>14, <1>15 DEF Calm, CalmEntry
  <2>3. \A x \in Fds \ {d} : CalmEntry(t.ent[x], x \in p)
    BY <1>13, <1>15 DEF Calm, CalmEntry
  <2> QED BY <2>1, <2>2, <2>3, <1>10, <1>12 DEF Calm
<1> QED BY <1>13, <1>15

LEMMA AllocatedOf ==
  ASSUME NEW d \in Fds
  PROVE  Allocated(d) \subseteq Fds /\ d \in Allocated(d)
<1>1. d \in Nat /\ Fanout \in Nat \ {0} /\ PerPage \in Nat \ {0}
  BY IoTableAssumption
<1>2. d \div Fanout \in Int
  BY <1>1
<1>3. (d \div Fanout) \div PerPage \in Int
  BY <1>1, <1>2
<1>4. (d \div Fanout) \div PerPage <= (d \div Fanout) \div PerPage
  BY <1>3
<1> QED BY <1>4 DEF Allocated

\* The entry of a descriptor that was closed, or never open, starts anew.
LEMMA NewEntry ==
  ASSUME NEW s \in TableType, NEW d \in Fds, NEW nonblock,
         "inuse" \notin s.ent[d].flags,
         NEW t, t = io_fd_internal(s, d, nonblock)
  PROVE  /\ t \in TableType
         /\ t.ent[d].can = {} /\ t.ent[d].want = {} /\ t.ent[d].kern = {}
         /\ \A x \in Fds \ {d} : t.ent[x] = s.ent[x]
         /\ t.wanted = s.wanted
         /\ t.mapped = s.mapped \cup Allocated(d) /\ d \in t.mapped
<1> DEFINE e == [Zero EXCEPT !.flags = Flags(nonblock), !.next = NoNext]
<1>1. Zero \in EntryType /\ Zero.want = {} /\ Zero.can = {} /\ Zero.kern = {}
  BY DEF Zero, EntryType
<1>2. NoNext \in [Dirs -> Fds \cup {None, 0}]
  BY DEF NoNext
<1>3. Flags(nonblock) \in SUBSET {"inuse", "nonblock"}
  BY DEF Flags
<1>4. e \in EntryType /\ e.want = {} /\ e.can = {} /\ e.kern = {}
  BY <1>1, <1>2, <1>3 DEF EntryType
<1>5. d \in Nat
  BY IoTableAssumption
<1>6. t = [s EXCEPT !.len = d + 1, !.mapped = @ \cup Allocated(d),
                    !.ent[d] = e, !.first = NoNext]
  BY DEF io_fd_internal, TableType
<1> HIDE DEF e
<1>7. /\ t.ent = [s.ent EXCEPT ![d] = e] /\ t.wanted = s.wanted
      /\ t.mapped = s.mapped \cup Allocated(d)
  BY <1>6 DEF TableType
<1>8. s.ent \in [Fds -> EntryType]
  BY DEF TableType
<1>9. /\ t.ent \in [Fds -> EntryType] /\ t.ent[d] = e
      /\ \A x \in Fds \ {d} : t.ent[x] = s.ent[x]
  BY <1>4, <1>7, <1>8, OneEntry
<1>10. t \in TableType
  <2>1. s.wanted \in 0 .. Wrap - 1
    BY DEF TableType
  <2>2. d + 1 \in Nat
    BY <1>5
  <2>3. t = [ent |-> t.ent, first |-> NoNext, wanted |-> s.wanted, len |-> d + 1,
             mapped |-> t.mapped]
    BY <1>6, <1>7 DEF TableType
  <2>4. t.mapped \subseteq Fds
    BY <1>7, AllocatedOf DEF TableType
  <2> QED BY <2>1, <2>2, <2>3, <2>4, <1>2, <1>9 DEF TableType
<1> QED BY <1>4, <1>7, <1>9, <1>10, AllocatedOf

LEMMA NewEntryCalm ==
  ASSUME NEW s, NEW t, NEW o, NEW p, NEW d \in Fds, d \notin o,
         t.ent[d].can = {} /\ t.ent[d].want = {} /\ t.ent[d].kern = {},
         \A x \in Fds \ {d} : t.ent[x] = s.ent[x],
         t.wanted = s.wanted,
         \A x \in Fds : x \in p <=> x \in o \/ x = d,
         Calm(s, o)
  PROVE  Calm(t, p)
<1>1. s.ent[d].kern = {}
  BY DEF Calm, CalmEntry
<1>2. Counted(t)
  BY <1>1, CountSame DEF Calm
<1>3. CalmEntry(t.ent[d], d \in p)
  BY DEF CalmEntry
<1>4. \A x \in Fds \ {d} : CalmEntry(t.ent[x], x \in p)
  BY DEF Calm, CalmEntry
<1> QED BY <1>2, <1>3, <1>4 DEF Calm

LEMMA CanWriteEffect ==
  ASSUME NEW s \in TableType, NEW d \in Fds, NEW nonblock,
         "inuse" \notin s.ent[d].flags,
         NEW t, t = io_fd_canwrite(s, d, nonblock)
  PROVE  /\ t \in TableType
         /\ t.ent[d].can = {"w"}
         /\ \A x \in Fds \ {d} : t.ent[x] = s.ent[x]
         /\ s.mapped \cup {d} \subseteq t.mapped
<1> DEFINE u == io_fd_internal(s, d, nonblock)
           e == [u.ent[d] EXCEPT !.can = @ \cup {"w"}]
<1>1. /\ u \in TableType
      /\ u.ent[d].can = {}
      /\ \A x \in Fds \ {d} : u.ent[x] = s.ent[x]
      /\ s.mapped \cup {d} \subseteq u.mapped
  BY NewEntry
<1>2. t = [u EXCEPT !.ent[d].can = @ \cup {"w"}]
  BY DEF io_fd_canwrite
<1> HIDE DEF u
<1>3. u.ent[d] \in EntryType /\ u.ent \in [Fds -> EntryType] /\ {"w"} \subseteq Dirs
  BY <1>1 DEF TableType, Dirs
<1>4. e \in EntryType /\ e.can = u.ent[d].can \cup {"w"}
  BY <1>3 DEF EntryType
<1>5. t.ent = [u.ent EXCEPT ![d] = e] /\ t.mapped = u.mapped
  BY <1>1, <1>2 DEF TableType
<1> HIDE DEF e
<1>6. /\ t.ent \in [Fds -> EntryType] /\ t.ent[d] = e
      /\ \A x \in Fds \ {d} : t.ent[x] = u.ent[x]
  BY <1>3, <1>4, <1>5, OneEntry
<1>7. t \in TableType
  BY <1>1, <1>2, <1>6 DEF TableType
<1> QED BY <1>1, <1>4, <1>5, <1>6, <1>7

-----------------------------------------------------------------------------
(* Waiting.                                                                *)

\* The entries differ in what is ready and in the queues only.
Alike(s, t) ==
  /\ \A x \in Fds : /\ t.ent[x].flags = s.ent[x].flags
                    /\ t.ent[x].want = s.ent[x].want
                    /\ t.ent[x].kern = s.ent[x].kern
  /\ t.wanted = s.wanted
  /\ t.mapped = s.mapped

LEMMA AlikeCalm ==
  ASSUME NEW s, NEW t, NEW o, Alike(s, t), Calm(s, o),
         \A x \in Fds \cap o : t.ent[x].can \subseteq s.ent[x].kern
  PROVE  Calm(t, o)
<1>1. Watched(t) = Watched(s)
  BY DEF Watched, Alike
<1>2. Counted(t)
  BY <1>1 DEF Counted, Calm, Alike
<1>3. \A x \in Fds : CalmEntry(t.ent[x], x \in o)
  BY DEF Calm, CalmEntry, Alike
<1> QED BY <1>2, <1>3 DEF Calm

LEMMA WaitEffect ==
  ASSUME NEW s \in TableType, NEW rev \in Findings(s), s.wanted # 0,
         NEW t, t = io_waituntil2(s, rev)
  PROVE  /\ t \in TableType
         /\ Alike(s, t)
         /\ \A d \in Fds : \A dir \in t.ent[d].can :
              \/ dir \in s.ent[d].can
              \/ d \in Polled(s) /\ dir \in rev[d] /\ dir \in s.ent[d].want
<1> DEFINE found(d) == IF d \in DOMAIN rev THEN rev[d] ELSE {}
           next(d) == [dir \in Dirs |->
                        IF dir \in found(d) THEN Queued(rev, dir, d, s.first[dir])
                                            ELSE s.ent[d].next[dir]]
           e(d) == [s.ent[d] EXCEPT !.can = found(d), !.next = next(d)]
           f == [d \in Fds |-> IF d > s.len THEN s.ent[d] ELSE e(d)]
           first == [dir \in Dirs |-> IF Readied(rev, dir) = {} THEN s.first[dir]
                                      ELSE Min(Readied(rev, dir))]
<1>1. /\ DOMAIN rev = Polled(s) /\ Polled(s) \subseteq Fds
      /\ \A d \in Polled(s) : rev[d] \subseteq s.ent[d].want
  BY DEF Findings, Polled
<1>2. /\ \A d \in Fds : s.ent[d] \in EntryType
      /\ s.first \in [Dirs -> Fds \cup {None, 0}]
  BY DEF TableType
<1>3. \A d \in Fds : found(d) \in SUBSET Dirs
  BY <1>1, <1>2 DEF EntryType
<1>4. \A dir \in Dirs : /\ Readied(rev, dir) \subseteq Fds
                        /\ Readied(rev, dir) \subseteq Nat
  BY <1>1, IoTableAssumption DEF Readied
<1>5. \A d \in Fds : next(d) \in [Dirs -> Fds \cup {None, 0}]
  <2>1. SUFFICES ASSUME NEW d \in Fds, NEW dir \in Dirs
                 PROVE  /\ Queued(rev, dir, d, s.first[dir]) \in Fds \cup {None, 0}
                        /\ s.ent[d].next[dir] \in Fds \cup {None, 0}
    OBVIOUS
  <2>2. s.ent[d].next[dir] \in Fds \cup {None, 0} /\ s.first[dir] \in Fds \cup {None, 0}
    BY <1>2 DEF EntryType
  <2> DEFINE higher == {x \in Readied(rev, dir) : x > d}
  <2>3. higher \subseteq Nat /\ higher \subseteq Fds
    BY <1>4
  <2>4. higher # {} => Min(higher) \in higher
    <3> HIDE DEF higher
    <3> QED BY <2>3, MinOf
  <2>5. Queued(rev, dir, d, s.first[dir]) = IF higher = {} THEN s.first[dir] ELSE Min(higher)
    BY DEF Queued
  <2> HIDE DEF higher
  <2> QED BY <2>2, <2>3, <2>4, <2>5
<1>6. first \in [Dirs -> Fds \cup {None, 0}]
  <2>1. SUFFICES ASSUME NEW dir \in Dirs
                 PROVE  /\ Readied(rev, dir) # {} => Min(Readied(rev, dir)) \in Fds
                        /\ s.first[dir] \in Fds \cup {None, 0}
    OBVIOUS
  <2>2. Readied(rev, dir) # {} => Min(Readied(rev, dir)) \in Readied(rev, dir)
    BY <1>4, MinOf
  <2> QED BY <2>2, <1>2, <1>4
<1>7. t = [s EXCEPT !.ent = f, !.first = first]
  BY DEF io_waituntil2, TableType
<1> HIDE DEF found, next, first
<1>8. \A d \in Fds : /\ e(d) \in EntryType
                     /\ e(d).flags = s.ent[d].flags /\ e(d).want = s.ent[d].want
                     /\ e(d).kern = s.ent[d].kern /\ e(d).can = found(d)
  <2>1. SUFFICES ASSUME NEW d \in Fds
                 PROVE  /\ e(d) \in EntryType
                        /\ e(d).flags = s.ent[d].flags /\ e(d).want = s.ent[d].want
                        /\ e(d).kern = s.ent[d].kern /\ e(d).can = found(d)
    OBVIOUS
  <2>2. s.ent[d] \in EntryType /\ found(d) \in SUBSET Dirs
        /\ next(d) \in [Dirs -> Fds \cup {None, 0}]
    BY <1>2, <1>3, <1>5
  <2> QED BY <2>2 DEF EntryType
<1> HIDE DEF e
<1>9. /\ f \in [Fds -> EntryType]
      /\ \A d \in Fds : f[d] = s.ent[d] \/ f[d] = e(d)
  BY <1>2, <1>8
<1> HIDE DEF f
<1>10. /\ t.ent = f /\ t.first = first /\ t.wanted = s.wanted
       /\ t.mapped = s.mapped /\ t \in TableType
  BY <1>6, <1>7, <1>9 DEF TableType
<1>11. Alike(s, t)
  BY <1>8, <1>9, <1>10 DEF Alike
<1>12. ASSUME NEW d \in Fds, NEW dir \in t.ent[d].can, dir \notin s.ent[d].can
       PROVE  d \in Polled(s) /\ dir \in rev[d] /\ dir \in s.ent[d].want
  <2>1. dir \in found(d)
    BY <1>8, <1>9, <1>10, <1>12
  <2> QED BY <2>1, <1>1 DEF found
<1> QED BY <1>10, <1>11, <1>12

-----------------------------------------------------------------------------
(* Handing out.                                                            *)

LEMMA DequeuedEffect ==
  ASSUME NEW s \in TableType, NEW dir \in Dirs, NEW d \in Fds \cup {None},
         NEW gone \in SUBSET Fds, NEW t, t = Dequeued(s, dir, d, gone)
  PROVE  /\ t \in TableType
         /\ Alike(s, t)
         /\ \A x \in Fds : t.ent[x].can = s.ent[x].can
<1> DEFINE e(x) == [s.ent[x] EXCEPT !.next[dir] = None]
           f == [x \in Fds |-> IF x \in gone THEN e(x) ELSE s.ent[x]]
           first == [s.first EXCEPT ![dir] = IF d = None THEN None ELSE s.ent[d].next[dir]]
<1>1. /\ s.ent \in [Fds -> EntryType]
      /\ s.first \in [Dirs -> Fds \cup {None, 0}]
  BY DEF TableType
<1>2. \A x \in Fds : /\ e(x) \in EntryType
                     /\ e(x).flags = s.ent[x].flags /\ e(x).want = s.ent[x].want
                     /\ e(x).kern = s.ent[x].kern /\ e(x).can = s.ent[x].can
  <2> SUFFICES ASSUME NEW x \in Fds
               PROVE  /\ e(x) \in EntryType
                      /\ e(x).flags = s.ent[x].flags /\ e(x).want = s.ent[x].want
                      /\ e(x).kern = s.ent[x].kern /\ e(x).can = s.ent[x].can
    BY Zenon
  <2>1. s.ent[x] \in EntryType
    BY <1>1
  <2> QED BY <2>1 DEF EntryType
<1>3. t = [s EXCEPT !.ent = IF f = s.ent THEN s.ent ELSE f, !.first = first]
  BY DEF Dequeued, TableType
<1>4. first \in [Dirs -> Fds \cup {None, 0}]
  BY <1>1 DEF EntryType
<1> HIDE DEF e, first
<1>5. /\ f \in [Fds -> EntryType]
      /\ \A x \in Fds : f[x] = s.ent[x] \/ f[x] = e(x)
  BY <1>1, <1>2
<1> HIDE DEF f
<1>6. t = [s EXCEPT !.ent = f, !.first = first]
  BY <1>3
<1>7. t.ent = f /\ t.wanted = s.wanted /\ t.mapped = s.mapped /\ t \in TableType
  BY <1>4, <1>5, <1>6 DEF TableType
<1> QED BY <1>2, <1>5, <1>7 DEF Alike

\* The descriptor that is handed out.  In a calm table nothing else changes.
LEMMA TakenEffect ==
  ASSUME NEW s \in TableType, NEW dir \in Dirs, NEW d \in Fds,
         NEW t, t = Taken(s, dir, d)
  PROVE  /\ Frame(s, t, d)
         /\ t.ent[d].can = s.ent[d].can \ {dir}
         /\ dir \in s.ent[d].kern => Alike(s, t)
<1> DEFINE e == [s.ent[d] EXCEPT !.can = @ \ {dir}]
           u == [s EXCEPT !.ent[d].can = @ \ {dir}]
<1>1. s.ent[d] \in EntryType /\ {dir} \in SUBSET Dirs
  BY DEF TableType
<1>2. e \in EntryType
  BY <1>1, Entries DEF EntryType
<1>3. /\ e.want = s.ent[d].want /\ e.can = s.ent[d].can \ {dir}
      /\ e.kern = s.ent[d].kern /\ e.flags = s.ent[d].flags
  BY <1>1 DEF EntryType
<1>4. u = SetEntry(s, d, e)
  BY DEF TableType, SetEntry
<1>5. t = IF dir \in s.ent[d].kern THEN u ELSE want_really(u, dir, d)
  BY DEF Taken
<1> HIDE DEF e, u
<1>6. Frame(s, u, d) /\ u.ent[d] = e /\ u.wanted = s.wanted
  BY <1>2, <1>3, <1>4, EntryEffect
<1>7. CASE dir \in s.ent[d].kern
  BY <1>3, <1>5, <1>6, <1>7 DEF Alike, Frame
<1>8. CASE dir \notin s.ent[d].kern
  <2>1. t = want_really(u, dir, d) /\ u \in TableType
    BY <1>5, <1>6, <1>8 DEF Frame
  <2>2. Frame(u, t, d) /\ t.ent[d].can = u.ent[d].can
    BY <2>1, WantReallyEffect
  <2> QED BY <2>2, <1>3, <1>6, <1>8 DEF Frame
<1> QED BY <1>7, <1>8

LEMMA HandOutEffect ==
  ASSUME NEW s \in TableType, NEW dir \in Dirs, NEW o,
         NEW r, r = Next_ready(s, dir)
  PROVE  /\ r.s \in TableType
         /\ r.fd \in Fds \cup {None}
         /\ r.fd # None => Ready(s, dir, r.fd)
         /\ \A x \in Fds : /\ r.s.ent[x].can \subseteq s.ent[x].can
                           /\ x = r.fd => dir \notin r.s.ent[x].can
                           /\ r.s.ent[x].flags = s.ent[x].flags
         /\ r.s.mapped = s.mapped
         /\ Calm(s, o) => Calm(r.s, o)
<1> DEFINE at   == Entry(s, dir)
           hits == {n \in 0 .. Cardinality(Fds) : at[n] \in Fds /\ Ready(s, dir, at[n])}
           last == IF hits = {} THEN Cardinality(Fds) ELSE Min(hits)
           fd   == IF hits = {} THEN None ELSE at[last]
           gone == {d \in Fds : \E n \in 0 .. last : at[n] = d}
           t    == Dequeued(s, dir, fd, gone)
           u    == IF fd = None THEN t ELSE Taken(t, dir, fd)
<1>1. r = [fd |-> fd, s |-> u]
  BY DEF Next_ready
<1>2. r.fd = fd /\ r.s = u
  BY <1>1
<1>3. hits # {} => fd \in Fds /\ Ready(s, dir, fd)
  <2>1. hits \subseteq Nat
    BY WrapFacts
  <2>2. ASSUME hits # {} PROVE Min(hits) \in hits
    <3> HIDE DEF hits
    <3> QED BY <2>1, <2>2, MinOf
  <2> QED BY <2>2
<1>4. hits = {} => fd = None
  OBVIOUS
<1>5. None \notin Fds
  BY IoTableAssumption DEF None
<1>6. gone \in SUBSET Fds
  OBVIOUS
<1>7. t = Dequeued(s, dir, fd, gone) /\ u = IF fd = None THEN t ELSE Taken(t, dir, fd)
  OBVIOUS
<1> HIDE DEF at, hits, last, fd, gone, t, u
<1>8. fd \in Fds \cup {None} /\ (fd # None => fd \in Fds /\ Ready(s, dir, fd))
  BY <1>3, <1>4
<1>9. /\ t \in TableType
      /\ Alike(s, t)
      /\ \A x \in Fds : t.ent[x].can = s.ent[x].can
  BY <1>6, <1>7, <1>8, DequeuedEffect
<1>10. CASE fd = None
  <2>1. u = t
    BY <1>7, <1>10
  <2>2. ASSUME Calm(s, o) PROVE Calm(t, o)
    <3>1. \A x \in Fds \cap o : t.ent[x].can \subseteq s.ent[x].kern
      BY <1>9, <2>2 DEF Calm, CalmEntry
    <3> QED BY <3>1, <1>9, <2>2, AlikeCalm
  <2>3. \A x \in Fds : x # fd
    BY <1>5, <1>10
  <2> QED BY <1>2, <1>8, <1>9, <1>10, <2>1, <2>2, <2>3 DEF Alike
<1>11. CASE fd # None
  <2>1. u = Taken(t, dir, fd) /\ fd \in Fds
    BY <1>7, <1>8, <1>11
  <2>2. /\ Frame(t, u, fd)
        /\ u.ent[fd].can = t.ent[fd].can \ {dir}
        /\ dir \in t.ent[fd].kern => Alike(t, u)
    BY <2>1, <1>9, TakenEffect
  <2>3. \A x \in Fds : /\ u.ent[x].can \subseteq s.ent[x].can
                       /\ x = fd => dir \notin u.ent[x].can
                       /\ u.ent[x].flags = s.ent[x].flags
    BY <2>1, <2>2, <1>9 DEF Frame, Alike
  <2>4. ASSUME Calm(s, o) PROVE Calm(u, o)
    <3>1. dir \in s.ent[fd].kern
      BY <1>8, <2>1, <1>11, <2>4 DEF Ready, Calm, CalmEntry
    <3>2. Alike(s, u)
      BY <3>1, <2>1, <2>2, <1>9 DEF Alike
    <3>3. \A x \in Fds \cap o : u.ent[x].can \subseteq s.ent[x].kern
      BY <2>3, <2>4 DEF Calm, CalmEntry
    <3> QED BY <3>2, <3>3, <2>4, AlikeCalm
  <2>5. u \in TableType /\ u.mapped = s.mapped
    BY <2>2, <1>9 DEF Frame, Alike
  <2> QED BY <1>2, <1>8, <2>3, <2>4, <2>5
<1> QED BY <1>10, <1>11

-----------------------------------------------------------------------------
(* The queues.                                                             *)

\* What follows in a queue of s; first is its n-th entry for n = 0.
Follow(s, dir, f, n) ==
  IF n = 0 THEN s.first[dir]
  ELSE IF f[n - 1] = None THEN None ELSE s.ent[f[n - 1]].next[dir]

\* A queue can be followed, however far.
LEMMA FollowExists ==
  ASSUME NEW s, NEW dir, NEW m \in Nat
  PROVE  \E f : f = [n \in 0 .. m |-> Follow(s, dir, f, n)]
<1> DEFINE Good(k) == \E f : f = [n \in 0 .. k |-> Follow(s, dir, f, n)]
           Bad == {k \in Nat : ~Good(k)}
<1>1. SUFFICES ASSUME Bad # {} PROVE FALSE
  OBVIOUS
<1>2. Min(Bad) \in Bad /\ \A y \in Bad : Min(Bad) <= y
  <2>1. Bad \subseteq Nat
    OBVIOUS
  <2> HIDE DEF Bad
  <2> QED BY <1>1, <2>1, MinOf
<1>3. PICK k : k = Min(Bad)
  OBVIOUS
<1>4. k \in Nat /\ ~Good(k) /\ \A y \in Nat : y < k => Good(y)
  <2> HIDE DEF Good
  <2>1. k \in Nat /\ ~Good(k) /\ \A y \in Bad : k <= y
    BY <1>2, <1>3
  <2>2. ASSUME NEW y \in Nat, y < k PROVE Good(y)
    BY <2>1, <2>2
  <2> QED BY <2>1, <2>2
<1>5. k # 0
  <2> DEFINE g == [n \in 0 .. 0 |-> s.first[dir]]
  <2>1. g = [n \in 0 .. 0 |-> Follow(s, dir, g, n)]
    BY DEF Follow
  <2> QED BY <2>1, <1>4
<1>6. k - 1 \in Nat /\ k - 1 < k
  BY <1>4, <1>5
<1>7. PICK f : f = [n \in 0 .. k - 1 |-> Follow(s, dir, f, n)]
  BY <1>4, <1>6
<1> DEFINE g == [n \in 0 .. k |-> IF n = k THEN Follow(s, dir, f, k) ELSE f[n]]
<1>8. ASSUME NEW n \in 0 .. k PROVE g[n] = Follow(s, dir, g, n)
  <2>1. n # 0 => g[n - 1] = f[n - 1]
    BY <1>4
  <2>2. Follow(s, dir, g, n) = Follow(s, dir, f, n)
    <3> HIDE DEF g
    <3> QED BY <2>1 DEF Follow
  <2>3. n # k => f[n] = Follow(s, dir, f, n)
    <3>1. n # k => n \in 0 .. k - 1
      BY <1>4
    <3> QED BY <3>1, <1>7
  <2> QED BY <2>2, <2>3
<1>9. g = [n \in 0 .. k |-> Follow(s, dir, g, n)]
  BY <1>8
<1> QED BY <1>9, <1>4

LEMMA EntryUnfold ==
  ASSUME NEW s, NEW dir
  PROVE  \A n \in 0 .. Cardinality(Fds) : Entry(s, dir)[n] = Follow(s, dir, Entry(s, dir), n)
<1> DEFINE N == Cardinality(Fds)
<1>1. \E f : f = [n \in 0 .. N |-> Follow(s, dir, f, n)]
  BY FollowExists, WrapFacts
<1>2. Entry(s, dir) = CHOOSE f : f = [n \in 0 .. N |-> Follow(s, dir, f, n)]
  BY DEF Entry, Follow
<1>3. Entry(s, dir) = [n \in 0 .. N |-> Follow(s, dir, Entry(s, dir), n)]
  BY <1>1, <1>2
<1> QED BY <1>3

LEMMA MaxOf ==
  ASSUME NEW S, S \subseteq Nat, S # {}, NEW b \in Nat, \A x \in S : x <= b
  PROVE  \E m \in S : \A x \in S : x <= m
<1> DEFINE U == {u \in Nat : \A x \in S : x <= u}
<1>1. PICK m : m = Min(U)
  OBVIOUS
<1>2. m \in U /\ \A y \in U : m <= y
  <2>1. U \subseteq Nat /\ U # {}
    OBVIOUS
  <2> HIDE DEF U
  <2> QED BY <2>1, <1>1, MinOf
<1>3. ASSUME m \notin S PROVE FALSE
  <2>1. \A x \in S : x < m
    BY <1>2, <1>3
  <2>2. PICK y \in S : y \in Nat /\ y < m
    BY <2>1
  <2>3. m \in Nat /\ m - 1 \in Nat
    BY <2>2, <1>2
  <2>4. ASSUME NEW x \in S PROVE x <= m - 1
    <3>1. x \in Nat /\ x < m
      BY <2>1
    <3> QED BY <3>1, <2>3
  <2>5. m - 1 \in U
    BY <2>3, <2>4
  <2>6. m <= m - 1
    BY <2>5, <1>2
  <2> QED BY <2>3, <2>6
<1> QED BY <1>2, <1>3

\* Where the wait puts the descriptors it found ready.
LEMMA WaitLinks ==
  ASSUME NEW s \in TableType, NEW rev \in Findings(s), s.wanted # 0,
         NEW t, t = io_waituntil2(s, rev), NEW dir \in Dirs
  PROVE  /\ Readied(rev, dir) # {} => t.first[dir] = Min(Readied(rev, dir))
         /\ \A d \in Readied(rev, dir) :
              t.ent[d].next[dir] = Queued(rev, dir, d, s.first[dir])
         /\ \A d \in Polled(s) : dir \in t.ent[d].can => d \in Readied(rev, dir)
<1> DEFINE found(d) == IF d \in DOMAIN rev THEN rev[d] ELSE {}
           next(d) == [x \in Dirs |->
                        IF x \in found(d) THEN Queued(rev, x, d, s.first[x])
                                          ELSE s.ent[d].next[x]]
           e(d) == [s.ent[d] EXCEPT !.can = found(d), !.next = next(d)]
           f == [d \in Fds |-> IF d > s.len THEN s.ent[d] ELSE e(d)]
           first == [x \in Dirs |-> IF Readied(rev, x) = {} THEN s.first[x]
                                    ELSE Min(Readied(rev, x))]
<1>1. DOMAIN rev = Polled(s) /\ Polled(s) \subseteq Fds
  BY DEF Findings, Polled
<1>2. \A d \in Polled(s) : ~(d > s.len)
  <2>1. Fds \subseteq Nat /\ s.len \in Nat
    BY IoTableAssumption DEF TableType
  <2> QED BY <2>1 DEF Polled
<1>3. t = [s EXCEPT !.ent = f, !.first = first]
  BY DEF io_waituntil2, TableType
<1>4. Readied(rev, dir) # {} => first[dir] = Min(Readied(rev, dir))
  OBVIOUS
<1>5. \A d \in Fds : /\ next(d)[dir] = IF dir \in found(d) THEN Queued(rev, dir, d, s.first[dir])
                                                           ELSE s.ent[d].next[dir]
  OBVIOUS
<1> HIDE DEF next, first
<1>6. \A d \in Fds : e(d).can = found(d) /\ e(d).next = next(d)
  BY DEF TableType, EntryType
<1> HIDE DEF e
<1>7. \A d \in Polled(s) : f[d] = e(d)
  BY <1>1, <1>2
<1> HIDE DEF f
<1>8. t.ent = f /\ t.first = first
  BY <1>3 DEF TableType
<1>9. \A d \in Readied(rev, dir) : d \in Polled(s) /\ d \in Fds /\ dir \in found(d)
  BY <1>1 DEF Readied
<1>10. \A d \in Polled(s) : dir \in found(d) => d \in Readied(rev, dir)
  BY <1>1 DEF Readied
<1> HIDE DEF found
<1> QED BY <1>1, <1>4, <1>5, <1>6, <1>7, <1>8, <1>9, <1>10

\* All of them are in the queue after the wait, each behind those below it,
\* whatever the queue was before.
LEMMA WaitQueues ==
  ASSUME NEW s \in TableType, NEW rev \in Findings(s), s.wanted # 0,
         NEW t, t = io_waituntil2(s, rev), NEW dir \in Dirs
  PROVE  Readied(rev, dir) \subseteq InQueue(t, dir)
<1>1. PICK R : R = Readied(rev, dir)
  OBVIOUS
<1>2. PICK at : at = Entry(t, dir)
  OBVIOUS
<1>3. R \subseteq Fds /\ R \subseteq Nat /\ None \notin R /\ IsFiniteSet(R)
  <2>1. R \subseteq Fds
    BY <1>1 DEF Readied, Findings, Polled
  <2>2. R \subseteq Nat /\ IsFiniteSet(R)
    BY <2>1, IoTableAssumption, FS_Subset
  <2>3. None \notin Nat
    BY DEF None
  <2> QED BY <2>1, <2>2, <2>3
<1>4. /\ R # {} => t.first[dir] = Min(R)
      /\ \A d \in R : t.ent[d].next[dir] = Queued(rev, dir, d, s.first[dir])
  BY <1>1, WaitLinks
<1>5. PICK N : N = Cardinality(Fds)
  OBVIOUS
<1>6. /\ N \in Nat
      /\ \A n \in 0 .. N : at[n] = Follow(t, dir, at, n)
  BY <1>2, <1>5, EntryUnfold, WrapFacts
<1> DEFINE Below(d) == {x \in R : x < d}
           Bad == {d \in R : at[Cardinality(Below(d))] # d}
<1>7. \A d \in R : /\ IsFiniteSet(Below(d)) /\ Cardinality(Below(d)) \in 0 .. N
  <2>1. SUFFICES ASSUME NEW d \in R
                 PROVE  IsFiniteSet(Below(d)) /\ Cardinality(Below(d)) \in 0 .. N
    OBVIOUS
  <2>2. Below(d) \subseteq Fds
    BY <1>3
  <2>3. IsFiniteSet(Below(d)) /\ Cardinality(Below(d)) <= N
    <3> HIDE DEF Below
    <3> QED BY <2>2, <1>5, IoTableAssumption, FS_Subset
  <2> HIDE DEF Below
  <2>4. Cardinality(Below(d)) \in Nat
    BY <2>3, FS_CardinalityType
  <2> QED BY <2>3, <2>4, <1>6
<1>8. Bad = {}
  <2>1. SUFFICES ASSUME Bad # {} PROVE FALSE
    OBVIOUS
  <2>2. PICK d : d = Min(Bad)
    OBVIOUS
  <2>3. d \in Bad /\ \A y \in Bad : d <= y
    <3>1. Bad \subseteq Nat
      BY <1>3
    <3> HIDE DEF Bad
    <3> QED BY <3>1, <2>1, <2>2, MinOf
  <2>4. d \in R /\ d \in Nat /\ at[Cardinality(Below(d))] # d
    BY <2>3, <1>3
  <2>5. CASE Below(d) = {}
    <3>1. Cardinality(Below(d)) = 0
      <4> HIDE DEF Below
      <4> QED BY <2>5, FS_EmptySet
    <3>2. at[0] = t.first[dir]
      BY <1>6 DEF Follow
    <3>3. Min(R) \in R /\ \A y \in R : Min(R) <= y
      BY <2>4, <1>3, MinOf
    <3>4. Min(R) = d
      <4>1. Min(R) \in Nat /\ Min(R) <= d
        BY <3>3, <2>4, <1>3
      <4>2. ~(Min(R) < d)
        BY <3>3, <2>5
      <4> QED BY <4>1, <4>2, <2>4
    <3> QED BY <3>1, <3>2, <3>4, <2>4, <1>4
  <2>6. CASE Below(d) # {}
    <3>1. PICK p \in Below(d) : \A x \in Below(d) : x <= p
      <4>1. Below(d) \subseteq Nat /\ \A x \in Below(d) : x <= d
        <5>1. ASSUME NEW x \in Below(d) PROVE x \in Nat /\ x <= d
          <6>1. x \in Nat /\ x < d
            BY <1>3
          <6> QED BY <6>1, <2>4
        <5> HIDE DEF Below
        <5> QED BY <5>1
      <4> HIDE DEF Below
      <4> QED BY <4>1, <2>4, <2>6, MaxOf
    <3>2. p \in R /\ p \in Nat /\ p < d /\ \A x \in R : x < d => x <= p
      BY <3>1, <1>3
    <3>3. at[Cardinality(Below(p))] = p
      <4>1. p \notin Bad
        BY <3>2, <2>3, <2>4
      <4> QED BY <4>1, <3>2
    <3>4. Below(d) = Below(p) \cup {p} /\ p \notin Below(p)
      <4>1. ASSUME NEW x \in R PROVE x < d <=> x < p \/ x = p
        <5>1. x \in Nat
          BY <1>3
        <5> QED BY <5>1, <3>2, <2>4
      <4>2. p \in R /\ ~(p < p)
        BY <3>2
      <4> QED BY <4>1, <4>2
    <3>5. Cardinality(Below(d)) = Cardinality(Below(p)) + 1
      <4>1. IsFiniteSet(Below(p))
        BY <3>2, <1>7
      <4> HIDE DEF Below
      <4> QED BY <4>1, <3>4, FS_AddElement
    <3>6. /\ Cardinality(Below(d)) \in 0 .. N /\ Cardinality(Below(p)) \in 0 .. N
      BY <3>2, <2>4, <1>7
    <3>7. PICK k : k = Cardinality(Below(d))
      OBVIOUS
    <3>8. k \in 0 .. N /\ k # 0 /\ at[k - 1] = p
      <4> HIDE DEF Below
      <4> QED BY <3>3, <3>5, <3>6, <3>7, <1>6
    <3>9. at[k] = t.ent[p].next[dir]
      BY <3>2, <3>8, <1>3, <1>6 DEF Follow
    <3>10. t.ent[p].next[dir] = d
      <4> DEFINE higher == {x \in R : x > p}
      <4>1. d \in higher /\ higher \subseteq Nat
        BY <3>2, <2>4, <1>3
      <4>2. Min(higher) \in higher /\ \A y \in higher : Min(higher) <= y
        <5> HIDE DEF higher
        <5> QED BY <4>1, MinOf
      <4>3. Min(higher) \in R /\ Min(higher) > p /\ Min(higher) <= d
        BY <4>1, <4>2
      <4>4. Min(higher) = d
        <5> HIDE DEF higher
        <5>1. Min(higher) \in Nat
          BY <4>1, <4>2
        <5>2. ~(Min(higher) < d)
          BY <4>3, <5>1, <3>2
        <5> QED BY <4>3, <5>1, <5>2, <2>4
      <4>5. Queued(rev, dir, p, s.first[dir]) = Min(higher)
        BY <4>1, <1>1 DEF Queued
      <4> HIDE DEF higher
      <4> QED BY <4>4, <4>5, <3>2, <1>4
    <3> QED BY <3>7, <3>9, <3>10, <2>4
  <2> QED BY <2>5, <2>6
<1>9. \A d \in R : \E n \in 0 .. N : at[n] = d
  <2>1. SUFFICES ASSUME NEW d \in R PROVE at[Cardinality(Below(d))] = d
    <3> HIDE DEF Below
    <3> QED BY <1>7
  <2> QED BY <1>8
<1> QED BY <1>1, <1>2, <1>3, <1>5, <1>9 DEF InQueue
=============================================================================
